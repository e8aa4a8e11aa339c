\* Two files the client indexes and one it does not; a clock of two ticks a second.
SPECIFICATION FairSpec
CONSTANTS
  f = f
  g = g
  pdf = pdf
  old = old
  new = new
  Empty = Empty
  Paths <- MCPaths
  Eligible <- MCEligible
  Contents <- MCContents
  SizeOf <- MCSizeOf
  MaxSize = 1
  Downloads <- MCDownloads
  TicksPerSecond = 2
  MaxTicks = 2
  MaxEdits = 2
  MaxSaves = 1
  MaxFaults = 1
INVARIANTS TypeOK
PROPERTIES EditsNoted NoPhantomNotes DeletionsAreReal
