\* Two clients, two chunks; bodies are cut in a field and in a header, and one file
\* takes two batches.
SPECIFICATION FairSpec
CONSTANTS
  a = a
  b = b
  c1 = c1
  c2 = c2
  h1 = h1
  h2 = h2
  NotWaiting = NotWaiting
  Clients <- MCClients
  Chunks <- MCChunks
  Needs <- MCNeeds
  Parts <- MCParts
  Handlers <- MCHandlers
  BatchLimit = 2
  BodyLimit = 6
  MaxFaults = 1
  MaxLosses = 1
INVARIANTS TypeOK WholeOrAbsent
PROPERTIES UploadsConverge
CHECK_DEADLOCK FALSE
