\* A chunk that a record names is removed by an upload that is cut off.
SPECIFICATION Spec
CONSTANTS
  a = a
  b = b
  c1 = c1
  c2 = c2
  h1 = h1
  h2 = h2
  NotWaiting = NotWaiting
  Clients <- MCClients
  Chunks <- MCChunks
  Needs <- MCNeeds
  Parts <- MCParts
  Handlers <- MCHandlers
  BatchLimit = 2
  BodyLimit = 6
  MaxFaults = 1
  MaxLosses = 0
INVARIANTS RecordedChunksPresent
CHECK_DEADLOCK FALSE
