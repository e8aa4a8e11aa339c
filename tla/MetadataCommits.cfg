\* Three commits of two devices of one user and a device of another, two paths.
SPECIFICATION Spec
CONSTANTS
  u1 = u1
  u2 = u2
  u3 = u3
  alice = alice
  bob = bob
  f = f
  g = g
  c = c
  Clients <- MCClients
  Users <- MCUsers
  UserOf <- MCUserOf
  Paths <- MCPaths
  Chunks <- MCChunks
  ChunkLists <- MCOneChunk
  MaxCalls = 3
  MaxPolls = 0
INVARIANTS ListCatchesUp
PROPERTIES ImplementsJournal
CHECK_DEADLOCK FALSE
