\* Two devices of one user, two commits, three polls.  A client may hang up
\* and poll again before the server notices.
SPECIFICATION Spec
CONSTANTS
  u1 = u1
  u2 = u2
  u3 = u3
  alice = alice
  bob = bob
  f = f
  g = g
  c = c
  Clients <- MCTwoClients
  Users <- MCUsers
  UserOf <- MCAlices
  Paths <- MCOnePath
  Chunks <- MCChunks
  ChunkLists <- MCEmptyFile
  MaxCalls = 2
  MaxPolls = 3
INVARIANTS TypeOK CommitReleasesPolls
CHECK_DEADLOCK FALSE
