\* A batch of two chunks, and one over the limit; one rewrite, one broken connection.
SPECIFICATION FairSpec
CONSTANTS
  empty = empty
  tricky = tricky
  Chunks <- MCChunks
  Whole <- MCWhole
  Requests <- MCRequests
  Tokens <- MCTokens
  FormLimit = 2
  Leeway = 0
  MaxTime = 1
  MaxRewrites = 1
  MaxBreaks = 1
  MaxDeploys = 1
INVARIANTS TypeOK PartsAsStreamed WholeUnlessRewritten RefusalsStand
PROPERTIES BatchArrives
CHECK_DEADLOCK FALSE
