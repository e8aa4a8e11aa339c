\* A client that edits and uploads and one that only reads; either may crash once,
\* the uploading one also in the middle of a commit.
SPECIFICATION Spec
CONSTANTS
  a = a
  b = b
  f = f
  g = g
  x = x
  y = y
  Account = acct
  Torn = Torn
  Gone = Gone
  Clients <- MCClients
  Writers <- OnlyA
  Editors <- OnlyA
  Unreliable <- MCClients
  Paths <- TwoPaths
  Contents <- MCOneContent
  ListIsOrdered = TRUE
  MaxEdits = 2
  MaxRestarts = 1
  MaxRecords = 3
INVARIANTS TypeOK OnlyOwnCommitsSkip RowsVouchForFiles PassedMeansApplied RowsNameRecords TornNeverCommitted
PROPERTIES ReadersNeverGoBack
SYMMETRY PathSymmetry
