\* A client that uploads and one that only reads.
SPECIFICATION FairSpec
CONSTANTS
  a = a
  b = b
  f = f
  g = g
  x = x
  y = y
  Account = acct
  Torn = Torn
  Gone = Gone
  Clients <- MCClients
  Writers <- OnlyA
  Editors <- OnlyA
  Unreliable <- Nobody
  Paths <- OnePath
  Contents <- MCContents
  ListIsOrdered = TRUE
  MaxEdits = 2
  MaxRestarts = 0
  MaxRecords = 9

PROPERTIES ReadersCatchUp UploadsDrain
