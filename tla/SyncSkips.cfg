\* Two clients that edit and upload: what one of them misses.
SPECIFICATION Spec
CONSTANTS
  a = a
  b = b
  f = f
  g = g
  x = x
  y = y
  Account = acct
  Torn = Torn
  Gone = Gone
  Clients <- MCClients
  Writers <- MCClients
  Editors <- MCClients
  Unreliable <- Nobody
  Paths <- TwoPaths
  Contents <- MCOneContent
  ListIsOrdered = TRUE
  MaxEdits = 2
  MaxRestarts = 0
  MaxRecords = 3
INVARIANTS WritersSkipNothing
