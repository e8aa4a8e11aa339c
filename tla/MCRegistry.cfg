\* Two namespaces, two paths, tables of up to three rows, jids in any order.
SPECIFICATION Spec
CONSTANTS
  ns1 = ns1
  ns2 = ns2
  p1 = p1
  p2 = p2
  Namespaces <- MCNamespaces
  Paths <- MCPaths
  Jids <- MCJids
  Stamps <- MCStamps
  MaxRows = 3
INVARIANTS TypeOK QueriesMatchView
PROPERTIES ImplementsView CursorNeverFalls
CHECK_DEADLOCK FALSE
