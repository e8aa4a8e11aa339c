---------------------------- MODULE MCRegistry ----------------------------
(* The registry on a small instance: two namespaces that share the table. *)
EXTENDS Registry

CONSTANTS ns1, ns2, p1, p2

MCNamespaces == {ns1, ns2}
MCPaths == {p1, p2}
MCJids == 1 .. 2
MCStamps == 1 .. 1
=============================================================================
