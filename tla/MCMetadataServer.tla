------------------------- MODULE MCMetadataServer -------------------------
(* The metadata service on small instances.                               *)
EXTENDS MetadataServer

CONSTANTS u1, u2, u3, alice, bob, f, g, c

MCTwoClients == {u1, u2}
MCClients == {u1, u2, u3}
MCUsers == {alice, bob}
MCOnePath == {f}
MCPaths == {f, g}
MCChunks == {c}
MCOneChunk == {{c}}
MCEmptyFile == {{}}

\* u1 and u2 are two devices of one user, u3 is somebody else's.
MCUserOf == [u \in MCClients |-> IF u = u3 THEN bob ELSE alice]
MCAlices == [u \in MCTwoClients |-> alice]
=============================================================================
