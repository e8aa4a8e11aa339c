---------------------------- MODULE MCChunkStore ----------------------------
(* The chunk store on a small instance: two clients whose files share a chunk. *)
EXTENDS ChunkStore

CONSTANTS a, b, c1, c2, h1, h2

MCClients == {a, b}
MCChunks == {c1, c2}
MCHandlers == {h1, h2}

\* One line of b's file occurs three times.
MCNeeds == [k \in MCClients |-> IF k = a THEN <<c1, c2>> ELSE <<c1, c1, c2, c1>>]
MCParts == [c \in MCChunks |-> IF c = c1 THEN 1 ELSE 2]
=============================================================================
