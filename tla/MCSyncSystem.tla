--------------------------- MODULE MCSyncSystem ---------------------------
(* Two clients of one account on small instances.                         *)
EXTENDS SyncSystem, TLC

CONSTANTS a, b, f, g, x, y

MCClients == {a, b}
OnlyA == {a}
Nobody == {}
OnePath == {f}
TwoPaths == {f, g}
MCContents == {x, y}
MCOneContent == {x}

\* Paths that play the same part.
PathSymmetry == Permutations(TwoPaths)
=============================================================================
