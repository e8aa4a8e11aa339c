----------------------------- MODULE MCIndexing -----------------------------
(* The indexer on a small folder.                                          *)
EXTENDS Indexing

CONSTANTS f, g, pdf, old, new

MCPaths == {f, g, pdf}
MCEligible == {f, g}
MCContents == {old, new}

\* Two contents of the same size.
MCSizeOf == [d \in MCContents \cup {Empty} |-> IF d = Empty THEN 0 ELSE 1]

MCDownloads == {[path |-> p, data |-> new] : p \in {f, pdf}}
=============================================================================
