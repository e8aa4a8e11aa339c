-------------------------- MODULE MCDownloadBatch --------------------------
(* A batch whose content looks like what surrounds it.                     *)
EXTENDS DownloadBatch

CONSTANTS empty, tricky

MCChunks == {empty, tricky}

\* No content; and a text that begins as the content after a header block
\* does, and ends as a boundary begins.
MCWhole == [c \in MCChunks |->
  IF c = empty THEN << >> ELSE <<"CR", "LF", "CR", "LF", "--">>]

\* The second is longer than FormLimit.
MCRequests == {<<tricky, empty>>, <<tricky, empty, tricky>>}

Integer(t) == [kind |-> "integer", time |-> t]

\* One whose plan ends, one with a malformed claim, one that expires, a forged one.
MCTokens ==
  {[signed |-> TRUE, exp |-> 2, sync_until |-> Integer(0)],
   [signed |-> TRUE, exp |-> 2, sync_until |-> [kind |-> "malformed", time |-> 0]],
   [signed |-> TRUE, exp |-> 0, sync_until |-> Integer(2)],
   [signed |-> FALSE, exp |-> 2, sync_until |-> Integer(2)]}
=============================================================================
