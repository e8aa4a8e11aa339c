------------------------------ MODULE Journal ------------------------------
(***************************************************************************)
(* The abstract specification of the metadata service: a journal that only *)
(* grows, and commit calls that are decided at most once.  A call is       *)
(* decided either by its own record at the end of the journal, or by the   *)
(* record that is the newest of its path at that moment and says the same. *)
(***************************************************************************)
EXTENDS JournalOps

CONSTANTS Calls, Records    \* commit calls, and the records they may carry

VARIABLES log,      \* the journal
          asked,    \* the record each call made so far carries
          decided   \* call -> the id it was decided with, 0 before that

vars == <<log, asked, decided>>

Init ==
  /\ log = << >>
  /\ asked = << >>
  /\ decided = [k \in Calls |-> 0]

Submit(k, r) ==
  /\ k \notin DOMAIN asked
  /\ asked' = [j \in DOMAIN asked \cup {k} |-> IF j = k THEN r ELSE asked[j]]
  /\ UNCHANGED <<log, decided>>

NewRecord(k) ==
  /\ log' = Append(log, asked[k])
  /\ decided' = [decided EXCEPT ![k] = Len(log) + 1]

KnownRecord(k) ==
  \E i \in LatestForPath(log, asked[k].user, asked[k].path) :
    /\ SameContent(log[i], asked[k])
    /\ decided' = [decided EXCEPT ![k] = i]
    /\ UNCHANGED log

Decide(k) ==
  /\ k \in DOMAIN asked
  /\ decided[k] = 0
  /\ NewRecord(k) \/ KnownRecord(k)
  /\ UNCHANGED asked

Next == \E k \in Calls : Decide(k) \/ \E r \in Records : Submit(k, r)

Spec == Init /\ [][Next]_vars
=============================================================================
