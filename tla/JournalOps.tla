----------------------------- MODULE JournalOps -----------------------------
(***************************************************************************)
(* The queries of the server's metadata database                           *)
(* (server/src/metadata/db.rs) over its table file_records, the journal.   *)
(* Rows are only ever inserted; a row is the record of one commit, and its *)
(* id, the position in the sequence, is the jid clients keep.              *)
(***************************************************************************)
EXTENDS Naturals, Sequences

\* Mutant: the subquery does not look at user_id.
LatestOfAnyUser(log, u) ==
  {i \in DOMAIN log : log[i].user = u /\ \A j \in DOMAIN log : log[j].path = log[i].path => j <= i}

\* max(id) ... GROUP BY path, for one user: the newest record of each path.
Latest(log, u) ==
  {i \in DOMAIN log :
     /\ log[i].user = u
     /\ \A j \in DOMAIN log : log[j].user = u /\ log[j].path = log[i].path => j <= i}

\* Mutants: list without its two filters; list that is off by one.
ListAll(log, u, since) == {i \in DOMAIN log : log[i].user = u}
ListAfterNext(log, u, since) == {i \in Latest(log, u) : i > since + 1}

\* list: what changed since a journal id.
ListSince(log, u, since) == {i \in Latest(log, u) : i > since}

\* latest_for_path(..).optional(): at most one id.
LatestForPath(log, u, p) == {i \in Latest(log, u) : log[i].path = p}

\* has_files
HasFiles(log, u) == \E i \in Latest(log, u) : ~ log[i].deleted

\* The dedup test of commit.
SameContent(r, s) == r.chunks = s.chunks /\ r.deleted = s.deleted

----------------------------------------------------------------------------
(* The reference the queries are checked against: the folder a user's      *)
(* commits describe, built by replaying the journal one record at a time.  *)

\* Folder(log, u, Paths)[n][p]: the id of the record that describes path p
\* after the first n records, 0 if none does.
Folder(log, u, Paths) ==
  LET after[n \in 0 .. Len(log)] ==
        IF n = 0
        THEN [p \in Paths |-> 0]
        ELSE [p \in Paths |-> IF log[n].user = u /\ log[n].path = p
                              THEN n ELSE after[n - 1][p]]
  IN  after
=============================================================================
