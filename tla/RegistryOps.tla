---------------------------- MODULE RegistryOps ----------------------------
(***************************************************************************)
(* The client registry as its callers see it (client/src/registry.rs).     *)
(*                                                                         *)
(* The SQLite table file_records only grows: the indexer and the syncer    *)
(* insert a row for every change they see, and the syncer fills in the jid *)
(* of a row it has committed.  Its callers never look at more than         *)
(*    row[p]   the row with the largest id of path p (NoRow if none),      *)
(*    jids     the journal ids found in any row, superseded rows included, *)
(*    cursor   the largest of them, 0 when there is none,                  *)
(* so this is what a "view" keeps.  Module Registry models the table       *)
(* itself and shows that it implements this view.                          *)
(*                                                                         *)
(* A NULL jid is 0: the server numbers its records from 1.  The pair       *)
(* (size, modified_at) of a file is one number, its stamp.                 *)
(***************************************************************************)
EXTENDS Integers

CONSTANT Paths          \* paths relative to the storage directory

NoJid == 0

Row == [id : Nat, jid : Nat, deleted : BOOLEAN, stamp : Nat]

\* What stands for "this path has no row": nothing to upload, no file known.
NoRow == [id |-> 0, jid |-> NoJid, deleted |-> TRUE, stamp |-> 0]

\* The columns an insert supplies; id is the database's.
Form == [jid : Nat, deleted : BOOLEAN, stamp : Nat]

View == [row : [Paths -> Row], jids : SUBSET Nat, cursor : Nat]

EmptyView == [row |-> [p \in Paths |-> NoRow], jids |-> {}, cursor |-> 0]

Later(m, n) == IF m > n THEN m ELSE n

RowOf(id, form) ==
  [id |-> id, jid |-> form.jid, deleted |-> form.deleted, stamp |-> form.stamp]

\* One INSERT of rows with no jid, for the paths in DOMAIN forms: what the
\* indexer does with its to_remove and to_add lists.
InsertLocal(v, forms, ids) ==
  [v EXCEPT !.row = [p \in Paths |-> IF p \in DOMAIN forms
                                     THEN RowOf(ids[p], forms[p])
                                     ELSE v.row[p]]]

\* The INSERT of one row that carries a jid: what the syncer does with a
\* record it has applied to the disk.
InsertRemote(v, p, form, id) ==
  [row    |-> [v.row EXCEPT ![p] = RowOf(id, form)],
   jids   |-> v.jids \cup {form.jid},
   cursor |-> Later(v.cursor, form.jid)]

\* Mutant: UPDATE ... SET jid WHERE path.
UpdateJidOfPath(v, p, id, jid) ==
  [row |-> [v.row EXCEPT ![p].jid = jid], jids |-> v.jids \cup {jid},
   cursor |-> Later(v.cursor, jid)]

\* UPDATE ... SET jid WHERE id: a row superseded in the meantime is not in
\* the view any more, and only its jid is noted.
UpdateJid(v, p, id, jid) ==
  [row    |-> IF v.row[p].id = id THEN [v.row EXCEPT ![p].jid = jid] ELSE v.row,
   jids   |-> v.jids \cup {jid},
   cursor |-> Later(v.cursor, jid)]

----------------------------------------------------------------------------
(* The queries.                                                            *)

HasRow(v, p) == v.row[p].id # 0

\* non_deleted: the files the indexer compares with the disk.
NonDeleted(v) == {p \in Paths : ~ v.row[p].deleted}

\* updated_locally: the rows to send to the server.
UpdatedLocally(v) == {p \in Paths : HasRow(v, p) /\ v.row[p].jid = NoJid}

\* Mutant: latest_jid(..).unwrap_or(-1)
LatestJidOrMinusOne(v) == IF v.jids = {} THEN -1 ELSE v.cursor

\* latest_jid(..).unwrap_or(0)
LatestJid(v) == v.cursor
=============================================================================
