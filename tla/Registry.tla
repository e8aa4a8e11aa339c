------------------------------ MODULE Registry ------------------------------
(***************************************************************************)
(* The table file_records of the client (client/src/registry.rs) and the   *)
(* statements its callers execute: the indexer inserts rows without a jid, *)
(* several at once; the syncer inserts one row with the jid of a record it *)
(* has applied, or sets the jid of a row it has committed.  No statement   *)
(* removes a row.  Row i of the sequence has id i.                         *)
(*                                                                         *)
(* Every namespace sees the table through the view of RegistryOps; the     *)
(* mapping is ViewOf.                                                      *)
(***************************************************************************)
EXTENDS RegistryOps, Sequences, FiniteSetsExt

CONSTANTS Namespaces,   \* namespace_id
          Jids, Stamps,
          MaxRows       \* bound on the length of the table

ASSUME RegistryAssumption ==
  /\ Jids \subseteq Nat \ {0}
  /\ Stamps \subseteq Nat
  /\ MaxRows \in Nat

VARIABLE table

TableRow == [ns : Namespaces, path : Paths, jid : Nat,
             deleted : BOOLEAN, stamp : Nat]

TypeOK == table \in Seq(TableRow) /\ Len(table) <= MaxRows

Init == table = << >>

----------------------------------------------------------------------------
(* The statements.                                                         *)

\* Mutant: the statement is executed a second time.
InsertTwice(t, rows) == t \o rows \o rows

\* create and delete: both insert rows.
Insert(t, rows) == t \o rows

\* Mutant: UPDATE ... SET jid WHERE path.
SetJidOfPath(t, id, jid) ==
  [i \in DOMAIN t |-> IF t[i].path = t[id].path THEN [t[i] EXCEPT !.jid = jid] ELSE t[i]]

\* update_jid
SetJid(t, id, jid) == [t EXCEPT ![id].jid = jid]

\* Mutant: the subquery does not look at namespace_id.
LatestIdsOfAnyNamespace(t, ns) ==
  {i \in DOMAIN t : t[i].ns = ns /\ \A j \in DOMAIN t : t[j].path = t[i].path => j <= i}

\* SELECT max(id) ... GROUP BY path, within a namespace
LatestIds(t, ns) ==
  {i \in DOMAIN t :
     /\ t[i].ns = ns
     /\ \A j \in DOMAIN t : t[j].ns = ns /\ t[j].path = t[i].path => j <= i}

\* non_deleted
NonDeletedIds(t, ns) == {i \in LatestIds(t, ns) : ~ t[i].deleted}

\* updated_locally
UpdatedLocallyIds(t, ns) == {i \in LatestIds(t, ns) : t[i].jid = NoJid}

JidsIn(t, ns) == {t[i].jid : i \in {j \in DOMAIN t : t[j].ns = ns}} \ {NoJid}

\* Mutant: superseded rows do not count.
LatestJidOfLatestRows(t, ns) == Max({t[i].jid : i \in LatestIds(t, ns)} \cup {0})

\* latest_jid(..).unwrap_or(0)
TableLatestJid(t, ns) == Max(JidsIn(t, ns) \cup {0})

----------------------------------------------------------------------------

\* check_index_once: the rows it inserts are about different paths.
IndexerInsert(ns) ==
  \E n \in 1 .. MaxRows - Len(table) :
  \E rows \in [1 .. n -> [ns : {ns}, path : Paths, jid : {NoJid},
                          deleted : BOOLEAN, stamp : Stamps]] :
    /\ \A i, j \in 1 .. n : rows[i].path = rows[j].path => i = j
    /\ table' = Insert(table, rows)

\* check_download_once, one applied record.
SyncerInsert(ns) ==
  /\ Len(table) < MaxRows
  /\ \E row \in [ns : {ns}, path : Paths, jid : Jids,
                 deleted : BOOLEAN, stamp : Stamps] :
       table' = Insert(table, <<row>>)

\* check_upload_once, one committed record: it was read by updated_locally,
\* perhaps before newer rows of its path were inserted.
SyncerCommit(ns) ==
  \E i \in DOMAIN table, jid \in Jids :
    /\ table[i].ns = ns
    /\ table[i].jid = NoJid
    /\ table' = SetJid(table, i, jid)

Next == \E ns \in Namespaces :
          IndexerInsert(ns) \/ SyncerInsert(ns) \/ SyncerCommit(ns)

Spec == Init /\ [][Next]_table

----------------------------------------------------------------------------
(* What the callers of the registry rely on.                               *)

\* The rows of a path, and the newest of them: the reference that the grouped
\* subquery of LatestIds is compared with.
RowsOf(t, ns, p) == {i \in DOMAIN t : t[i].ns = ns /\ t[i].path = p}

LatestRow(t, ns, p) ==
  IF RowsOf(t, ns, p) = {} THEN NoRow
  ELSE LET newest == Max(RowsOf(t, ns, p)) IN RowOf(newest, t[newest])

ViewOf(ns) ==
  [row    |-> [p \in Paths |-> LatestRow(table, ns, p)],
   jids   |-> JidsIn(table, ns),
   cursor |-> TableLatestJid(table, ns)]

Abstract(ns) == INSTANCE RegistryView
                  WITH view <- ViewOf(ns), Ids <- 1 .. MaxRows,
                       Newer <- {ids \in (1 .. MaxRows) \X (0 .. MaxRows) : ids[1] > ids[2]}

\* Each namespace sees a registry of its own that moves as RegistryView
\* says: a late update_jid of a superseded row does not touch the newer one,
\* and rows of other namespaces change nothing.  (This is
\* \A ns \in Namespaces : Abstract(ns)!Spec in a form TLC evaluates.)
ImplementsView ==
  /\ \A ns \in Namespaces : Abstract(ns)!Init
  /\ [][\A ns \in Namespaces : [Abstract(ns)!Next]_(ViewOf(ns))]_table

\* non_deleted and updated_locally (registry.rs), which single out rows by a
\* subquery of their own, max(id) GROUP BY path within the namespace, name each
\* path once, and exactly the paths whose newest row is a file, or lacks a jid:
\* a change that was overtaken by a downloaded record is never uploaded, and a
\* row of another namespace hides none.  The newest row is that of ViewOf, which
\* takes it from the table without the subquery.
QueriesMatchView ==
  \A ns \in Namespaces :
    /\ NonDeleted(ViewOf(ns)) = {table[i].path : i \in NonDeletedIds(table, ns)}
    /\ UpdatedLocally(ViewOf(ns)) = {table[i].path : i \in UpdatedLocallyIds(table, ns)}
    /\ \A i, j \in LatestIds(table, ns) : table[i].path = table[j].path => i = j

\* The cursor sent with GET /metadata/list (syncer.rs, latest_jid) never
\* falls, whatever order commits and downloads are recorded in, although
\* latest_jid reads superseded rows too.
CursorNeverFalls ==
  [][\A ns \in Namespaces :
       TableLatestJid(table, ns) <= TableLatestJid(table', ns)]_table
=============================================================================
