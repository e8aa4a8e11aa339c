--------------------------- MODULE RegistryView ---------------------------
(***************************************************************************)
(* The abstract specification of the client registry of one namespace: the *)
(* view of RegistryOps, and the three ways the indexer and the syncer may  *)
(* change it.  Module Registry implements it with the table file_records,  *)
(* whose ids grow; the registries of module SyncSystem, whose callers      *)
(* compare ids for equality only, are registries of this kind too.         *)
(***************************************************************************)
EXTENDS RegistryOps

CONSTANTS Ids,      \* row ids the database may hand out
          Jids,     \* journal ids the server may hand out
          Stamps,   \* values of (size, modified_at)
          Newer     \* <<i, j>>: a row with id i may supersede one with id j

VARIABLE view

Init == view = EmptyView

LocalForm == [jid : {NoJid}, deleted : BOOLEAN, stamp : Stamps]

\* The indexer notes changes of some paths; their rows supersede older ones.
NoteChanges ==
  \E changed \in SUBSET Paths :
  \E forms \in [changed -> LocalForm], ids \in [changed -> Ids] :
    /\ \A p \in changed : <<ids[p], view.row[p].id>> \in Newer
    /\ view' = InsertLocal(view, forms, ids)

\* The syncer notes a record of the server's journal it has applied.
NoteApplied ==
  \E p \in Paths, jid \in Jids, deleted \in BOOLEAN, stamp \in Stamps, id \in Ids :
    /\ <<id, view.row[p].id>> \in Newer
    /\ view' = InsertRemote(view, p,
                 [jid |-> jid, deleted |-> deleted, stamp |-> stamp], id)

\* The syncer notes the jid the server gave to a row that had none.
NoteCommitted ==
  \E p \in Paths, id \in Ids, jid \in Jids :
    /\ view.row[p].id = id => view.row[p].jid = NoJid
    /\ view' = UpdateJid(view, p, id, jid)

Next == NoteChanges \/ NoteApplied \/ NoteCommitted

Spec == Init /\ [][Next]_view
=============================================================================
