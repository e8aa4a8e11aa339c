---------------------------- MODULE SyncProofs ----------------------------
(***************************************************************************)
(* What module SyncSystem promises for any clients, paths, contents and    *)
(* bounds.  The inductive invariant comes in layers, each of which uses    *)
(* the ones before it: TypeInv (types, and what the loops hold on to),     *)
(* then one for each property.                                             *)
(***************************************************************************)
EXTENDS SyncSystem, TLAPS

\* The upload loop works on rows of its queue, which names a path once.
QueueOK ==
  \A c \in Clients :
    /\ up[c].row \subseteq up[c].queue
    /\ \A f, h \in up[c].row : f = h
    /\ up[c].pc \in {"idle", "next"} => up[c].row = {}
    /\ \A f, h \in up[c].queue : f.path = h.path => f = h

\* The download loop works on records of the journal.
TodoOK ==
  \A c \in Clients :
    /\ dl[c].todo \subseteq DOMAIN journal
    /\ dl[c].pc \in {"write", "record", "remove"} => dl[c].item \in dl[c].todo

TypeInv == TypeOK /\ QueueOK /\ TodoOK

----------------------------------------------------------------------------
(* The operators of RegistryOps stay within View.                          *)

\* An insert of the indexer's yields a view.
LEMMA InsertLocalType ==
  ASSUME NEW v \in View, NEW S \in SUBSET Paths,
         NEW forms \in [S -> Form], NEW ids \in [Paths -> Nat]
  PROVE  InsertLocal(v, forms, ids) \in View
BY DEF InsertLocal, View, Row, RowOf, Form

\* An insert of the syncer's yields a view.
LEMMA InsertRemoteType ==
  ASSUME NEW v \in View, NEW p \in Paths, NEW form \in Form, NEW id \in Nat
  PROVE  InsertRemote(v, p, form, id) \in View
BY DEF InsertRemote, View, Row, RowOf, Form, Later

\* update_jid yields a view.
LEMMA UpdateJidType ==
  ASSUME NEW v \in View, NEW p \in Paths, NEW id \in Nat, NEW jid \in Nat
  PROVE  UpdateJid(v, p, id, jid) \in View
BY DEF UpdateJid, View, Row, Later

----------------------------------------------------------------------------

\* A new row gets an id that neither the registry nor the upload loop holds:
\* of the three there are to choose from, they hold two at most.
LEMMA NextIdIsFree ==
  ASSUME TypeInv, NEW c \in Clients, NEW p \in Paths
  PROVE  NextIds(c)[p] \in 1 .. 3 \ HeldIds(c, p)
<1> DEFINE held == {f.id : f \in {q \in up[c].queue : q.path = p}}
<1>1. \E x : held \subseteq {x}
  <2>1. CASE held = {}
    BY <2>1
  <2>2. CASE held # {}
    <3>1. PICK f \in up[c].queue : f.path = p
      BY <2>2
    <3>2. held \subseteq {f.id}
      BY <3>1 DEF TypeInv, QueueOK
    <3> QED BY <3>2
  <2> QED BY <2>1, <2>2
<1>2. PICK x : held \subseteq {x}
  BY <1>1
<1>3. HeldIds(c, p) \subseteq {0, reg[c].row[p].id, x}
  BY <1>2 DEF HeldIds
<1>4. \E i \in 1 .. 3 : i \notin HeldIds(c, p)
  BY <1>3
<1> QED BY <1>4 DEF NextIds

\* What is written to a disk stays a disk.
LEMMA DiskType ==
  ASSUME TypeOK, NEW c \in Clients, NEW p \in Paths
  PROVE  /\ \A data \in Data : Written(c, p, data) \in [Clients -> Files]
         /\ Removed(c, p) \in [Clients -> Files]
<1>1. disk[c] \in Files /\ disk[c][p].data \in Data /\ disk[c][p].stamp \in Nat
  BY DEF TypeOK, Files
<1>2. ASSUME NEW data \in Data
      PROVE  [disk[c] EXCEPT ![p] = [data |-> data, stamp |-> NewStamp(c, p)]] \in Files
  BY <1>1 DEF Files, NewStamp
<1>3. [disk[c] EXCEPT ![p].data = Gone] \in Files
  BY <1>1, Gone \in Data DEF Files, Data
<1> QED BY <1>2, <1>3 DEF TypeOK, Written, Removed

\* A record the syncer notes leaves registries registries.
LEMMA RecordedType ==
  ASSUME TypeInv, NEW c \in Clients, NEW i \in DOMAIN journal,
         NEW deleted \in BOOLEAN, NEW stamp \in Nat
  PROVE  Recorded(c, i, deleted, stamp) \in [Clients -> View]
<1> DEFINE p == journal[i].path
<1>1. p \in Paths /\ i \in Nat
  <2>1. journal[i] \in Entry /\ i \in Nat
    BY DEF TypeInv, TypeOK
  <2> QED BY <2>1 DEF Entry
<1>2. NextIds(c)[p] \in Nat
  BY <1>1, NextIdIsFree
<1>3. RemoteForm(i, deleted, stamp) \in Form
  BY <1>1 DEF RemoteForm, Form
<1>4. InsertRemote(reg[c], p, RemoteForm(i, deleted, stamp), NextIds(c)[p]) \in View
  BY <1>1, <1>2, <1>3, InsertRemoteType DEF TypeInv, TypeOK
<1> QED BY <1>4 DEF Recorded, TypeInv, TypeOK

\* A run that ends leaves its loops where a run starts.
LEMMA RunEndsInv ==
  ASSUME TypeInv, NEW c \in Clients, RunEnds(c), journal' = journal
  PROVE  /\ dl' \in [Clients -> DlState] /\ up' \in [Clients -> UpState]
         /\ QueueOK' /\ TodoOK'
<1>1. DlIdle \in DlState /\ UpIdle \in UpState
  BY DEF DlIdle, UpIdle, DlState, UpState, Data
<1>2. dl' \in [Clients -> DlState] /\ up' \in [Clients -> UpState]
  BY <1>1 DEF TypeInv, TypeOK, RunEnds
<1>3. QueueOK' /\ TodoOK'
  BY DEF TypeInv, TypeOK, QueueOK, TodoOK, RunEnds, DlIdle, UpIdle
<1> QED BY <1>2, <1>3

\* Advance goes on with what is left of the list.
LEMMA AdvanceInv ==
  ASSUME TypeInv, NEW c \in Clients, NEW i, Advance(c, i), journal' = journal
  PROVE  dl' \in [Clients -> DlState] /\ TodoOK'
<1>1. dl' \in [Clients -> DlState]
  BY DEF TypeInv, TypeOK, DlState, Advance, DlIdle
<1>2. TodoOK'
  BY DEF TypeInv, TypeOK, TodoOK, Advance, DlIdle
<1> QED BY <1>1, <1>2

----------------------------------------------------------------------------
(* TypeInv is inductive.                                                   *)

\* Types hold at the start.
LEMMA TypeInit == Init => TypeInv
BY DEF Init, TypeInv, TypeOK, QueueOK, TodoOK, EmptyView, View, Row, NoRow, NoJid,
       DlIdle, UpIdle, DlState, UpState, Files, Data

\* The user, the indexer and the end of a run keep the types.
LEMMA TypeLocal ==
  ASSUME TypeInv, NEW c \in Clients, User(c) \/ Index(c)
  PROVE  TypeInv'
<1>1. ASSUME NEW p \in Paths, Delete(c, p) PROVE TypeInv'
  <2>1. disk' \in [Clients -> Files] /\ edits' \in Nat
    BY <1>1, DiskType DEF Delete, Data, TypeInv, TypeOK
  <2> QED BY <1>1, <2>1 DEF Delete, TypeInv, TypeOK, QueueOK, TodoOK, serverVars
<1>2. ASSUME NEW p \in Paths, NEW data \in Contents, Edit(c, p, data) PROVE TypeInv'
  <2>1. disk' \in [Clients -> Files] /\ edits' \in Nat
    BY <1>2, DiskType DEF Edit, Data, TypeInv, TypeOK
  <2> QED BY <1>2, <2>1 DEF Edit, TypeInv, TypeOK, QueueOK, TodoOK, serverVars
<1>3. ASSUME Index(c) PROVE TypeInv'
  <2> DEFINE S == ToAdd(c) \cup ToRemove(c)
  <2>1. S \in SUBSET Paths
    BY DEF ToAdd, ToRemove, NonDeleted
  <2>2. LocalForms(c) \in [S -> Form]
    <3>1. \A p \in Paths : disk[c][p].stamp \in Nat /\ reg[c].row[p].stamp \in Nat
      BY DEF TypeInv, TypeOK, Files, View, Row
    <3> QED BY <2>1, <3>1 DEF LocalForms, Form, NoJid
  <2>3. NextIds(c) \in [Paths -> Nat]
    BY NextIdIsFree DEF NextIds
  <2>4. InsertLocal(reg[c], LocalForms(c), NextIds(c)) \in View
    BY <2>1, <2>2, <2>3, InsertLocalType DEF TypeInv, TypeOK
  <2>5. reg' \in [Clients -> View]
    BY <1>3, <2>4 DEF Index, TypeInv, TypeOK
  <2> QED BY <1>3, <2>5 DEF Index, TypeInv, TypeOK, QueueOK, TodoOK, serverVars, counters
<1> QED BY <1>1, <1>2, <1>3 DEF User

\* The records on the list of a client, and the one it works on.
LEMMA ListedRecord ==
  ASSUME TypeInv, NEW c \in Clients, NEW i \in dl[c].todo
  PROVE  i \in DOMAIN journal /\ i \in Nat /\ journal[i] \in Entry /\ journal[i].path \in Paths
<1>1. i \in DOMAIN journal
  BY DEF TypeInv, TodoOK
<1>2. i \in Nat /\ journal[i] \in Entry
  BY <1>1 DEF TypeInv, TypeOK
<1> QED BY <1>1, <1>2 DEF Entry

\* A loop's new record is all it takes for the type of the loops.
LEMMA DlChange ==
  ASSUME TypeInv, NEW c \in Clients, NEW r \in DlState, dl' = [dl EXCEPT ![c] = r]
  PROVE  dl' \in [Clients -> DlState]
BY DEF TypeInv, TypeOK

LEMMA UpChange ==
  ASSUME TypeInv, NEW c \in Clients, NEW r \in UpState, up' = [up EXCEPT ![c] = r]
  PROVE  up' \in [Clients -> UpState]
BY DEF TypeInv, TypeOK

\* Every step of the download loop keeps the types.
LEMMA TypeDownload ==
  ASSUME TypeInv, NEW c \in Clients, Download(c)
  PROVE  TypeInv'
<1> USE DEF TypeInv
<1>1. ASSUME DlStart(c) PROVE TypeInv'
  <2>1. LatestJid(reg[c]) \in Nat
    BY DEF LatestJid, TypeOK, View
  <2>2. dl' \in [Clients -> DlState]
    <3> DEFINE r == [dl[c] EXCEPT !.pc = "list", !.since = LatestJid(reg[c])]
    <3>1. dl[c] \in DlState
      BY DEF TypeOK
    <3>2. r \in DlState
      BY <2>1, <3>1 DEF DlState
    <3>3. dl' = [dl EXCEPT ![c] = r]
      BY <1>1 DEF DlStart, TypeOK
    <3> QED BY <3>2, <3>3, DlChange
  <2>3. TodoOK'
    BY <1>1 DEF DlStart, TodoOK, TypeOK, serverVars
  <2> QED BY <1>1, <2>2, <2>3 DEF DlStart, TypeOK, QueueOK, serverVars, counters
<1>2. ASSUME DlList(c) PROVE TypeInv'
  <2>1. ListSince(journal, Account, dl[c].since) \subseteq DOMAIN journal
    BY DEF ListSince, Latest
  <2>2. DOMAIN journal \subseteq Nat
    BY DEF TypeOK
  <2>3. dl' \in [Clients -> DlState]
    BY <1>2, <2>1, <2>2 DEF DlList, DlIdle, TypeOK, DlState
  <2>4. TodoOK'
    BY <1>2, <2>1 DEF DlList, DlIdle, TodoOK, TypeOK, serverVars
  <2> QED BY <1>2, <2>3, <2>4 DEF DlList, TypeOK, QueueOK, serverVars, counters
<1>3. ASSUME DlFetch(c) PROVE TypeInv'
  <2>1. dl' \in [Clients -> DlState]
    BY <1>3 DEF DlFetch, TypeOK, DlState
  <2>2. TodoOK'
    BY <1>3 DEF DlFetch, TodoOK, TypeOK, serverVars
  <2> QED BY <1>3, <2>1, <2>2 DEF DlFetch, TypeOK, QueueOK, serverVars, counters
<1>4. ASSUME DlTombstone(c) PROVE TypeInv'
  <2>1. PICK i \in dl[c].todo :
          /\ reg' = Recorded(c, i, TRUE, 0)
          /\ IF OnDisk(c, journal[i].path)
             THEN dl' = [dl EXCEPT ![c].pc = "remove", ![c].item = i]
             ELSE Advance(c, i)
    BY <1>4 DEF DlTombstone
  <2>0. i \in Nat /\ i \in DOMAIN journal
    BY ListedRecord
  <2>2. reg' \in [Clients -> View]
    BY <2>0, <2>1, RecordedType
  <2>3. dl' \in [Clients -> DlState] /\ TodoOK'
    <3>1. CASE OnDisk(c, journal[i].path)
      <4>1. dl' = [dl EXCEPT ![c].pc = "remove", ![c].item = i]
        BY <2>1, <3>1
      <4>2. dl' \in [Clients -> DlState]
        <5> DEFINE r == [dl[c] EXCEPT !.pc = "remove", !.item = i]
        <5>1. dl[c] \in DlState /\ i \in Nat
          BY <2>0 DEF TypeOK
        <5>2. r \in DlState
          BY <5>1 DEF DlState
        <5>3. dl' = [dl EXCEPT ![c] = r]
          BY <4>1 DEF TypeOK
        <5> QED BY <5>2, <5>3, DlChange
      <4>3. TodoOK'
        BY <1>4, <4>1 DEF DlTombstone, TodoOK, TypeOK, DlState, serverVars
      <4> QED BY <4>2, <4>3
    <3>2. CASE ~ OnDisk(c, journal[i].path)
      BY <1>4, <2>1, <3>2, AdvanceInv DEF DlTombstone, serverVars
    <3> QED BY <3>1, <3>2
  <2> QED BY <1>4, <2>2, <2>3 DEF DlTombstone, TypeOK, QueueOK, serverVars, counters
<1>5. ASSUME DlRemove(c) PROVE TypeInv'
  <2> DEFINE p == journal[dl[c].item].path
  <2>1. dl[c].item \in dl[c].todo
    BY <1>5 DEF DlRemove, TodoOK
  <2>2. CASE OnDisk(c, p)
    <3>1. disk' \in [Clients -> Files]
      BY <1>5, <2>1, <2>2, ListedRecord, DiskType DEF DlRemove
    <3>2. dl' \in [Clients -> DlState] /\ TodoOK'
      BY <1>5, <2>2, AdvanceInv DEF DlRemove, serverVars
    <3> QED BY <1>5, <2>2, <3>1, <3>2 DEF DlRemove, TypeOK, QueueOK, serverVars, counters
  <2>3. CASE ~ OnDisk(c, p)
    <3>1. /\ dl' \in [Clients -> DlState] /\ up' \in [Clients -> UpState]
          /\ QueueOK' /\ TodoOK'
      BY <1>5, <2>3, RunEndsInv DEF DlRemove, serverVars
    <3> QED BY <1>5, <2>3, <3>1 DEF DlRemove, TypeOK, serverVars, counters
  <2> QED BY <2>2, <2>3
<1>6. ASSUME DlTruncate(c) PROVE TypeInv'
  <2>1. PICK i \in dl[c].todo :
          /\ disk' = Written(c, journal[i].path, Torn)
          /\ dl' = [dl EXCEPT ![c].pc = "write", ![c].item = i]
    BY <1>6 DEF DlTruncate
  <2>2. disk' \in [Clients -> Files]
    BY <2>1, ListedRecord, DiskType DEF Data
  <2>3. dl' \in [Clients -> DlState]
    <3>1. dl[c] \in DlState /\ i \in Nat
      BY <2>1, ListedRecord DEF TypeOK
    <3>2. [dl[c] EXCEPT !.pc = "write", !.item = i] \in DlState
      BY <3>1 DEF DlState
    <3>3. dl' = [dl EXCEPT ![c] = [dl[c] EXCEPT !.pc = "write", !.item = i]]
      BY <2>1 DEF TypeOK
    <3> QED BY <3>2, <3>3, DlChange
  <2>4. TodoOK'
    BY <1>6, <2>1 DEF DlTruncate, TodoOK, TypeOK, serverVars
  <2> QED BY <1>6, <2>2, <2>3, <2>4 DEF DlTruncate, TypeOK, QueueOK, serverVars, counters
<1>7. ASSUME DlWrite(c) PROVE TypeInv'
  <2>1. dl[c].item \in dl[c].todo
    BY <1>7 DEF DlWrite, TodoOK
  <2>2. journal[dl[c].item].chunks \in Data
    BY <2>1, ListedRecord DEF Entry
  <2>3. disk' \in [Clients -> Files]
    BY <1>7, <2>1, <2>2, ListedRecord, DiskType DEF DlWrite, TypeOK
  <2>4. dl' \in [Clients -> DlState]
    BY <1>7 DEF DlWrite, TypeOK, DlState
  <2>5. TodoOK'
    BY <1>7 DEF DlWrite, TodoOK, TypeOK, serverVars
  <2> QED BY <1>7, <2>3, <2>4, <2>5 DEF DlWrite, TypeOK, QueueOK, serverVars, counters
<1>8. ASSUME DlRecord(c) PROVE TypeInv'
  <2> DEFINE i == dl[c].item
             p == journal[i].path
  <2>1. i \in dl[c].todo
    BY <1>8 DEF DlRecord, TodoOK
  <2>2. CASE OnDisk(c, p)
    <3>1. disk[c][p].stamp \in Nat
      BY <2>1, ListedRecord DEF TypeOK, Files
    <3>2. i \in DOMAIN journal
      BY <2>1, ListedRecord
    <3>4. reg' = Recorded(c, i, FALSE, disk[c][p].stamp)
      BY <1>8, <2>2 DEF DlRecord
    <3>5. reg' \in [Clients -> View]
      BY <3>1, <3>2, <3>4, RecordedType
    <3>3. dl' \in [Clients -> DlState] /\ TodoOK'
      BY <1>8, <2>2, AdvanceInv DEF DlRecord, serverVars
    <3> QED BY <1>8, <2>2, <3>3, <3>5 DEF DlRecord, TypeOK, QueueOK, serverVars, counters
  <2>3. CASE ~ OnDisk(c, p)
    <3>1. /\ dl' \in [Clients -> DlState] /\ up' \in [Clients -> UpState]
          /\ QueueOK' /\ TodoOK'
      BY <1>8, <2>3, RunEndsInv DEF DlRecord, serverVars
    <3> QED BY <1>8, <2>3, <3>1 DEF DlRecord, TypeOK, serverVars, counters
  <2> QED BY <2>2, <2>3
<1> QED BY <1>1, <1>2, <1>3, <1>4, <1>5, <1>6, <1>7, <1>8 DEF Download

\* The commit the upload loop of a client makes, or has made.
LEMMA CommittedEntry ==
  ASSUME TypeInv, NEW c \in Clients, NEW f \in up[c].row
  PROVE  f \in Pending /\ f.path \in Paths /\ f.deleted \in BOOLEAN /\ f.id \in Nat
         /\ EntryOf(c, f) \in Entry
<1>1. up[c].row \subseteq Pending /\ up[c].data \in Data
  BY DEF TypeInv, TypeOK, UpState
<1>2. f \in Pending /\ f.path \in Paths /\ f.deleted \in BOOLEAN /\ f.id \in Nat
  BY <1>1 DEF Pending
<1> QED BY <1>1, <1>2 DEF EntryOf, Entry

\* NextRow goes on with what is left of the queue.
LEMMA NextRowInv ==
  ASSUME TypeInv, NEW c \in Clients, NEW f \in up[c].row,
         NEW send \in SUBSET Data, NextRow(c, f, send)
  PROVE  up' \in [Clients -> UpState] /\ QueueOK'
<1>1. up' \in [Clients -> UpState]
  <2>1. UpIdle \in UpState
    BY DEF UpIdle, UpState, Data
  <2>2. [UpIdle EXCEPT !.pc = "next", !.queue = up[c].queue \ {f}, !.send = send] \in UpState
    BY <2>1 DEF UpState, TypeInv, TypeOK
  <2> QED BY <2>1, <2>2 DEF NextRow, TypeInv, TypeOK
<1>2. QueueOK'
  BY DEF NextRow, QueueOK, TypeInv, TypeOK, UpIdle
<1> QED BY <1>1, <1>2

\* The server's answers leave the queue alone.
LEMMA WorkingOnRow ==
  ASSUME TypeInv, NEW c \in Clients,
         up' = [up EXCEPT ![c] = up'[c]], up'[c] \in UpState,
         up'[c].row = up[c].row, up'[c].queue = up[c].queue,
         up'[c].pc \notin {"idle", "next"}
  PROVE  up' \in [Clients -> UpState] /\ QueueOK'
<1>1. up \in [Clients -> UpState] /\ QueueOK
  BY DEF TypeInv, TypeOK
<1>2. up' \in [Clients -> UpState]
  BY <1>1
<1>3. \A d \in Clients : d # c => up'[d] = up[d]
  BY <1>1
<1>4. QueueOK'
  <2> SUFFICES ASSUME NEW d \in Clients
               PROVE  /\ up'[d].row \subseteq up'[d].queue
                      /\ \A g, h \in up'[d].row : g = h
                      /\ up'[d].pc \in {"idle", "next"} => up'[d].row = {}
                      /\ \A g, h \in up'[d].queue : g.path = h.path => g = h
    BY DEF QueueOK
  <2>1. CASE d = c
    BY <1>1, <2>1 DEF QueueOK
  <2>2. CASE d # c
    BY <1>1, <1>3, <2>2 DEF QueueOK
  <2> QED BY <2>1, <2>2
<1> QED BY <1>2, <1>4

\* Every step of the upload loop keeps the types.
LEMMA TypeUpload ==
  ASSUME TypeInv, NEW c \in Clients, Upload(c)
  PROVE  TypeInv'
<1> USE DEF TypeInv
<1>1. ASSUME UpStart(c) PROVE TypeInv'
  <2> DEFINE rows == {[path |-> p, id |-> reg[c].row[p].id, deleted |-> reg[c].row[p].deleted] :
                        p \in UpdatedLocally(reg[c])}
  <2>1. up' = [up EXCEPT ![c].pc = "next", ![c].queue = rows]
    BY <1>1 DEF UpStart
  <2>2. rows \in SUBSET Pending
    <3>1. ASSUME NEW p \in UpdatedLocally(reg[c])
          PROVE  [path |-> p, id |-> reg[c].row[p].id, deleted |-> reg[c].row[p].deleted] \in Pending
      <4>1. p \in Paths
        BY DEF UpdatedLocally
      <4>2. reg[c].row[p] \in Row
        BY <4>1 DEF TypeOK, View
      <4> QED BY <4>1, <4>2 DEF Pending, Row
    <3> QED BY <3>1
  <2> HIDE DEF rows
  <2>3. up' \in [Clients -> UpState]
    <3>1. up[c] \in UpState
      BY DEF TypeOK
    <3>2. [up[c] EXCEPT !.pc = "next", !.queue = rows] \in UpState
      BY <2>2, <3>1 DEF UpState
    <3>3. up' = [up EXCEPT ![c] = [up[c] EXCEPT !.pc = "next", !.queue = rows]]
      BY <2>1 DEF TypeOK
    <3> QED BY <3>2, <3>3, UpChange
  <2>4. \A f, h \in rows : f.path = h.path => f = h
    BY DEF rows
  <2>5. QueueOK'
    BY <1>1, <2>1, <2>4 DEF UpStart, TypeOK, QueueOK
  <2> QED BY <1>1, <2>3, <2>5 DEF UpStart, TypeOK, TodoOK, serverVars, counters
<1>2. ASSUME UpHash(c) PROVE TypeInv'
  <2>1. PICK f \in up[c].queue :
          IF f.deleted \/ OnDisk(c, f.path)
          THEN /\ up' = [up EXCEPT ![c].pc = "commit", ![c].row = {f},
                            ![c].data = IF f.deleted THEN Gone ELSE disk[c][f.path].data]
               /\ UNCHANGED dl
          ELSE RunEnds(c)
    BY <1>2 DEF UpHash
  <2>2. CASE f.deleted \/ OnDisk(c, f.path)
    <3> DEFINE data == IF f.deleted THEN Gone ELSE disk[c][f.path].data
    <3>1. f \in Pending /\ f.path \in Paths
      BY DEF TypeOK, UpState, Pending
    <3>2. data \in Data
      BY <3>1 DEF TypeOK, Files, Data
    <3>3. up' = [up EXCEPT ![c].pc = "commit", ![c].row = {f}, ![c].data = data]
      BY <2>1, <2>2
    <3>6. /\ up \in [Clients -> UpState] /\ {f} \in SUBSET Pending
      BY <3>1 DEF TypeOK
    <3> HIDE DEF data
    <3>4. up' \in [Clients -> UpState]
      <4>1. up[c] \in UpState
        BY <3>6
      <4>2. [up[c] EXCEPT !.pc = "commit", !.row = {f}, !.data = data] \in UpState
        BY <3>2, <3>6, <4>1 DEF UpState
      <4>3. up' = [up EXCEPT ![c] = [up[c] EXCEPT !.pc = "commit", !.row = {f}, !.data = data]]
        BY <3>3, <3>6
      <4> QED BY <4>2, <4>3, UpChange
    <3>5. QueueOK'
      <4> SUFFICES ASSUME NEW d \in Clients
                   PROVE  /\ up'[d].row \subseteq up'[d].queue
                          /\ \A g, h \in up'[d].row : g = h
                          /\ up'[d].pc \in {"idle", "next"} => up'[d].row = {}
                          /\ \A g, h \in up'[d].queue : g.path = h.path => g = h
        BY DEF QueueOK
      <4>1. up[c].pc = "next" /\ up[c] \in UpState
        BY <1>2 DEF UpHash, TypeOK
      <4>4. up'[c].row = {f} /\ up'[c].queue = up[c].queue /\ up'[c].pc = "commit"
        BY <3>3, <4>1 DEF TypeOK, UpState
      <4>2. CASE d = c
        BY <4>2, <4>4 DEF QueueOK
      <4>3. CASE d # c
        BY <3>3, <4>3 DEF TypeOK, QueueOK
      <4> QED BY <4>2, <4>3
    <3> QED BY <1>2, <2>1, <2>2, <3>4, <3>5 DEF UpHash, TypeOK, TodoOK, serverVars, counters
  <2>3. CASE ~ (f.deleted \/ OnDisk(c, f.path))
    <3>1. /\ dl' \in [Clients -> DlState] /\ up' \in [Clients -> UpState]
          /\ QueueOK' /\ TodoOK'
      BY <1>2, <2>1, <2>3, RunEndsInv DEF UpHash, serverVars
    <3> QED BY <1>2, <3>1 DEF UpHash, TypeOK, serverVars, counters
  <2> QED BY <2>2, <2>3
<1>3. ASSUME SrvCheck(c) PROVE TypeInv'
  <2>1. PICK f \in up[c].row :
          \/ up' = [up EXCEPT ![c].pc = "need"]
          \/ up' = [up EXCEPT ![c].pc = "insert"]
          \/ \E i \in Known(EntryOf(c, f)) : up' = [up EXCEPT ![c].pc = "reply", ![c].jid = i]
    BY <1>3 DEF SrvCheck
  <2>2. Known(EntryOf(c, f)) \subseteq Nat
    BY DEF Known, LatestForPath, Latest, TypeOK
  <2>3. up[c] \in UpState
    BY DEF TypeOK
  <2> DEFINE Goal == /\ up' = [up EXCEPT ![c] = up'[c]] /\ up'[c] \in UpState
                     /\ up'[c].row = up[c].row /\ up'[c].queue = up[c].queue
                     /\ up'[c].pc \notin {"idle", "next"}
  <2>4. Goal
    <3>1. CASE up' = [up EXCEPT ![c].pc = "need"]
      BY <2>3, <3>1 DEF TypeOK, UpState
    <3>2. CASE up' = [up EXCEPT ![c].pc = "insert"]
      BY <2>3, <3>2 DEF TypeOK, UpState
    <3>3. CASE \E i \in Known(EntryOf(c, f)) : up' = [up EXCEPT ![c].pc = "reply", ![c].jid = i]
      <4>1. PICK i \in Nat : up' = [up EXCEPT ![c].pc = "reply", ![c].jid = i]
        BY <2>2, <3>3
      <4> QED BY <2>3, <4>1 DEF TypeOK, UpState
    <3> QED BY <2>1, <3>1, <3>2, <3>3
  <2>5. up' \in [Clients -> UpState] /\ QueueOK'
    BY <2>4, WorkingOnRow
  <2> QED BY <1>3, <2>5 DEF SrvCheck, TypeOK, TodoOK, serverVars, counters
<1>4. ASSUME SrvInsert(c) PROVE TypeInv'
  <2>1. PICK f \in up[c].row :
          /\ journal' = Append(journal, EntryOf(c, f))
          /\ up' = [up EXCEPT ![c].pc = "reply", ![c].jid = Len(journal) + 1]
    BY <1>4 DEF SrvInsert
  <2>2. journal' \in Seq(Entry) /\ DOMAIN journal \subseteq DOMAIN journal'
    BY <2>1, CommittedEntry DEF TypeOK
  <2>3. Len(journal) + 1 \in Nat
    BY DEF TypeOK
  <2>6. /\ up' = [up EXCEPT ![c] = up'[c]] /\ up'[c] \in UpState
        /\ up'[c].row = up[c].row /\ up'[c].queue = up[c].queue
        /\ up'[c].pc \notin {"idle", "next"}
    BY <2>1, <2>3 DEF TypeOK, UpState
  <2>4. up' \in [Clients -> UpState] /\ QueueOK'
    BY <2>6, WorkingOnRow
  <2>5. TodoOK'
    BY <1>4, <2>2 DEF SrvInsert, TodoOK
  <2> QED BY <1>4, <2>2, <2>4, <2>5 DEF SrvInsert, TypeOK, counters
<1>5. ASSUME UpCommitted(c) PROVE TypeInv'
  <2>1. PICK f \in up[c].row :
          /\ reg' = [reg EXCEPT ![c] = UpdateJid(@, f.path, f.id, up[c].jid)]
          /\ answered' = [answered EXCEPT ![c] = Later(@, up[c].jid)]
          /\ NextRow(c, f, up[c].send)
    BY <1>5 DEF UpCommitted
  <2>2. up[c].jid \in Nat /\ up[c].send \in SUBSET Data
    BY DEF TypeOK, UpState
  <2>3. up' \in [Clients -> UpState] /\ QueueOK'
    BY <2>1, <2>2, NextRowInv
  <2>4. UpdateJid(reg[c], f.path, f.id, up[c].jid) \in View
    BY <2>2, CommittedEntry, UpdateJidType DEF TypeOK
  <2>5. reg' \in [Clients -> View] /\ answered' \in [Clients -> Nat]
    BY <2>1, <2>2, <2>4 DEF TypeOK, Later
  <2> QED BY <1>5, <2>3, <2>5 DEF UpCommitted, TypeOK, TodoOK, serverVars
<1>6. ASSUME UpNeeds(c) PROVE TypeInv'
  <2>1. PICK f \in up[c].row : NextRow(c, f, up[c].send \cup {up[c].data})
    BY <1>6 DEF UpNeeds
  <2>2. up[c].send \cup {up[c].data} \in SUBSET Data
    BY DEF TypeOK, UpState
  <2>3. up' \in [Clients -> UpState] /\ QueueOK'
    BY <2>1, <2>2, NextRowInv
  <2> QED BY <1>6, <2>3 DEF UpNeeds, TypeOK, TodoOK, serverVars, counters
<1>7. ASSUME UpSend(c) PROVE TypeInv'
  <2>1. PICK batch \in SUBSET up[c].send :
          /\ stored' = stored \cup batch
          /\ up' = [up EXCEPT ![c] = IF batch = up[c].send THEN UpIdle
                                     ELSE [up[c] EXCEPT !.send = @ \ batch]]
    BY <1>7 DEF UpSend
  <2>2. UpIdle \in UpState
    BY DEF UpIdle, UpState, Data
  <2>3. up[c] \in UpState /\ stored' \subseteq Data
    BY <2>1 DEF TypeOK, UpState
  <2>5. [up[c] EXCEPT !.send = up[c].send \ batch] \in UpState
    BY <2>3 DEF UpState
  <2>4. up' \in [Clients -> UpState] /\ QueueOK'
    <3>1. CASE batch = up[c].send
      <4>1. up' = [up EXCEPT ![c] = UpIdle]
        BY <2>1, <3>1
      <4> QED BY <2>2, <4>1 DEF TypeOK, QueueOK, UpIdle
    <3>2. CASE batch # up[c].send
      <4>1. up' = [up EXCEPT ![c] = [up[c] EXCEPT !.send = up[c].send \ batch]]
        BY <2>1, <3>2
      <4>2. up' \in [Clients -> UpState]
        BY <2>5, <4>1 DEF TypeOK
      <4>3. \A d \in Clients : /\ up'[d].row = up[d].row /\ up'[d].queue = up[d].queue
                               /\ up'[d].pc = up[d].pc
        BY <2>3, <4>1 DEF TypeOK, UpState
      <4>4. QueueOK'
        BY <4>3 DEF QueueOK
      <4> QED BY <4>2, <4>4
    <3> QED BY <3>1, <3>2
  <2> QED BY <1>7, <2>3, <2>4 DEF UpSend, TypeOK, TodoOK, counters
<1> QED BY <1>1, <1>2, <1>3, <1>4, <1>5, <1>6, <1>7 DEF Upload

\* What the server does for clients that are gone keeps the types.
LEMMA TypeServer ==
  ASSUME TypeInv, (\E c \in Clients : Restart(c))
                  \/ (\E o \in orphan : OrphanCheck(o) \/ OrphanInsert(o))
  PROVE  TypeInv'
<1> USE DEF TypeInv
<1>1. ASSUME NEW c \in Clients, Restart(c) PROVE TypeInv'
  <2>1. /\ dl' \in [Clients -> DlState] /\ up' \in [Clients -> UpState]
        /\ QueueOK' /\ TodoOK'
    BY <1>1, RunEndsInv DEF Restart
  <2>2. orphan' \subseteq [stage : {"commit", "insert"}, entry : Entry]
    BY <1>1, CommittedEntry DEF Restart, TypeOK
  <2>3. restarts' \in Nat
    BY <1>1 DEF Restart, TypeOK
  <2> QED BY <1>1, <2>1, <2>2, <2>3 DEF Restart, TypeOK
<1>2. ASSUME NEW o \in orphan, OrphanCheck(o) PROVE TypeInv'
  <2>1. o.entry \in Entry /\ o.stage \in {"commit", "insert"}
        /\ o \in [stage : {"commit", "insert"}, entry : Entry]
    BY DEF TypeOK
  <2>2. orphan' \subseteq [stage : {"commit", "insert"}, entry : Entry]
    BY <1>2, <2>1 DEF OrphanCheck, TypeOK
  <2> QED BY <1>2, <2>2 DEF OrphanCheck, TypeOK, QueueOK, TodoOK, counters
<1>3. ASSUME NEW o \in orphan, OrphanInsert(o) PROVE TypeInv'
  <2>1. o.entry \in Entry
    BY DEF TypeOK
  <2>2. journal' \in Seq(Entry) /\ DOMAIN journal \subseteq DOMAIN journal'
    BY <1>3, <2>1 DEF OrphanInsert, TypeOK
  <2>3. orphan' \subseteq [stage : {"commit", "insert"}, entry : Entry]
    BY <1>3 DEF OrphanInsert, TypeOK
  <2> QED BY <1>3, <2>2, <2>3 DEF OrphanInsert, TypeOK, QueueOK, TodoOK, counters
<1> QED BY <1>1, <1>2, <1>3

\* The types do not depend on anything outside vars.
LEMMA TypeStutter ==
  ASSUME TypeInv, UNCHANGED vars
  PROVE  TypeInv'
BY DEF TypeInv, TypeOK, QueueOK, TodoOK, vars, serverVars, counters

\* Types are kept in every run, with any clients, paths and contents.
THEOREM TypeCorrect == Spec => []TypeInv
<1>1. TypeInv /\ [Next]_vars => TypeInv'
  <2> SUFFICES ASSUME TypeInv, [Next]_vars PROVE TypeInv'
    OBVIOUS
  <2>1. Editors \subseteq Clients /\ Unreliable \subseteq Clients /\ Writers \subseteq Clients
    BY SyncAssumption
  <2>2. CASE Next
    BY <2>1, <2>2, TypeLocal, TypeDownload, TypeUpload, TypeServer DEF Next
  <2> QED BY <2>2, TypeStutter
<1> QED BY <1>1, TypeInit, PTL DEF Spec

\* The type invariant the runs check.
THEOREM TypesOK == Spec => []TypeOK
<1>1. TypeInv => TypeOK
  BY DEF TypeInv
<1> QED BY <1>1, TypeCorrect, PTL

----------------------------------------------------------------------------
(* Rows that carry a jid name the record of that jid.                      *)

\* The queue's rows are the registry's, unless they were superseded; the jid
\* of an answer names the record of the row it answers; and the loop that
\* applies a record knows whether it is a deletion.
RowsInv ==
  /\ RowsNameRecords
  /\ \A c \in Clients :
       /\ \A f \in up[c].queue :
            reg[c].row[f.path].id = f.id => reg[c].row[f.path].deleted = f.deleted
       /\ up[c].pc = "reply" =>
            \A f \in up[c].row : /\ up[c].jid \in DOMAIN journal
                                 /\ journal[up[c].jid].path = f.path
                                 /\ journal[up[c].jid].deleted = f.deleted
       /\ dl[c].pc \in {"write", "record"} => ~ journal[dl[c].item].deleted

\* No row carries a jid at the start.
LEMMA RowsInit == Init => RowsInv
BY DEF Init, RowsInv, RowsNameRecords, EmptyView, NoRow, NoJid, DlIdle, UpIdle

\* The journal grows at its end.
LEMMA Grows ==
  ASSUME TypeInv, NEW e \in Entry, journal' = Append(journal, e)
  PROVE  /\ \A i \in DOMAIN journal : i \in DOMAIN journal' /\ journal'[i] = journal[i]
         /\ Len(journal) + 1 \in DOMAIN journal' /\ journal'[Len(journal) + 1] = e
         /\ DOMAIN journal' = DOMAIN journal \cup {Len(journal) + 1}
         /\ Len(journal) + 1 \notin DOMAIN journal
         /\ \A i \in DOMAIN journal : i \in Nat /\ i <= Len(journal)
         /\ Len(journal) \in Nat
BY DEF TypeInv, TypeOK

\* Nothing RowsInv says of an older record changes.
LEMMA RowsGrow ==
  ASSUME TypeInv, RowsInv, NEW e \in Entry, journal' = Append(journal, e), UNCHANGED <<reg, dl>>
  PROVE  /\ RowsNameRecords'
         /\ \A c \in Clients : dl'[c].pc \in {"write", "record"} => ~ journal'[dl'[c].item].deleted
<1>1. RowsNameRecords'
  <2>1. \A i \in DOMAIN journal : i \in DOMAIN journal' /\ journal'[i] = journal[i]
    BY Grows
  <2> QED BY <2>1 DEF RowsInv, RowsNameRecords
<1>2. \A c \in Clients : dl[c].pc \in {"write", "record"} => dl[c].item \in DOMAIN journal
  BY DEF TypeInv, TodoOK
<1>3. \A c \in Clients : dl'[c].pc \in {"write", "record"} => ~ journal'[dl'[c].item].deleted
  BY <1>2, Grows DEF RowsInv
<1> QED BY <1>1, <1>3

\* What recording a record does to the rows of the client.
LEMMA RecordedRow ==
  ASSUME TypeInv, NEW c \in Clients, NEW i \in DOMAIN journal, NEW deleted, NEW stamp,
         reg' = Recorded(c, i, deleted, stamp), NEW d \in Clients, NEW q \in Paths
  PROVE  /\ d # c \/ q # journal[i].path => reg'[d].row[q] = reg[d].row[q]
         /\ reg'[c].row[journal[i].path].jid = i
         /\ reg'[c].row[journal[i].path].deleted = deleted
         /\ \A f \in up[c].queue :
              f.path = journal[i].path => reg'[c].row[f.path].id # f.id
<1> DEFINE p == journal[i].path
<1>1. p \in Paths
  <2>1. journal[i] \in Entry
    BY DEF TypeInv, TypeOK
  <2> QED BY <2>1 DEF Entry
<1>2. reg'[c] = InsertRemote(reg[c], p, RemoteForm(i, deleted, stamp), NextIds(c)[p])
      /\ (d # c => reg'[d] = reg[d])
  BY DEF Recorded, TypeInv, TypeOK
<1>3. reg'[c].row = [reg[c].row EXCEPT ![p] = RowOf(NextIds(c)[p], RemoteForm(i, deleted, stamp))]
  BY <1>2 DEF InsertRemote
<1>4. reg[c].row \in [Paths -> Row]
  BY DEF TypeInv, TypeOK, View
<1>5. /\ q # p => reg'[c].row[q] = reg[c].row[q]
      /\ reg'[c].row[p] = RowOf(NextIds(c)[p], RemoteForm(i, deleted, stamp))
  BY <1>1, <1>3, <1>4
<1>6. reg'[c].row[p].jid = i /\ reg'[c].row[p].deleted = deleted
      /\ reg'[c].row[p].id = NextIds(c)[p]
  BY <1>5 DEF RowOf, RemoteForm
<1>7. ASSUME NEW f \in up[c].queue, f.path = p
      PROVE  f.id # NextIds(c)[p]
  BY <1>1, <1>7, NextIdIsFree DEF HeldIds
<1> QED BY <1>2, <1>5, <1>6, <1>7

\* The indexer's rows carry no jid, and get ids no commit waits for.
LEMMA RowsIndex ==
  ASSUME TypeInv, RowsInv, NEW c \in Clients, Index(c)
  PROVE  RowsInv'
<1> DEFINE S == ToAdd(c) \cup ToRemove(c)
<1>1. journal' = journal /\ up' = up /\ dl' = dl
  BY DEF Index, serverVars
<1>2. /\ \A d \in Clients \ {c} : reg'[d] = reg[d]
      /\ reg'[c] = InsertLocal(reg[c], LocalForms(c), NextIds(c))
  BY DEF Index, TypeInv, TypeOK
<1>3. ASSUME NEW p \in Paths
      PROVE  \/ reg'[c].row[p] = reg[c].row[p]
             \/ reg'[c].row[p].jid = NoJid /\ reg'[c].row[p].id = NextIds(c)[p]
  <2>1. DOMAIN LocalForms(c) = S
    BY DEF LocalForms
  <2>2. reg'[c].row[p] = IF p \in S THEN RowOf(NextIds(c)[p], LocalForms(c)[p]) ELSE reg[c].row[p]
    BY <1>2, <2>1 DEF InsertLocal, TypeInv, TypeOK, View
  <2>3. p \in S => LocalForms(c)[p].jid = NoJid
    BY DEF LocalForms
  <2> QED BY <2>2, <2>3 DEF RowOf
<1>4. RowsNameRecords'
  BY <1>1, <1>2, <1>3 DEF RowsInv, RowsNameRecords
<1>5. ASSUME NEW d \in Clients, NEW f \in up[d].queue
      PROVE  reg'[d].row[f.path].id = f.id => reg'[d].row[f.path].deleted = f.deleted
  <2>1. f.path \in Paths
    BY DEF TypeInv, TypeOK, UpState, Pending
  <2>2. CASE d = c
    <3>1. NextIds(c)[f.path] # f.id
      BY <2>1, <2>2, NextIdIsFree DEF HeldIds
    <3> QED BY <1>3, <2>1, <2>2, <3>1 DEF RowsInv
  <2>3. CASE d # c
    BY <1>2, <2>3 DEF RowsInv
  <2> QED BY <2>2, <2>3
<1> QED BY <1>1, <1>4, <1>5 DEF RowsInv

\* The syncer notes record i, and is done with it or removes its file next.
LEMMA RowsRecorded ==
  ASSUME TypeInv, RowsInv, NEW c \in Clients, NEW i \in DOMAIN journal, NEW stamp,
         reg' = Recorded(c, i, journal[i].deleted, stamp), UNCHANGED <<journal, up>>,
         \A d \in Clients : dl'[d].pc \in {"write", "record"} => dl'[d] = dl[d]
  PROVE  RowsInv'
<1>1. RowsNameRecords'
  <2> SUFFICES ASSUME NEW d \in Clients, NEW q \in Paths, reg'[d].row[q].jid # NoJid
               PROVE  /\ reg'[d].row[q].jid \in DOMAIN journal
                      /\ journal[reg'[d].row[q].jid].path = q
                      /\ journal[reg'[d].row[q].jid].deleted = reg'[d].row[q].deleted
    BY DEF RowsNameRecords
  <2>1. /\ d # c \/ q # journal[i].path => reg'[d].row[q] = reg[d].row[q]
        /\ reg'[c].row[journal[i].path].jid = i
        /\ reg'[c].row[journal[i].path].deleted = journal[i].deleted
    <3>1. PICK deleted : deleted = journal[i].deleted
      OBVIOUS
    <3>2. reg' = Recorded(c, i, deleted, stamp)
      BY <3>1
    <3> QED BY <3>1, <3>2, RecordedRow
  <2>2. CASE d = c /\ q = journal[i].path
    <3>1. reg'[d].row[q].jid = i /\ reg'[d].row[q].deleted = journal[i].deleted
      BY <2>1, <2>2
    <3> QED BY <2>2, <3>1
  <2>3. CASE d # c \/ q # journal[i].path
    <3>1. reg'[d].row[q] = reg[d].row[q]
      BY <2>1, <2>3
    <3> QED BY <3>1 DEF RowsInv, RowsNameRecords
  <2> QED BY <2>2, <2>3
<1>2. ASSUME NEW d \in Clients, NEW f \in up[d].queue, reg'[d].row[f.path].id = f.id
      PROVE  reg'[d].row[f.path].deleted = f.deleted
  <2>1. f.path \in Paths
    BY DEF TypeInv, TypeOK, UpState, Pending
  <2>2. CASE d = c /\ f.path = journal[i].path
    <3>1. PICK deleted : deleted = journal[i].deleted
      OBVIOUS
    <3>2. reg' = Recorded(c, i, deleted, stamp)
      BY <3>1
    <3>3. reg'[c].row[f.path].id # f.id
      BY <2>1, <2>2, <3>2, RecordedRow
    <3> QED BY <1>2, <2>2, <3>3
  <2>3. CASE d # c \/ f.path # journal[i].path
    <3>1. reg'[d].row[f.path] = reg[d].row[f.path]
      BY <2>1, <2>3, RecordedRow
    <3> QED BY <1>2, <3>1 DEF RowsInv
  <2> QED BY <2>2, <2>3
<1> QED BY <1>1, <1>2 DEF RowsInv

\* Where the download loop is after a record, or at the end of a run.
LEMMA AdvancePc ==
  ASSUME TypeInv, NEW c \in Clients, NEW i, Advance(c, i)
  PROVE  dl'[c].pc \in {"idle", "apply"} /\ \A d \in Clients \ {c} : dl'[d] = dl[d]
BY DEF TypeInv, TypeOK, Advance, DlIdle

\* A run that ends stops both loops of one client.
LEMMA RunEndsPc ==
  ASSUME TypeInv, NEW c \in Clients, RunEnds(c)
  PROVE  /\ dl'[c] = DlIdle /\ up'[c] = UpIdle
         /\ \A d \in Clients \ {c} : dl'[d] = dl[d] /\ up'[d] = up[d]
BY DEF TypeInv, TypeOK, RunEnds

\* The upload loop works on one row at a time.
LEMMA OneRow ==
  ASSUME TypeInv, NEW c \in Clients, NEW f \in up[c].row
  PROVE  up[c].row = {f}
BY DEF TypeInv, QueueOK

\* The download loop makes rows of the records it applies.
LEMMA RowsDownload ==
  ASSUME TypeInv, RowsInv, NEW c \in Clients, Download(c)
  PROVE  RowsInv'
<1>1. journal' = journal
  BY DEF Download, DlStart, DlList, DlFetch, DlTombstone, DlRemove, DlTruncate, DlWrite,
         DlRecord, serverVars
<1>2. dl \in [Clients -> DlState] /\ up \in [Clients -> UpState]
  BY DEF TypeInv, TypeOK
<1>3. CASE DlStart(c) \/ DlList(c) \/ DlFetch(c)
  <2>1. reg' = reg /\ up' = up
    BY <1>3 DEF DlStart, DlList, DlFetch
  <2>2. \A d \in Clients : dl'[d].pc \in {"write", "record"} => dl'[d] = dl[d]
    <3>1. CASE DlStart(c)
      BY <1>2, <3>1 DEF DlStart, DlState
    <3>2. CASE DlList(c)
      BY <1>2, <3>2 DEF DlList, DlIdle, DlState
    <3>3. CASE DlFetch(c)
      BY <1>2, <3>3 DEF DlFetch, DlState
    <3> QED BY <1>3, <3>1, <3>2, <3>3
  <2> QED BY <1>1, <2>1, <2>2 DEF RowsInv, RowsNameRecords
<1>4. CASE DlTombstone(c)
  <2>1. PICK i \in dl[c].todo :
          /\ journal[i].deleted /\ reg' = Recorded(c, i, TRUE, 0) /\ up' = up
          /\ IF OnDisk(c, journal[i].path)
             THEN dl' = [dl EXCEPT ![c].pc = "remove", ![c].item = i]
             ELSE Advance(c, i)
    BY <1>4 DEF DlTombstone
  <2>2. i \in DOMAIN journal /\ journal[i].deleted = TRUE
    <3>1. journal[i] \in Entry /\ i \in DOMAIN journal
      BY ListedRecord
    <3> QED BY <2>1, <3>1 DEF Entry
  <2>3. \A d \in Clients : dl'[d].pc \in {"write", "record"} => dl'[d] = dl[d]
    <3>1. CASE dl' = [dl EXCEPT ![c].pc = "remove", ![c].item = i]
      BY <1>2, <3>1 DEF DlState
    <3>2. CASE Advance(c, i)
      BY <3>2, AdvancePc
    <3> QED BY <2>1, <3>1, <3>2
  <2>4. reg' = Recorded(c, i, journal[i].deleted, 0)
    BY <2>1, <2>2
  <2> QED BY <1>1, <2>1, <2>2, <2>3, <2>4, RowsRecorded
<1>5. CASE DlRemove(c) \/ DlTruncate(c) \/ DlWrite(c)
  <2>1. reg' = reg
    BY <1>5 DEF DlRemove, DlTruncate, DlWrite
  <2>2. \A d \in Clients : up'[d] = up[d] \/ up'[d] = UpIdle
    BY <1>2, <1>5 DEF DlRemove, DlTruncate, DlWrite, RunEnds
  <2>3. \A d \in Clients : dl'[d].pc \in {"write", "record"} => ~ journal[dl'[d].item].deleted
    <3>1. CASE DlRemove(c)
      <4>1. dl'[c].pc \in {"idle", "apply"} /\ \A d \in Clients \ {c} : dl'[d] = dl[d]
        BY <3>1, AdvancePc, RunEndsPc DEF DlRemove, DlIdle
      <4> QED BY <4>1 DEF RowsInv
    <3>2. CASE DlTruncate(c)
      <4>1. PICK i \in dl[c].todo : ~ journal[i].deleted
                                   /\ dl' = [dl EXCEPT ![c].pc = "write", ![c].item = i]
        BY <3>2 DEF DlTruncate
      <4>2. dl'[c].item = i /\ \A d \in Clients \ {c} : dl'[d] = dl[d]
        BY <1>2, <4>1 DEF DlState
      <4> QED BY <4>1, <4>2 DEF RowsInv
    <3>3. CASE DlWrite(c)
      <4>1. dl[c].pc = "write" /\ dl'[c].item = dl[c].item /\ \A d \in Clients \ {c} : dl'[d] = dl[d]
        BY <1>2, <3>3 DEF DlWrite, DlState
      <4> QED BY <4>1 DEF RowsInv
    <3> QED BY <1>5, <3>1, <3>2, <3>3
  <2> QED BY <1>1, <2>1, <2>2, <2>3 DEF RowsInv, RowsNameRecords, UpIdle
<1>6. CASE DlRecord(c)
  <2> DEFINE i == dl[c].item
             p == journal[i].path
  <2>1. dl[c].pc = "record" /\ i \in dl[c].todo
    BY <1>6 DEF DlRecord, TypeInv, TodoOK
  <2>2. i \in DOMAIN journal /\ journal[i].deleted = FALSE
    <3>1. journal[i] \in Entry /\ i \in DOMAIN journal
      BY <2>1, ListedRecord
    <3> QED BY <2>1, <3>1 DEF Entry, RowsInv
  <2>3. CASE OnDisk(c, p)
    <3>1. reg' = Recorded(c, i, journal[i].deleted, disk[c][p].stamp) /\ up' = up /\ Advance(c, i)
      BY <1>6, <2>2, <2>3 DEF DlRecord
    <3>2. \A d \in Clients : dl'[d].pc \in {"write", "record"} => dl'[d] = dl[d]
      BY <1>2, <3>1 DEF Advance, DlIdle, DlState
    <3> QED BY <1>1, <2>2, <3>1, <3>2, RowsRecorded
  <2>4. CASE ~ OnDisk(c, p)
    <3>1. reg' = reg /\ RunEnds(c)
      BY <1>6, <2>4 DEF DlRecord
    <3>2. /\ dl'[c] = DlIdle /\ up'[c] = UpIdle
          /\ \A d \in Clients \ {c} : dl'[d] = dl[d] /\ up'[d] = up[d]
      BY <3>1, RunEndsPc
    <3> QED BY <1>1, <3>1, <3>2 DEF RowsInv, RowsNameRecords, DlIdle, UpIdle
  <2> QED BY <2>3, <2>4
<1> QED BY <1>3, <1>4, <1>5, <1>6 DEF Download

\* What loops forget, and where else they go, is nothing to RowsInv.
LEMMA RowsKept ==
  ASSUME RowsInv, UNCHANGED <<journal, reg>>,
         \A d \in Clients : up'[d].queue \subseteq up[d].queue,
         \A d \in Clients : up'[d].pc = "reply" => up'[d] = up[d],
         \A d \in Clients : dl'[d].pc \in {"write", "record"} => dl'[d] = dl[d]
  PROVE  RowsInv'
BY DEF RowsInv, RowsNameRecords

\* The upload loop puts a jid on the row it was given for, or on none.
LEMMA RowsUpload ==
  ASSUME TypeInv, RowsInv, NEW c \in Clients, Upload(c)
  PROVE  RowsInv'
<1>2. up \in [Clients -> UpState]
  BY DEF TypeInv, TypeOK
<1>1. CASE UpStart(c)
  <2>1. UNCHANGED <<journal, reg, dl>>
    BY <1>1 DEF UpStart, serverVars
  <2>2. /\ up'[c].pc = "next"
        /\ up'[c].queue = {[path |-> p, id |-> reg[c].row[p].id, deleted |-> reg[c].row[p].deleted] :
                             p \in UpdatedLocally(reg[c])}
        /\ \A d \in Clients \ {c} : up'[d] = up[d]
    BY <1>1, <1>2 DEF UpStart, UpState
  <2>3. \A f \in up'[c].queue : f.deleted = reg[c].row[f.path].deleted
    BY <2>2
  <2> QED BY <2>1, <2>2, <2>3 DEF RowsInv, RowsNameRecords
<1>3. CASE UpHash(c)
  <2>1. UNCHANGED <<journal, reg>>
    BY <1>3 DEF UpHash, serverVars
  <2>2. PICK f \in up[c].queue :
          \/ /\ dl' = dl
             /\ \E data : up' = [up EXCEPT ![c].pc = "commit", ![c].row = {f}, ![c].data = data]
          \/ RunEnds(c)
    BY <1>3 DEF UpHash
  <2>3. CASE RunEnds(c)
    BY <2>1, <2>3, RunEndsPc DEF RowsInv, RowsNameRecords, DlIdle, UpIdle
  <2>4. CASE /\ dl' = dl
             /\ \E data : up' = [up EXCEPT ![c].pc = "commit", ![c].row = {f}, ![c].data = data]
    <3>1. /\ up'[c].queue = up[c].queue /\ up'[c].pc = "commit"
          /\ \A d \in Clients \ {c} : up'[d] = up[d]
      BY <1>2, <2>4 DEF UpState
    <3> QED BY <2>1, <2>4, <3>1, RowsKept
  <2> QED BY <2>2, <2>3, <2>4
<1>4. CASE SrvCheck(c)
  <2>1. UNCHANGED <<journal, reg, dl>>
    BY <1>4 DEF SrvCheck, serverVars
  <2>2. PICK f \in up[c].row :
          \/ up' = [up EXCEPT ![c].pc = "need"]
          \/ up' = [up EXCEPT ![c].pc = "insert"]
          \/ \E i \in Known(EntryOf(c, f)) : up' = [up EXCEPT ![c].pc = "reply", ![c].jid = i]
    BY <1>4 DEF SrvCheck
  <2>3. up'[c].queue = up[c].queue /\ up'[c].row = up[c].row
        /\ \A d \in Clients \ {c} : up'[d] = up[d]
    BY <1>2, <2>2 DEF UpState
  <2>4. up'[c].pc = "reply" => up'[c].jid \in Known(EntryOf(c, f))
    BY <1>2, <2>2 DEF UpState
  <2>5. \A i \in Known(EntryOf(c, f)) :
          i \in DOMAIN journal /\ journal[i].path = f.path /\ journal[i].deleted = f.deleted
    BY DEF Known, LatestForPath, Latest, SameContent, EntryOf
  <2>6. up[c].row = {f}
    BY OneRow
  <2> QED BY <2>1, <2>3, <2>4, <2>5, <2>6 DEF RowsInv, RowsNameRecords
<1>5. CASE SrvInsert(c)
  <2>1. PICK f \in up[c].row :
          /\ journal' = Append(journal, EntryOf(c, f))
          /\ up' = [up EXCEPT ![c].pc = "reply", ![c].jid = Len(journal) + 1]
    BY <1>5 DEF SrvInsert
  <2>2. EntryOf(c, f) \in Entry /\ up[c].row = {f} /\ UNCHANGED <<reg, dl>>
    BY <1>5, CommittedEntry, OneRow DEF SrvInsert
  <2>3. /\ up'[c].queue = up[c].queue /\ up'[c].row = {f} /\ up'[c].jid = Len(journal) + 1
        /\ \A d \in Clients \ {c} : up'[d] = up[d]
    BY <1>2, <2>1, <2>2 DEF UpState
  <2>4. EntryOf(c, f).path = f.path /\ EntryOf(c, f).deleted = f.deleted
    BY DEF EntryOf
  <2>5. RowsNameRecords' /\ \A d \in Clients : dl'[d].pc \in {"write", "record"}
                                                => ~ journal'[dl'[d].item].deleted
    BY <2>1, <2>2, RowsGrow
  <2>6. \A d \in Clients : \A h \in up'[d].queue :
          reg'[d].row[h.path].id = h.id => reg'[d].row[h.path].deleted = h.deleted
    BY <2>2, <2>3 DEF RowsInv
  <2>7. ASSUME NEW d \in Clients, up'[d].pc = "reply", NEW h \in up'[d].row
        PROVE  /\ up'[d].jid \in DOMAIN journal' /\ journal'[up'[d].jid].path = h.path
               /\ journal'[up'[d].jid].deleted = h.deleted
    <3>3. /\ \A i \in DOMAIN journal : i \in DOMAIN journal' /\ journal'[i] = journal[i]
          /\ Len(journal) + 1 \in DOMAIN journal'
          /\ journal'[Len(journal) + 1] = EntryOf(c, f)
      BY <2>1, <2>2, Grows
    <3>1. CASE d = c
      <4>1. h = f /\ up'[d].jid = Len(journal) + 1
        BY <2>3, <2>7, <3>1
      <4> QED BY <2>4, <3>3, <4>1
    <3>2. CASE d # c
      <4>1. up'[d] = up[d]
        BY <2>3, <3>2
      <4> QED BY <2>7, <3>3, <4>1 DEF RowsInv
    <3> QED BY <3>1, <3>2
  <2> QED BY <2>5, <2>6, <2>7 DEF RowsInv
<1>6. CASE UpCommitted(c)
  <2>1. PICK f \in up[c].row :
          /\ up[c].pc = "reply"
          /\ reg' = [reg EXCEPT ![c] = UpdateJid(@, f.path, f.id, up[c].jid)]
          /\ NextRow(c, f, up[c].send)
    BY <1>6 DEF UpCommitted
  <2>2. UNCHANGED <<journal, dl>>
    BY <1>6 DEF UpCommitted, serverVars
  <2>3. ASSUME NEW d \in Clients, NEW p \in Paths
        PROVE  /\ reg'[d].row[p].id = reg[d].row[p].id
               /\ reg'[d].row[p].deleted = reg[d].row[p].deleted
               /\ \/ reg'[d].row[p].jid = reg[d].row[p].jid
                  \/ /\ d = c /\ p = f.path /\ reg[d].row[p].id = f.id
                     /\ reg'[d].row[p].jid = up[c].jid
    <3>1. reg[d].row \in [Paths -> Row] /\ reg[c].row \in [Paths -> Row]
      BY DEF TypeInv, TypeOK, View
    <3>2. /\ d # c => reg'[d] = reg[d]
          /\ reg'[c].row = IF reg[c].row[f.path].id = f.id
                           THEN [reg[c].row EXCEPT ![f.path].jid = up[c].jid] ELSE reg[c].row
      BY <2>1 DEF UpdateJid, TypeInv, TypeOK
    <3> QED BY <3>1, <3>2 DEF Row
  <2>4. /\ up'[c].queue \subseteq up[c].queue /\ up'[c].pc # "reply"
        /\ \A d \in Clients \ {c} : up'[d] = up[d]
    <3>1. NextRow(c, f, up[c].send)
      BY <2>1
    <3>2. \A d \in Clients \ {c} : up'[d] = up[d]
      BY <1>2, <3>1 DEF NextRow
    <3>3. up'[c].queue \subseteq up[c].queue /\ up'[c].pc # "reply"
      <4>1. CASE up[c].queue \ {f} = {} /\ up[c].send = {}
        <5>1. up'[c] = UpIdle
          BY <1>2, <3>1, <4>1 DEF NextRow
        <5> QED BY <5>1 DEF UpIdle
      <4>2. CASE ~ (up[c].queue \ {f} = {} /\ up[c].send = {})
        <5>1. up'[c] = [UpIdle EXCEPT !.pc = "next", !.queue = up[c].queue \ {f},
                                      !.send = up[c].send]
          BY <1>2, <3>1, <4>2 DEF NextRow
        <5>2. up'[c].queue = up[c].queue \ {f} /\ up'[c].pc = "next"
          BY <5>1 DEF UpIdle
        <5> QED BY <5>2
      <4> QED BY <4>1, <4>2
    <3> QED BY <3>2, <3>3
  <2>5. f \in up[c].queue /\ f.path \in Paths
    BY CommittedEntry DEF TypeInv, QueueOK
  <2>6. RowsNameRecords'
    <3> SUFFICES ASSUME NEW d \in Clients, NEW p \in Paths, reg'[d].row[p].jid # NoJid
                 PROVE  /\ reg'[d].row[p].jid \in DOMAIN journal
                        /\ journal[reg'[d].row[p].jid].path = p
                        /\ journal[reg'[d].row[p].jid].deleted = reg'[d].row[p].deleted
      BY <2>2 DEF RowsNameRecords
    <3>1. CASE reg'[d].row[p].jid = reg[d].row[p].jid
      BY <2>3, <3>1 DEF RowsInv, RowsNameRecords
    <3>2. CASE reg'[d].row[p].jid # reg[d].row[p].jid
      <4>1. d = c /\ p = f.path /\ reg[d].row[p].id = f.id /\ reg'[d].row[p].jid = up[c].jid
        BY <2>3, <3>2
      <4>2. /\ up[c].jid \in DOMAIN journal /\ journal[up[c].jid].path = f.path
            /\ journal[up[c].jid].deleted = f.deleted
        BY <2>1 DEF RowsInv
      <4>3. reg[d].row[p].deleted = f.deleted
        BY <2>5, <4>1 DEF RowsInv
      <4> QED BY <2>3, <4>1, <4>2, <4>3
    <3> QED BY <3>1, <3>2
  <2>7. \A d \in Clients : \A h \in up'[d].queue : h \in up[d].queue /\ h.path \in Paths
    <3>1. \A d \in Clients : \A h \in up[d].queue : h.path \in Paths
      BY <1>2 DEF UpState, Pending
    <3> QED BY <2>4, <3>1
  <2> QED BY <2>2, <2>3, <2>4, <2>6, <2>7 DEF RowsInv
<1>7. CASE UpNeeds(c) \/ UpSend(c)
  <2>1. UNCHANGED <<journal, reg, dl>>
    BY <1>7 DEF UpNeeds, UpSend, serverVars
  <2>2. /\ up'[c].queue \subseteq up[c].queue /\ up'[c].pc # "reply"
        /\ \A d \in Clients \ {c} : up'[d] = up[d]
    <3>1. CASE UpNeeds(c)
      BY <1>2, <3>1 DEF UpNeeds, NextRow, UpIdle
    <3>2. CASE UpSend(c)
      BY <1>2, <3>2 DEF UpSend, UpIdle, UpState
    <3> QED BY <1>7, <3>1, <3>2
  <2> QED BY <2>1, <2>2, RowsKept
<1> QED BY <1>1, <1>3, <1>4, <1>5, <1>6, <1>7 DEF Upload

\* Late inserts only add records.
LEMMA RowsServer ==
  ASSUME TypeInv, RowsInv, (\E c \in Clients : Restart(c))
                           \/ (\E o \in orphan : OrphanCheck(o) \/ OrphanInsert(o))
  PROVE  RowsInv'
<1>1. ASSUME NEW c \in Clients, Restart(c) PROVE RowsInv'
  <2>1. RunEnds(c) /\ UNCHANGED <<journal, reg>>
    BY <1>1 DEF Restart
  <2>2. /\ dl'[c] = DlIdle /\ up'[c] = UpIdle
        /\ \A d \in Clients \ {c} : dl'[d] = dl[d] /\ up'[d] = up[d]
    BY <2>1, RunEndsPc
  <2> QED BY <2>1, <2>2 DEF RowsInv, RowsNameRecords, DlIdle, UpIdle
<1>2. ASSUME NEW o \in orphan, OrphanCheck(o) PROVE RowsInv'
  BY <1>2 DEF OrphanCheck, RowsInv, RowsNameRecords
<1>3. ASSUME NEW o \in orphan, OrphanInsert(o) PROVE RowsInv'
  <2>1. o.entry \in Entry /\ journal' = Append(journal, o.entry) /\ UNCHANGED <<reg, dl, up>>
    BY <1>3 DEF OrphanInsert, TypeInv, TypeOK
  <2>2. RowsNameRecords' /\ \A d \in Clients : dl'[d].pc \in {"write", "record"}
                                                => ~ journal'[dl'[d].item].deleted
    BY <2>1, RowsGrow
  <2>3. ASSUME NEW d \in Clients, up[d].pc = "reply", NEW h \in up[d].row
        PROVE  /\ up[d].jid \in DOMAIN journal' /\ journal'[up[d].jid].path = h.path
               /\ journal'[up[d].jid].deleted = h.deleted
    BY <2>1, <2>3, Grows DEF RowsInv
  <2> QED BY <2>1, <2>2, <2>3 DEF RowsInv
<1> QED BY <1>1, <1>2, <1>3

\* RowsInv is kept, and so is TypeInv beside it.
LEMMA RowsAreKept == Spec => [](TypeInv /\ RowsInv)
<1>1. TypeInv /\ RowsInv /\ [Next]_vars => RowsInv'
  <2> SUFFICES ASSUME TypeInv, RowsInv, [Next]_vars PROVE RowsInv'
    OBVIOUS
  <2>1. Editors \subseteq Clients /\ Unreliable \subseteq Clients /\ Writers \subseteq Clients
    BY SyncAssumption
  <2>2. ASSUME NEW c \in Clients, User(c) PROVE RowsInv'
    BY <2>2 DEF User, Edit, Delete, serverVars, RowsInv, RowsNameRecords
  <2>3. CASE Next
    BY <2>1, <2>2, <2>3, RowsIndex, RowsDownload, RowsUpload, RowsServer DEF Next
  <2>4. CASE UNCHANGED vars
    BY <2>4 DEF vars, serverVars, RowsInv, RowsNameRecords
  <2> QED BY <2>3, <2>4
<1> QED BY <1>1, RowsInit, TypeCorrect, PTL DEF Spec

\* No jid ends up on the wrong row: in every run of any clients, a row that
\* carries a jid is about the record with that id (RowsNameRecords).
THEOREM RowsNameTheirRecords == Spec => []RowsNameRecords
<1>1. RowsInv => RowsNameRecords
  BY DEF RowsInv
<1> QED BY <1>1, RowsAreKept, PTL

----------------------------------------------------------------------------
(* The cursor passes a record only by recording it, or by a commit.        *)

\* The newest records of the account that client c does not know of.
Unknown(c) == Latest(journal, Account) \ reg[c].jids

\* What makes OnlyOwnCommitsSkip inductive for client c.  The cursor is one of
\* the recorded jids, so no future record is below it.  A list is asked for
\* from the cursor or below, and worked on from its least record up.  A newest
\* record that is neither recorded nor on the list, but below some record on
\* the list, was skipped before the list was made.
SkipOK(c) ==
  /\ reg[c].jids \subseteq DOMAIN journal
  /\ reg[c].cursor = 0 \/ reg[c].cursor \in reg[c].jids
  /\ dl[c].pc = "list" => dl[c].since <= reg[c].cursor
  /\ dl[c].pc \in {"write", "record", "remove"} => \A j \in dl[c].todo : dl[c].item <= j
  /\ dl[c].pc = "remove" => dl[c].item \in reg[c].jids
  /\ \A i \in Unknown(c) : i <= reg[c].cursor => i < answered[c]
  /\ \A i \in Unknown(c) \ dl[c].todo :
       (\E t \in dl[c].todo : i < t) => i < answered[c]

SkipInv == \A c \in Clients : SkipOK(c)

\* What SkipInv says of a client implies the property.
LEMMA SkipImplies == SkipInv => OnlyOwnCommitsSkip
BY DEF SkipInv, SkipOK, Unknown, OnlyOwnCommitsSkip, Skipped

\* Nothing is passed at the start: all cursors are 0.
LEMMA SkipInit == Init => SkipInv
BY DEF Init, SkipInv, SkipOK, Unknown, Latest, EmptyView, DlIdle

\* A client whose registry, download loop and answers stay as they are.
LEMMA SkipSame ==
  ASSUME NEW c \in Clients, SkipOK(c), journal' = journal, dl'[c] = dl[c],
         reg'[c].jids = reg[c].jids, reg'[c].cursor = reg[c].cursor, answered'[c] = answered[c]
  PROVE  SkipOK(c)'
BY DEF SkipOK, Unknown

\* A client whose run ends.
LEMMA SkipIdle ==
  ASSUME NEW c \in Clients, SkipOK(c), journal' = journal, dl'[c] = DlIdle,
         reg'[c].jids = reg[c].jids, reg'[c].cursor = reg[c].cursor, answered'[c] = answered[c]
  PROVE  SkipOK(c)'
BY DEF SkipOK, Unknown, DlIdle

\* A new record is the newest of its path, and above all cursors and lists.
LEMMA SkipGrows ==
  ASSUME TypeInv, SkipInv, NEW e \in Entry, journal' = Append(journal, e),
         UNCHANGED <<reg, dl, answered>>
  PROVE  SkipInv'
<1> SUFFICES ASSUME NEW c \in Clients PROVE SkipOK(c)'
  BY DEF SkipInv
<1> DEFINE n == Len(journal) + 1
<1>1. /\ DOMAIN journal' = DOMAIN journal \cup {n} /\ n \notin DOMAIN journal
      /\ \A i \in DOMAIN journal : journal'[i] = journal[i]
      /\ \A i \in DOMAIN journal : i \in Nat /\ i < n
  BY Grows
<1>2. \A i \in Unknown(c)' : i = n \/ i \in Unknown(c)
  BY <1>1 DEF Unknown, Latest
<1>3. SkipOK(c)
  BY DEF SkipInv
<1>4. reg[c].cursor \in Nat /\ reg[c].cursor < n
  BY <1>1, <1>3 DEF SkipOK, TypeInv, TypeOK, View
<1>5. \A t \in dl[c].todo : t \in Nat /\ t < n
  BY <1>1, ListedRecord
<1>6. n \in Nat
  BY DEF TypeInv, TypeOK
<1> HIDE DEF n
<1> QED BY <1>1, <1>2, <1>3, <1>4, <1>5, <1>6 DEF SkipOK

\* What recording a record does to the cursors.
LEMMA RecordedCursor ==
  ASSUME TypeInv, NEW c \in Clients, NEW i, NEW deleted, NEW stamp,
         reg' = Recorded(c, i, deleted, stamp)
  PROVE  /\ reg'[c].jids = reg[c].jids \cup {i}
         /\ reg'[c].cursor = Later(reg[c].cursor, i)
         /\ \A d \in Clients \ {c} : reg'[d] = reg[d]
BY DEF Recorded, InsertRemote, RemoteForm, TypeInv, TypeOK

\* The least record i of the list is noted; it stays on the list while its
\* file is removed, or the loop is done with it.
LEMMA SkipRecorded ==
  ASSUME TypeInv, NEW c \in Clients, SkipOK(c), NEW i \in dl[c].todo,
         \A j \in dl[c].todo : i <= j,
         reg'[c].jids = reg[c].jids \cup {i}, reg'[c].cursor = Later(reg[c].cursor, i),
         journal' = journal, answered'[c] = answered[c],
         \/ dl'[c].pc = "remove" /\ dl'[c].item = i /\ dl'[c].todo = dl[c].todo
         \/ dl'[c].pc \in {"idle", "apply"} /\ dl'[c].todo = dl[c].todo \ {i}
  PROVE  SkipOK(c)'
<1>1. i \in Nat /\ i \in DOMAIN journal /\ \A j \in dl[c].todo : j \in Nat
  BY ListedRecord
<1>2. reg[c].cursor \in Nat /\ answered[c] \in Nat /\ \A j \in DOMAIN journal : j \in Nat
  BY DEF TypeInv, TypeOK, View
<1>3. /\ reg'[c].jids \subseteq DOMAIN journal
      /\ reg'[c].cursor = 0 \/ reg'[c].cursor \in reg'[c].jids
  BY <1>1, <1>2 DEF SkipOK, Later
<1>4. ASSUME NEW k \in Unknown(c)'
      PROVE  k \in Unknown(c) /\ k # i /\ k \in Nat
  BY <1>2, <1>4 DEF Unknown, Latest
<1>5. \A k \in Unknown(c)' : k <= reg'[c].cursor => k < answered'[c]
  <2> SUFFICES ASSUME NEW k \in Unknown(c)', k <= reg'[c].cursor
               PROVE  k < answered[c]
    OBVIOUS
  <2>1. CASE k <= reg[c].cursor
    BY <1>4, <2>1 DEF SkipOK
  <2>2. CASE ~ (k <= reg[c].cursor)
    <3>1. k < i
      BY <1>1, <1>2, <1>4, <2>2 DEF Later
    <3>2. k \notin dl[c].todo
      BY <1>1, <1>4, <3>1
    <3> QED BY <1>4, <3>1, <3>2 DEF SkipOK
  <2> QED BY <2>1, <2>2
<1>6. \A k \in Unknown(c)' \ dl'[c].todo : (\E t \in dl'[c].todo : k < t) => k < answered'[c]
  <2> SUFFICES ASSUME NEW k \in Unknown(c)', k \notin dl'[c].todo,
                      NEW t \in dl'[c].todo, k < t
               PROVE  k < answered[c]
    OBVIOUS
  <2>1. k \notin dl[c].todo /\ t \in dl[c].todo
    BY <1>4
  <2> QED BY <1>4, <2>1 DEF SkipOK
<1> QED BY <1>3, <1>5, <1>6 DEF SkipOK

\* What Advance leaves of the list.
LEMMA AdvanceTodo ==
  ASSUME TypeInv, NEW c \in Clients, NEW i, Advance(c, i)
  PROVE  dl'[c].pc \in {"idle", "apply"} /\ dl'[c].todo = dl[c].todo \ {i}
BY DEF TypeInv, TypeOK, Advance, DlIdle

\* Downloaded records are noted from the least on, so none is passed.
LEMMA SkipDownload ==
  ASSUME ListIsOrdered, TypeInv, SkipInv, NEW c \in Clients, Download(c)
  PROVE  SkipInv'
<1> SUFFICES ASSUME NEW d \in Clients PROVE SkipOK(d)'
  BY DEF SkipInv
<1>0. SkipOK(d) /\ SkipOK(c)
  BY DEF SkipInv
<1>1. /\ journal' = journal /\ answered' = answered
      /\ dl \in [Clients -> DlState] /\ reg[c].cursor \in Nat
  BY DEF Download, DlStart, DlList, DlFetch, DlTombstone, DlRemove, DlTruncate, DlWrite,
         DlRecord, serverVars, counters, TypeInv, TypeOK, View
<1>2. CASE d # c
  <2>1. dl'[d] = dl[d]
    BY <1>1, <1>2, RunEndsPc, AdvancePc
       DEF Download, DlStart, DlList, DlFetch, DlTombstone, DlRemove, DlTruncate, DlWrite, DlRecord
  <2>2. reg'[d] = reg[d]
    <3>1. \/ reg' = reg
          \/ \E i, deleted, stamp : reg' = Recorded(c, i, deleted, stamp)
      BY DEF Download, DlStart, DlList, DlFetch, DlTombstone, DlRemove, DlTruncate, DlWrite, DlRecord
    <3> QED BY <1>2, <3>1, RecordedCursor
  <2> QED BY <1>0, <1>1, <2>1, <2>2, SkipSame
<1>3. CASE DlStart(c) /\ d = c
  <2>1. /\ dl'[c].pc = "list" /\ dl'[c].since = reg[c].cursor /\ dl'[c].todo = dl[c].todo
        /\ reg' = reg
    BY <1>1, <1>3 DEF DlStart, LatestJid, DlState
  <2> QED BY <1>0, <1>1, <1>3, <2>1 DEF SkipOK, Unknown
<1>4. CASE DlList(c) /\ d = c
  <2> DEFINE todo == ListSince(journal, Account, dl[c].since)
  <2>1. reg' = reg /\ dl[c].since \in Nat /\ dl[c].since <= reg[c].cursor
    BY <1>0, <1>1, <1>4 DEF DlList, SkipOK, DlState
  <2>2. dl'[c] = DlIdle \/ (dl'[c].pc = "fetch" /\ dl'[c].todo = todo)
    BY <1>1, <1>4 DEF DlList, DlIdle
  <2>3. \A i \in Unknown(c) \ todo : i < answered[c]
    <3> SUFFICES ASSUME NEW i \in Unknown(c), i \notin todo PROVE i < answered[c]
      OBVIOUS
    <3>1. i \in Nat /\ ~ (i > dl[c].since)
      BY DEF Unknown, ListSince, Latest, TypeInv, TypeOK
    <3>2. i <= reg[c].cursor
      BY <1>1, <2>1, <3>1
    <3> QED BY <1>0, <3>2 DEF SkipOK
  <2>4. CASE dl'[c] = DlIdle
    BY <1>0, <1>1, <1>4, <2>1, <2>4, SkipIdle
  <2>5. CASE dl'[c].pc = "fetch" /\ dl'[c].todo = todo
    <3> HIDE DEF todo
    <3> QED BY <1>0, <1>1, <1>4, <2>1, <2>3, <2>5 DEF SkipOK, Unknown
  <2> QED BY <2>2, <2>4, <2>5
<1>5. CASE DlFetch(c) /\ d = c
  <2>1. dl'[c].pc = "apply" /\ dl'[c].todo = dl[c].todo /\ reg' = reg
    BY <1>1, <1>5 DEF DlFetch, DlState
  <2> QED BY <1>0, <1>1, <1>5, <2>1 DEF SkipOK, Unknown
<1>6. CASE DlTombstone(c) /\ d = c
  <2>1. PICK i \in dl[c].todo :
          /\ IsNext(i, dl[c].todo) /\ reg' = Recorded(c, i, TRUE, 0)
          /\ \/ dl' = [dl EXCEPT ![c].pc = "remove", ![c].item = i]
             \/ Advance(c, i)
    BY <1>6 DEF DlTombstone
  <2>2. \A j \in dl[c].todo : i <= j
    BY <2>1 DEF IsNext
  <2>3. \/ dl'[c].pc = "remove" /\ dl'[c].item = i /\ dl'[c].todo = dl[c].todo
        \/ dl'[c].pc \in {"idle", "apply"} /\ dl'[c].todo = dl[c].todo \ {i}
    <3>1. CASE dl' = [dl EXCEPT ![c].pc = "remove", ![c].item = i]
      BY <1>1, <3>1 DEF DlState
    <3>2. CASE Advance(c, i)
      BY <3>2, AdvanceTodo
    <3> QED BY <2>1, <3>1, <3>2
  <2>4. reg'[c].jids = reg[c].jids \cup {i} /\ reg'[c].cursor = Later(reg[c].cursor, i)
    BY <2>1, RecordedCursor
  <2> QED BY <1>0, <1>1, <1>6, <2>2, <2>3, <2>4, SkipRecorded
<1>7. CASE DlRemove(c) /\ d = c
  <2>1. dl[c].pc = "remove" /\ reg' = reg /\ (Advance(c, dl[c].item) \/ RunEnds(c))
    BY <1>7 DEF DlRemove
  <2>2. CASE RunEnds(c)
    BY <1>0, <1>1, <1>7, <2>1, <2>2, RunEndsPc, SkipIdle
  <2>3. CASE Advance(c, dl[c].item)
    <3>1. dl'[c].pc \in {"idle", "apply"} /\ dl'[c].todo = dl[c].todo \ {dl[c].item}
      BY <2>3, AdvanceTodo
    <3> QED BY <1>0, <1>1, <1>7, <2>1, <3>1 DEF SkipOK, Unknown
  <2> QED BY <2>1, <2>2, <2>3
<1>8. CASE DlTruncate(c) /\ d = c
  <2>1. PICK i \in dl[c].todo : /\ IsNext(i, dl[c].todo)
                                /\ dl' = [dl EXCEPT ![c].pc = "write", ![c].item = i]
    BY <1>8 DEF DlTruncate
  <2>2. /\ dl'[c].pc = "write" /\ dl'[c].item = i /\ dl'[c].todo = dl[c].todo
        /\ \A j \in dl[c].todo : i <= j
    BY <1>1, <2>1 DEF DlState, IsNext
  <2>3. reg' = reg
    BY <1>8 DEF DlTruncate
  <2> QED BY <1>0, <1>1, <1>8, <2>2, <2>3 DEF SkipOK, Unknown
<1>9. CASE DlWrite(c) /\ d = c
  <2>1. /\ dl[c].pc = "write" /\ dl'[c].pc = "record" /\ reg' = reg
        /\ dl'[c].item = dl[c].item /\ dl'[c].todo = dl[c].todo
    BY <1>1, <1>9 DEF DlWrite, DlState
  <2> QED BY <1>0, <1>1, <1>9, <2>1 DEF SkipOK, Unknown
<1>10. CASE DlRecord(c) /\ d = c
  <2> DEFINE i == dl[c].item
  <2>1. dl[c].pc = "record" /\ i \in dl[c].todo /\ \A j \in dl[c].todo : i <= j
    BY <1>0, <1>10 DEF DlRecord, SkipOK, TypeInv, TodoOK
  <2>2. CASE reg' = reg /\ RunEnds(c)
    BY <1>0, <1>1, <1>10, <2>2, RunEndsPc, SkipIdle
  <2>3. CASE reg' = Recorded(c, i, FALSE, disk[c][journal[i].path].stamp) /\ Advance(c, i)
    <3>1. reg'[c].jids = reg[c].jids \cup {i} /\ reg'[c].cursor = Later(reg[c].cursor, i)
      BY <2>3, RecordedCursor
    <3>2. dl'[c].pc \in {"idle", "apply"} /\ dl'[c].todo = dl[c].todo \ {i}
      BY <2>3, AdvanceTodo
    <3> QED BY <1>0, <1>1, <1>10, <2>1, <3>1, <3>2, SkipRecorded
  <2> QED BY <1>10, <2>2, <2>3 DEF DlRecord
<1> QED BY <1>2, <1>3, <1>4, <1>5, <1>6, <1>7, <1>8, <1>9, <1>10 DEF Download

\* An upload loop passes records only below a jid it was answered.
LEMMA SkipUpload ==
  ASSUME TypeInv, RowsInv, SkipInv, NEW c \in Clients, Upload(c)
  PROVE  SkipInv'
<1>1. CASE UpStart(c) \/ SrvCheck(c) \/ UpNeeds(c) \/ UpSend(c)
  BY <1>1, SkipSame DEF UpStart, SrvCheck, UpNeeds, UpSend, serverVars, counters, SkipInv
<1>2. CASE UpHash(c)
  <2>1. UNCHANGED <<journal, reg, answered>> /\ (dl' = dl \/ RunEnds(c))
    BY <1>2 DEF UpHash, serverVars, counters
  <2>2. \A d \in Clients : dl'[d] = dl[d] \/ dl'[d] = DlIdle
    BY <2>1, RunEndsPc
  <2> QED BY <2>1, <2>2, SkipSame, SkipIdle DEF SkipInv
<1>3. CASE SrvInsert(c)
  <2>1. PICK f \in up[c].row : journal' = Append(journal, EntryOf(c, f))
    BY <1>3 DEF SrvInsert
  <2>2. UNCHANGED <<reg, dl, answered>>
    BY <1>3 DEF SrvInsert, counters
  <2> QED BY <2>1, <2>2, CommittedEntry, SkipGrows
<1>4. CASE UpCommitted(c)
  <2>1. PICK f \in up[c].row :
          /\ up[c].pc = "reply"
          /\ reg' = [reg EXCEPT ![c] = UpdateJid(@, f.path, f.id, up[c].jid)]
          /\ answered' = [answered EXCEPT ![c] = Later(@, up[c].jid)]
    BY <1>4 DEF UpCommitted
  <2> DEFINE jid == up[c].jid
  <2>2. jid \in DOMAIN journal /\ jid \in Nat
    BY <2>1 DEF RowsInv, TypeInv, TypeOK
  <2>3. /\ reg'[c].jids = reg[c].jids \cup {jid} /\ reg'[c].cursor = Later(reg[c].cursor, jid)
        /\ answered'[c] = Later(answered[c], jid)
        /\ \A d \in Clients \ {c} : reg'[d] = reg[d] /\ answered'[d] = answered[d]
    BY <2>1 DEF UpdateJid, TypeInv, TypeOK
  <2>4. journal' = journal /\ dl' = dl
    BY <1>4 DEF UpCommitted, serverVars
  <2>5. reg[c].cursor \in Nat /\ answered[c] \in Nat /\ DOMAIN journal \subseteq Nat
        /\ dl[c].since \in Nat
    BY DEF TypeInv, TypeOK, View, DlState
  <2>6. SkipOK(c)'
    <3> HIDE DEF jid
    <3>0. SkipOK(c)
      BY DEF SkipInv
    <3>1. \A i \in Unknown(c)' : i \in Unknown(c) /\ i # jid /\ i \in Nat
      BY <2>3, <2>4, <2>5 DEF Unknown, Latest
    <3>2. ASSUME NEW i \in Unknown(c)', i <= reg'[c].cursor
          PROVE  i < answered'[c]
      <4>1. CASE i <= reg[c].cursor
        <5>1. i < answered[c]
          BY <3>0, <3>1, <4>1 DEF SkipOK
        <5> QED BY <2>2, <2>3, <2>5, <3>1, <5>1 DEF Later
      <4>2. CASE ~ (i <= reg[c].cursor)
        BY <2>2, <2>3, <2>5, <3>1, <3>2, <4>2 DEF Later
      <4> QED BY <4>1, <4>2
    <3>3. ASSUME NEW i \in Unknown(c)', i \notin dl[c].todo, NEW t \in dl[c].todo, i < t
          PROVE  i < answered'[c]
      <4>1. i < answered[c]
        BY <3>0, <3>1, <3>3 DEF SkipOK
      <4> QED BY <2>2, <2>3, <2>5, <3>1, <4>1 DEF Later
    <3>4. /\ reg'[c].jids \subseteq DOMAIN journal
          /\ reg'[c].cursor = 0 \/ reg'[c].cursor \in reg'[c].jids
          /\ dl[c].pc = "list" => dl[c].since <= reg'[c].cursor
      BY <2>2, <2>3, <2>5, <3>0 DEF SkipOK, Later
    <3> QED BY <2>3, <2>4, <3>0, <3>2, <3>3, <3>4 DEF SkipOK
  <2>7. ASSUME NEW d \in Clients, d # c PROVE SkipOK(d)'
    BY <2>3, <2>4, <2>7, SkipSame DEF SkipInv
  <2> QED BY <2>6, <2>7 DEF SkipInv
<1> QED BY <1>1, <1>2, <1>3, <1>4 DEF Upload

\* If the database answers list in the order of the ids, then, in every run of
\* any clients that edit, upload, crash and restart as they may, the cursor of
\* a client passes a newest record it does not know of only by the answer to
\* one of its own commits (OnlyOwnCommitsSkip).
THEOREM OnlyCommitsSkip == ListIsOrdered => (Spec => []OnlyOwnCommitsSkip)
<1> SUFFICES ASSUME ListIsOrdered PROVE Spec => []OnlyOwnCommitsSkip
  OBVIOUS
<1>1. TypeInv /\ RowsInv /\ SkipInv /\ [Next]_vars => SkipInv'
  <2> SUFFICES ASSUME TypeInv, RowsInv, SkipInv, [Next]_vars PROVE SkipInv'
    OBVIOUS
  <2>1. Editors \subseteq Clients /\ Unreliable \subseteq Clients /\ Writers \subseteq Clients
    BY SyncAssumption
  <2>2. ASSUME NEW c \in Clients, User(c) PROVE SkipInv'
    BY <2>2, SkipSame DEF User, Edit, Delete, serverVars, SkipInv
  <2>3. ASSUME NEW c \in Clients, Index(c) PROVE SkipInv'
    <3>1. UNCHANGED <<journal, dl, answered>>
      BY <2>3 DEF Index, serverVars, counters
    <3>2. \A d \in Clients : reg'[d].jids = reg[d].jids /\ reg'[d].cursor = reg[d].cursor
      BY <2>3 DEF Index, InsertLocal, TypeInv, TypeOK, View
    <3> QED BY <3>1, <3>2, SkipSame DEF SkipInv
  <2>4. ASSUME NEW c \in Clients, Restart(c) PROVE SkipInv'
    BY <2>4, RunEndsPc, SkipSame, SkipIdle DEF Restart, SkipInv
  <2>5. ASSUME NEW o \in orphan, OrphanCheck(o) PROVE SkipInv'
    BY <2>5, SkipSame DEF OrphanCheck, counters, SkipInv
  <2>6. ASSUME NEW o \in orphan, OrphanInsert(o) PROVE SkipInv'
    <3>1. o.entry \in Entry
      BY DEF TypeInv, TypeOK
    <3> QED BY <2>6, <3>1, SkipGrows DEF OrphanInsert, counters
  <2>7. CASE UNCHANGED vars
    BY <2>7, SkipSame DEF vars, serverVars, counters, SkipInv
  <2>8. CASE Next
    BY <2>1, <2>2, <2>3, <2>4, <2>5, <2>6, <2>8, SkipDownload, SkipUpload DEF Next
  <2> QED BY <2>7, <2>8
<1> QED BY <1>1, SkipInit, SkipImplies, RowsAreKept, PTL DEF Spec

----------------------------------------------------------------------------
(* Half-written files stay where they are.                                 *)

\* While no run has been cut off, a file is half-written only while its save
\* is under way, which excludes the upload loop by the mutex.
TornInv ==
  restarts = 0 =>
    /\ orphan = {}
    /\ \A c \in Clients, p \in Paths :
         disk[c][p].data = Torn => dl[c].pc = "write" /\ p = journal[dl[c].item].path
    /\ \A c \in Clients : up[c].data # Torn
    /\ \A i \in DOMAIN journal : journal[i].chunks # Torn

\* No file is torn at the start.
LEMMA TornInit == Init => TornInv
BY SyncAssumption DEF Init, TornInv, UpIdle

\* What a write does to the disks.
LEMMA WrittenFile ==
  ASSUME TypeInv, NEW c \in Clients, NEW p \in Paths, NEW d \in Clients, NEW q \in Paths, NEW data
  PROVE  /\ Written(c, p, data)[d][q].data = IF d = c /\ q = p THEN data ELSE disk[d][q].data
         /\ Removed(c, p)[d][q].data = IF d = c /\ q = p THEN Gone ELSE disk[d][q].data
BY DEF Written, Removed, TypeInv, TypeOK, Files

\* A step that leaves the journal and the disks alone, and takes no download
\* loop out of a save.
LEMMA TornKept ==
  ASSUME TypeInv, TornInv, UNCHANGED <<journal, orphan, disk, restarts>>,
         \A c \in Clients : dl[c].pc = "write" => dl'[c] = dl[c],
         \A c \in Clients : up'[c].data = up[c].data \/ up'[c].data = Gone
  PROVE  TornInv'
BY SyncAssumption DEF TornInv

\* A file is torn only while the download loop has the mutex.
LEMMA TornDownload ==
  ASSUME TypeInv, TornInv, NEW c \in Clients, Download(c)
  PROVE  TornInv'
<1>1. /\ UNCHANGED <<journal, orphan, restarts>>
      /\ dl \in [Clients -> DlState]
  BY DEF Download, DlStart, DlList, DlFetch, DlTombstone, DlRemove, DlTruncate, DlWrite,
         DlRecord, serverVars, counters, TypeInv, TypeOK
<1>2. CASE DlStart(c) \/ DlList(c) \/ DlFetch(c) \/ DlTombstone(c) \/ DlRecord(c)
  <2>1. disk' = disk /\ dl[c].pc # "write"
    BY <1>2 DEF DlStart, DlList, DlFetch, DlTombstone, DlRecord
  <2>2. \A d \in Clients : dl[d].pc = "write" => dl'[d] = dl[d]
    BY <1>1, <1>2, <2>1, AdvancePc, RunEndsPc
       DEF DlStart, DlList, DlFetch, DlTombstone, DlRecord
  <2>3. \A d \in Clients : up'[d].data = up[d].data \/ up'[d].data = Gone
    <3>1. up' = up \/ RunEnds(c)
      BY <1>2 DEF DlStart, DlList, DlFetch, DlTombstone, DlRecord
    <3>2. RunEnds(c) => \A d \in Clients : up'[d] = up[d] \/ up'[d] = UpIdle
      BY RunEndsPc
    <3> QED BY <3>1, <3>2 DEF UpIdle
  <2> QED BY <1>1, <2>1, <2>2, <2>3, TornKept
<1>3. CASE DlRemove(c)
  <2> DEFINE p == journal[dl[c].item].path
  <2>1. dl[c].pc = "remove" /\ p \in Paths
    BY <1>3, ListedRecord DEF DlRemove, TypeInv, TodoOK
  <2>2. \A d \in Clients : dl[d].pc = "write" => dl'[d] = dl[d]
    BY <1>3, <2>1, AdvancePc, RunEndsPc DEF DlRemove
  <2>3. \A d \in Clients : up'[d].data = up[d].data \/ up'[d].data = Gone
    BY <1>3, RunEndsPc DEF DlRemove, UpIdle
  <2>4. \A d \in Clients, q \in Paths : disk'[d][q].data \in {disk[d][q].data, Gone}
    BY <1>3, <2>1, WrittenFile DEF DlRemove
  <2> QED BY SyncAssumption, <1>1, <2>2, <2>3, <2>4 DEF TornInv
<1>4. CASE DlTruncate(c)
  <2>1. PICK i \in dl[c].todo :
          /\ disk' = Written(c, journal[i].path, Torn)
          /\ dl' = [dl EXCEPT ![c].pc = "write", ![c].item = i]
    BY <1>4 DEF DlTruncate
  <2>2. dl[c].pc = "apply" /\ up' = up /\ journal[i].path \in Paths
    BY <1>4, ListedRecord DEF DlTruncate
  <2>3. dl'[c].pc = "write" /\ dl'[c].item = i /\ \A d \in Clients \ {c} : dl'[d] = dl[d]
    BY <1>1, <2>1 DEF DlState
  <2>4. \A d \in Clients, q \in Paths :
          disk'[d][q].data = IF d = c /\ q = journal[i].path THEN Torn ELSE disk[d][q].data
    BY <2>1, <2>2, WrittenFile
  <2> QED BY <1>1, <2>2, <2>3, <2>4 DEF TornInv
<1>5. CASE DlWrite(c)
  <2> DEFINE i == dl[c].item
             p == journal[i].path
  <2>1. dl[c].pc = "write" /\ i \in DOMAIN journal /\ p \in Paths
    BY <1>5, ListedRecord DEF DlWrite, TypeInv, TodoOK
  <2>2. up' = up /\ \A d \in Clients \ {c} : dl'[d] = dl[d]
    BY <1>1, <1>5 DEF DlWrite
  <2>3. /\ \A d \in Clients, q \in Paths : d # c \/ q # p => disk'[d][q].data = disk[d][q].data
        /\ disk'[c][p].data = journal[i].chunks \/ disk'[c][p].data # Torn
    <3>1. CASE disk' = Written(c, p, journal[i].chunks)
      <4>1. PICK data : data = journal[i].chunks
        OBVIOUS
      <4>2. PICK path \in Paths : path = p
        BY <2>1
      <4>3. \A d \in Clients, q \in Paths :
              Written(c, path, data)[d][q].data
                = IF d = c /\ q = path THEN data ELSE disk[d][q].data
        BY WrittenFile
      <4> QED BY <3>1, <4>1, <4>2, <4>3
    <3>2. CASE disk[c][p].data # Torn /\ disk' = disk
      BY <3>2
    <3> QED BY <1>5, <3>1, <3>2 DEF DlWrite
  <2> HIDE DEF i, p
  <2> SUFFICES ASSUME restarts = 0, NEW d \in Clients, NEW q \in Paths, disk'[d][q].data = Torn
               PROVE  dl'[d].pc = "write" /\ q = journal[dl'[d].item].path
    BY <1>1, <2>2 DEF TornInv
  <2>4. d # c
    <3>1. journal[i].chunks # Torn /\ (disk[c][q].data = Torn => q = p)
      BY <2>1 DEF TornInv, i, p
    <3> QED BY <2>3, <3>1
  <2> QED BY <2>2, <2>3, <2>4 DEF TornInv
<1> QED BY <1>2, <1>3, <1>4, <1>5 DEF Download

\* A file is hashed only while nobody saves one.
LEMMA TornUpload ==
  ASSUME TypeInv, TornInv, NEW c \in Clients, Upload(c)
  PROVE  TornInv'
<1>0. up \in [Clients -> UpState]
  BY DEF TypeInv, TypeOK
<1>1. CASE UpStart(c) \/ SrvCheck(c) \/ UpCommitted(c) \/ UpNeeds(c) \/ UpSend(c)
  <2>1. UNCHANGED <<journal, orphan, disk, restarts, dl>>
    BY <1>1 DEF UpStart, SrvCheck, UpCommitted, UpNeeds, UpSend, serverVars, counters
  <2>2. \A d \in Clients : up'[d].data = up[d].data \/ up'[d].data = Gone
    <3>1. CASE UpStart(c)
      BY <1>0, <3>1 DEF UpStart, UpState
    <3>2. CASE SrvCheck(c)
      BY <1>0, <3>2 DEF SrvCheck, UpState
    <3>3. CASE UpCommitted(c) \/ UpNeeds(c)
      <4>1. PICK f, send : NextRow(c, f, send)
        BY <3>3 DEF UpCommitted, UpNeeds
      <4>2. up'[c].data = Gone /\ \A d \in Clients \ {c} : up'[d] = up[d]
        BY <1>0, <4>1 DEF NextRow, UpIdle
      <4> QED BY <4>2
    <3>4. CASE UpSend(c)
      BY <1>0, <3>4 DEF UpSend, UpIdle, UpState
    <3> QED BY <1>1, <3>1, <3>2, <3>3, <3>4
  <2> QED BY <2>1, <2>2, TornKept
<1>2. CASE UpHash(c)
  <2>1. PICK f \in up[c].queue :
          IF f.deleted \/ OnDisk(c, f.path)
          THEN /\ up' = [up EXCEPT ![c].pc = "commit", ![c].row = {f},
                            ![c].data = IF f.deleted THEN Gone ELSE disk[c][f.path].data]
               /\ UNCHANGED dl
          ELSE RunEnds(c)
    BY <1>2 DEF UpHash
  <2>2. /\ UNCHANGED <<journal, orphan, disk, restarts>> /\ dl[c].pc # "write"
        /\ f.path \in Paths
    BY <1>0, <1>2 DEF UpHash, Locked, serverVars, counters, UpState, Pending
  <2>3. CASE f.deleted \/ OnDisk(c, f.path)
    <3>1. /\ dl' = dl /\ \A d \in Clients \ {c} : up'[d] = up[d]
          /\ up'[c].data = Gone \/ up'[c].data = disk[c][f.path].data
      BY <1>0, <2>1, <2>3 DEF UpState
    <3>2. restarts = 0 => disk[c][f.path].data # Torn
      BY <2>2 DEF TornInv
    <3> QED BY SyncAssumption, <2>2, <3>1, <3>2 DEF TornInv
  <2>4. CASE ~ (f.deleted \/ OnDisk(c, f.path))
    <3>1. /\ \A d \in Clients : dl[d].pc = "write" => dl'[d] = dl[d]
          /\ \A d \in Clients : up'[d].data = up[d].data \/ up'[d].data = Gone
      BY <2>1, <2>2, <2>4, RunEndsPc DEF UpIdle
    <3> QED BY <2>2, <3>1, TornKept
  <2> QED BY <2>3, <2>4
<1>3. CASE SrvInsert(c)
  <2>1. PICK f \in up[c].row :
          /\ journal' = Append(journal, EntryOf(c, f))
          /\ up' = [up EXCEPT ![c].pc = "reply", ![c].jid = Len(journal) + 1]
    BY <1>3 DEF SrvInsert
  <2>2. UNCHANGED <<orphan, disk, restarts, dl>> /\ \A d \in Clients : up'[d].data = up[d].data
    BY <1>0, <1>3, <2>1 DEF SrvInsert, counters, UpState
  <2>3. EntryOf(c, f) \in Entry /\ EntryOf(c, f).chunks = up[c].data
    BY CommittedEntry DEF EntryOf
  <2>4. /\ \A i \in DOMAIN journal : i \in DOMAIN journal' /\ journal'[i] = journal[i]
        /\ DOMAIN journal' = DOMAIN journal \cup {Len(journal) + 1}
        /\ journal'[Len(journal) + 1] = EntryOf(c, f)
    BY <2>1, <2>3, Grows
  <2>5. \A d \in Clients : dl[d].pc = "write" => dl[d].item \in DOMAIN journal
    BY DEF TypeInv, TodoOK
  <2> QED BY <2>2, <2>3, <2>4, <2>5 DEF TornInv
<1> QED BY <1>1, <1>2, <1>3 DEF Upload

\* As long as no run is cut off, no half-written file is ever committed, by
\* any client (TornNeverCommitted).
THEOREM NoTornCommit == Spec => []TornNeverCommitted
<1>1. TypeInv /\ TornInv /\ [Next]_vars => TornInv'
  <2> SUFFICES ASSUME TypeInv, TornInv, [Next]_vars PROVE TornInv'
    OBVIOUS
  <2>1. Editors \subseteq Clients /\ Unreliable \subseteq Clients /\ Writers \subseteq Clients
    BY SyncAssumption
  <2>2. ASSUME NEW c \in Clients, User(c) PROVE TornInv'
    <3>1. UNCHANGED <<journal, orphan, restarts, up, dl>>
      BY <2>2 DEF User, Edit, Delete, serverVars
    <3>2. \A d \in Clients, q \in Paths : disk'[d][q].data \in {disk[d][q].data, Gone} \cup Contents
      BY <2>2, WrittenFile DEF User, Edit, Delete
    <3> QED BY SyncAssumption, <3>1, <3>2 DEF TornInv
  <2>3. ASSUME NEW c \in Clients, Index(c) PROVE TornInv'
    BY <2>3, TornKept DEF Index, serverVars, counters
  <2>4. ASSUME NEW c \in Clients, Restart(c) PROVE TornInv'
    BY <2>4 DEF Restart, TornInv, TypeInv, TypeOK
  <2>5. ASSUME NEW o \in orphan, OrphanCheck(o) \/ OrphanInsert(o) PROVE TornInv'
    BY <2>5 DEF OrphanCheck, OrphanInsert, counters, TornInv
  <2>6. CASE UNCHANGED vars
    BY <2>6, TornKept DEF vars, serverVars, counters
  <2>7. CASE Next
    BY <2>1, <2>2, <2>3, <2>4, <2>5, <2>7, TornDownload, TornUpload DEF Next
  <2> QED BY <2>6, <2>7
<1>2. TornInv => TornNeverCommitted
  BY DEF TornInv, TornNeverCommitted
<1> QED BY <1>1, <1>2, TornInit, TypeCorrect, PTL DEF Spec

----------------------------------------------------------------------------
(* What module Registry takes for granted: update_jid is for rows without  *)
(* a jid.                                                                  *)

\* A row that has its jid keeps it, and all else, until a newer row of its path
\* supersedes it.
JidsAreFinal ==
  [][\A c \in Clients, p \in Paths :
       LET old == reg[c].row[p]
           new == reg'[c].row[p]
       IN  old.jid # NoJid /\ new.id = old.id => new = old]_vars

\* The rows the upload loop has still to commit, if they are still the newest.
PendingOK(c) ==
  \A f \in up[c].queue : reg[c].row[f.path].id = f.id => reg[c].row[f.path].jid = NoJid

PendingInv == \A c \in Clients : PendingOK(c)

\* Rows stay, or newer ones with ids of their own supersede them.
Superseding(c) ==
  \A p \in Paths : reg'[c].row[p] = reg[c].row[p] \/ reg'[c].row[p].id \notin HeldIds(c, p)

\* The indexer and the download loop supersede rows.
LEMMA Supersede ==
  ASSUME TypeInv, NEW c \in Clients, Index(c) \/ Download(c)
  PROVE  \A d \in Clients : Superseding(d)
<1>1. ASSUME Index(c), NEW d \in Clients, NEW p \in Paths
      PROVE  reg'[d].row[p] = reg[d].row[p] \/ reg'[d].row[p].id \notin HeldIds(d, p)
  <2>1. /\ d # c => reg'[d] = reg[d]
        /\ reg'[c] = InsertLocal(reg[c], LocalForms(c), NextIds(c))
    BY <1>1 DEF Index, TypeInv, TypeOK
  <2>2. reg'[c].row[p] \in {reg[c].row[p], RowOf(NextIds(c)[p], LocalForms(c)[p])}
    BY <2>1 DEF InsertLocal, TypeInv, TypeOK, View
  <2>3. NextIds(c)[p] \notin HeldIds(c, p)
    BY NextIdIsFree
  <2> QED BY <2>1, <2>2, <2>3 DEF RowOf
<1>2. ASSUME NEW i \in DOMAIN journal, NEW deleted, NEW stamp, reg' = Recorded(c, i, deleted, stamp),
             NEW d \in Clients, NEW p \in Paths
      PROVE  reg'[d].row[p] = reg[d].row[p] \/ reg'[d].row[p].id \notin HeldIds(d, p)
  <2> DEFINE q == journal[i].path
             r == RowOf(NextIds(c)[q], RemoteForm(i, deleted, stamp))
  <2>1. /\ d # c => reg'[d] = reg[d]
        /\ reg'[c].row = [reg[c].row EXCEPT ![q] = r]
    BY <1>2 DEF Recorded, InsertRemote, TypeInv, TypeOK
  <2>2. reg[c].row \in [Paths -> Row]
    BY DEF TypeInv, TypeOK, View
  <2>3. p = q => r.id \notin HeldIds(c, p)
    BY NextIdIsFree DEF RowOf
  <2> HIDE DEF r
  <2>4. reg'[c].row[p] = IF p = q THEN r ELSE reg[c].row[p]
    BY <2>1, <2>2
  <2> QED BY <2>1, <2>3, <2>4
<1>3. ASSUME Download(c)
      PROVE  reg' = reg \/ \E i \in DOMAIN journal : \E deleted, stamp : reg' = Recorded(c, i, deleted, stamp)
  <2>1. ASSUME DlTombstone(c) PROVE \E i \in DOMAIN journal : reg' = Recorded(c, i, TRUE, 0)
    BY <2>1, ListedRecord DEF DlTombstone
  <2>2. ASSUME DlRecord(c)
        PROVE  reg' = reg \/ \E i \in DOMAIN journal : \E stamp : reg' = Recorded(c, i, FALSE, stamp)
    <3>1. dl[c].item \in DOMAIN journal
      BY <2>2 DEF DlRecord, TypeInv, TodoOK
    <3> QED BY <2>2, <3>1 DEF DlRecord
  <2> QED BY <1>3, <2>1, <2>2 DEF Download, DlStart, DlList, DlFetch, DlRemove, DlTruncate, DlWrite
<1>4. ASSUME UNCHANGED reg PROVE \A d \in Clients : Superseding(d)
  BY <1>4 DEF Superseding
<1> QED BY <1>1, <1>2, <1>3, <1>4 DEF Superseding

\* What supersedes a row takes neither its id nor that of a row to be committed.
LEMMA PendingSuperseded ==
  ASSUME TypeInv, NEW c \in Clients, PendingOK(c), Superseding(c), up'[c].queue \subseteq up[c].queue
  PROVE  PendingOK(c)'
<1> SUFFICES ASSUME NEW f \in up[c].queue, reg'[c].row[f.path].id = f.id
             PROVE  reg'[c].row[f.path].jid = NoJid
  BY DEF PendingOK
<1>1. f.path \in Paths /\ f.id \in HeldIds(c, f.path)
  BY DEF TypeInv, TypeOK, UpState, Pending, HeldIds
<1>2. reg'[c].row[f.path] = reg[c].row[f.path]
  BY <1>1 DEF Superseding
<1> QED BY <1>2 DEF PendingOK

\* The answer to a commit is for a row that is off the queue then.
LEMMA PendingCommitted ==
  ASSUME TypeInv, NEW c \in Clients, PendingOK(c), UpCommitted(c)
  PROVE  /\ PendingOK(c)'
         /\ \A p \in Paths : reg'[c].row[p] = reg[c].row[p] \/ reg[c].row[p].jid = NoJid
         /\ \A d \in Clients \ {c} : reg'[d] = reg[d] /\ up'[d] = up[d]
<1>1. PICK f \in up[c].row :
        /\ reg' = [reg EXCEPT ![c] = UpdateJid(reg[c], f.path, f.id, up[c].jid)]
        /\ NextRow(c, f, up[c].send)
  BY DEF UpCommitted
<1>2. f \in up[c].queue /\ \A g \in up[c].queue : g.path \in Paths /\ (g.path = f.path => g = f)
  BY DEF TypeInv, QueueOK, TypeOK, UpState, Pending
<1>3. /\ reg'[c].row = IF reg[c].row[f.path].id = f.id THEN [reg[c].row EXCEPT ![f.path].jid = up[c].jid]
                       ELSE reg[c].row
      /\ \A d \in Clients \ {c} : reg'[d] = reg[d]
  BY <1>1 DEF UpdateJid, TypeInv, TypeOK
<1>4. \A p \in Paths \ {f.path} : reg'[c].row[p] = reg[c].row[p]
  BY <1>3 DEF TypeInv, TypeOK, View
<1>5. \A g \in up'[c].queue : g \in up[c].queue /\ g # f
  BY <1>1 DEF NextRow, UpIdle, TypeInv, TypeOK
<1>6. PendingOK(c)'
  <2> SUFFICES ASSUME NEW g \in up'[c].queue, reg'[c].row[g.path].id = g.id
               PROVE  reg'[c].row[g.path].jid = NoJid
    BY DEF PendingOK
  <2>1. g \in up[c].queue /\ g.path \in Paths \ {f.path}
    BY <1>2, <1>5
  <2> QED BY <1>4, <2>1 DEF PendingOK
<1>7. reg'[c].row[f.path] = reg[c].row[f.path] \/ reg[c].row[f.path].jid = NoJid
  BY <1>2, <1>3 DEF PendingOK
<1>8. \A d \in Clients \ {c} : up'[d] = up[d]
  BY <1>1 DEF NextRow, TypeInv, TypeOK
<1> QED BY <1>3, <1>4, <1>6, <1>7, <1>8

\* A client's registry in one step, and what is still to be committed of it.
Filling(c) ==
  /\ PendingOK(c)'
  /\ \A p \in Paths :
       \/ reg'[c].row[p] = reg[c].row[p]
       \/ reg'[c].row[p].id # reg[c].row[p].id
       \/ reg[c].row[p].jid = NoJid

\* Only updated_locally puts rows on the queue.
LEMMA QueueShrinks ==
  ASSUME TypeInv, NEW d \in Clients, NEW c \in Clients
  PROVE  \/ Download(d) \/ UpHash(d) \/ SrvCheck(d) \/ SrvInsert(d) \/ UpNeeds(d) \/ UpSend(d)
         \/ Restart(d)
         => up'[c].queue \subseteq up[c].queue
<1>0. up \in [Clients -> UpState] /\ up[d] \in UpState
  BY DEF TypeInv, TypeOK
<1>1. ASSUME NEW r, up' = [up EXCEPT ![d] = r], r.queue \subseteq up[d].queue
      PROVE  up'[c].queue \subseteq up[c].queue
  BY <1>0, <1>1
<1>2. ASSUME RunEnds(d) PROVE up'[c].queue \subseteq up[c].queue
  <2>1. UpIdle.queue = {}
    BY DEF UpIdle
  <2> QED BY <1>1, <1>2, <2>1 DEF RunEnds
<1>3. ASSUME UNCHANGED up PROVE up'[c].queue \subseteq up[c].queue
  BY <1>3
<1>4. CASE Download(d)
  <2>1. CASE DlRemove(d)
    BY <1>2, <1>3, <2>1 DEF DlRemove
  <2>2. CASE DlRecord(d)
    BY <1>2, <1>3, <2>2 DEF DlRecord
  <2>3. CASE DlTombstone(d) \/ DlTruncate(d) \/ DlWrite(d)
    <3>1. UNCHANGED up
      BY <2>3, Zenon DEF DlTombstone, DlTruncate, DlWrite
    <3> QED BY <1>3, <3>1
  <2>4. CASE DlStart(d) \/ DlList(d) \/ DlFetch(d)
    <3>1. UNCHANGED up
      BY <2>4, Zenon DEF DlStart, DlList, DlFetch
    <3> QED BY <1>3, <3>1
  <2> QED BY <1>4, <2>1, <2>2, <2>3, <2>4, Zenon DEF Download
<1>5. CASE UpHash(d)
  <2>1. PICK f \in up[d].queue :
          IF f.deleted \/ OnDisk(d, f.path)
          THEN /\ up' = [up EXCEPT ![d].pc = "commit", ![d].row = {f},
                            ![d].data = IF f.deleted THEN Gone ELSE disk[d][f.path].data]
               /\ UNCHANGED dl
          ELSE RunEnds(d)
    BY <1>5, Zenon DEF UpHash
  <2>2. ASSUME NEW data, up' = [up EXCEPT ![d].pc = "commit", ![d].row = {f}, ![d].data = data]
        PROVE  up'[c].queue \subseteq up[c].queue
    BY <1>0, <2>2 DEF UpState
  <2>3. CASE f.deleted \/ OnDisk(d, f.path)
    BY <2>1, <2>2, <2>3
  <2> QED BY <1>2, <2>1, <2>3
<1>6. CASE SrvCheck(d) \/ SrvInsert(d)
  <2>1. PICK pc, jid : \/ up' = [up EXCEPT ![d].pc = pc]
                      \/ up' = [up EXCEPT ![d].pc = pc, ![d].jid = jid]
    <3>1. ASSUME NEW pc, up' = [up EXCEPT ![d].pc = pc]
          PROVE  \E q, jid : \/ up' = [up EXCEPT ![d].pc = q]
                             \/ up' = [up EXCEPT ![d].pc = q, ![d].jid = jid]
      BY <3>1, Zenon
    <3>2. ASSUME NEW pc, NEW jid, up' = [up EXCEPT ![d].pc = pc, ![d].jid = jid]
          PROVE  \E q, j : \/ up' = [up EXCEPT ![d].pc = q]
                           \/ up' = [up EXCEPT ![d].pc = q, ![d].jid = j]
      BY <3>2, Zenon
    <3>3. CASE SrvCheck(d)
      <4>1. \/ up' = [up EXCEPT ![d].pc = "need"]
            \/ up' = [up EXCEPT ![d].pc = "insert"]
            \/ \E jid : up' = [up EXCEPT ![d].pc = "reply", ![d].jid = jid]
        BY <3>3, Zenon DEF SrvCheck
      <4> QED BY <3>1, <3>2, <4>1, Zenon
    <3>4. CASE SrvInsert(d)
      <4>1. \E jid : up' = [up EXCEPT ![d].pc = "reply", ![d].jid = jid]
        BY <3>4, Zenon DEF SrvInsert
      <4> QED BY <3>2, <4>1, Zenon
    <3> QED BY <1>6, <3>3, <3>4
  <2>2. CASE up' = [up EXCEPT ![d].pc = pc]
    BY <1>0, <2>2 DEF UpState
  <2>3. CASE up' = [up EXCEPT ![d].pc = pc, ![d].jid = jid]
    BY <1>0, <2>3 DEF UpState
  <2> QED BY <2>1, <2>2, <2>3
<1>7. CASE UpNeeds(d)
  <2>1. PICK f, send : NextRow(d, f, send)
    BY <1>7 DEF UpNeeds
  <2>2. UpIdle.queue = {}
    BY DEF UpIdle
  <2>3. [UpIdle EXCEPT !.pc = "next", !.queue = up[d].queue \ {f}, !.send = send].queue = up[d].queue \ {f}
    BY DEF UpIdle
  <2> QED BY <1>1, <2>1, <2>2, <2>3 DEF NextRow
<1>8. CASE UpSend(d)
  <2>1. PICK send : \/ up' = [up EXCEPT ![d] = UpIdle]
                    \/ up' = [up EXCEPT ![d] = [up[d] EXCEPT !.send = send]]
    BY <1>8 DEF UpSend
  <2>2. UpIdle.queue = {} /\ [up[d] EXCEPT !.send = send].queue = up[d].queue
    BY <1>0 DEF UpIdle, UpState
  <2> QED BY <1>1, <2>1, <2>2
<1>9. CASE Restart(d)
  BY <1>2, <1>9 DEF Restart
<1> QED BY <1>4, <1>5, <1>6, <1>7, <1>8, <1>9

LEMMA FillingSteps ==
  ASSUME TypeInv, PendingInv, [Next]_vars, NEW c \in Clients
  PROVE  Filling(c)
<1>0. Editors \subseteq Clients /\ Unreliable \subseteq Clients /\ Writers \subseteq Clients
  BY SyncAssumption
<1>1. ASSUME Superseding(c), up'[c].queue \subseteq up[c].queue PROVE Filling(c)
  <2>1. \A p \in Paths : reg[c].row[p].id \in HeldIds(c, p)
    BY DEF HeldIds
  <2> QED BY <1>1, <2>1, PendingSuperseded DEF Filling, Superseding, PendingInv
<1>2. ASSUME UNCHANGED reg, up'[c].queue \subseteq up[c].queue PROVE Filling(c)
  BY <1>1, <1>2 DEF Superseding
<1>3. ASSUME NEW d \in Clients, Index(d) \/ Download(d) PROVE Filling(c)
  <2>1. up'[c].queue \subseteq up[c].queue
    BY <1>3, QueueShrinks DEF Index
  <2> QED BY <1>1, <1>3, <2>1, Supersede
<1>4. ASSUME NEW d \in Clients, User(d) \/ Restart(d) PROVE Filling(c)
  <2>1. up'[c].queue \subseteq up[c].queue
    BY <1>4, QueueShrinks DEF User, Edit, Delete
  <2> QED BY <1>2, <1>4, <2>1 DEF User, Edit, Delete, Restart
<1>5. ASSUME NEW d \in Clients, UpStart(d) PROVE Filling(c)
  <2>1. /\ UNCHANGED reg
        /\ up' = [up EXCEPT ![d].pc = "next", ![d].queue =
             {[path |-> p, id |-> reg[d].row[p].id, deleted |-> reg[d].row[p].deleted] :
                p \in UpdatedLocally(reg[d])}]
    BY <1>5 DEF UpStart
  <2>2. CASE c = d
    <3>1. \A f \in up'[c].queue : reg[c].row[f.path].jid = NoJid
      BY <2>1, <2>2 DEF UpdatedLocally, TypeInv, TypeOK, UpState
    <3> QED BY <2>1, <3>1 DEF Filling, PendingOK
  <2>3. CASE c # d
    BY <1>2, <2>1, <2>3 DEF TypeInv, TypeOK
  <2> QED BY <2>2, <2>3
<1>6. ASSUME NEW d \in Clients, UpCommitted(d) PROVE Filling(c)
  <2>1. CASE c = d
    BY <1>6, <2>1, PendingCommitted DEF Filling, PendingInv
  <2>2. CASE c # d
    BY <1>1, <1>6, <2>2, PendingCommitted DEF Superseding, PendingInv
  <2> QED BY <2>1, <2>2
<1>7. ASSUME NEW d \in Clients, UpHash(d) \/ SrvCheck(d) \/ SrvInsert(d) \/ UpNeeds(d) \/ UpSend(d)
      PROVE  Filling(c)
  <2>1. UNCHANGED reg
    BY <1>7, Zenon DEF UpHash, SrvCheck, SrvInsert, UpNeeds, UpSend
  <2>2. up'[c].queue \subseteq up[c].queue
    BY <1>7, QueueShrinks
  <2> QED BY <1>2, <2>1, <2>2
<1>8. ASSUME NEW o \in orphan, OrphanCheck(o) \/ OrphanInsert(o) PROVE Filling(c)
  BY <1>2, <1>8 DEF OrphanCheck, OrphanInsert
<1>9. CASE UNCHANGED vars
  BY <1>2, <1>9 DEF vars
<1> QED BY <1>0, <1>3, <1>4, <1>5, <1>6, <1>7, <1>8, <1>9 DEF Next, Upload

\* What the upload loop has still to commit has no jid.
LEMMA PendingStays == Spec => [](TypeInv /\ PendingInv)
<1>1. Init => PendingInv
  BY DEF Init, PendingInv, PendingOK, UpIdle
<1>2. TypeInv /\ PendingInv /\ [Next]_vars => PendingInv'
  BY FillingSteps DEF PendingInv, Filling
<1> QED BY <1>1, <1>2, TypeCorrect, PTL DEF Spec

\* A jid is put on a row that has none and is the row that was committed, and
\* stays on it: that is what module Registry has as the guard of SyncerCommit
\* (update_jid, registry.rs:23; check_upload_once, syncer.rs:220).
THEOREM JidsStay == Spec => JidsAreFinal
<1>1. TypeInv /\ PendingInv /\ [Next]_vars =>
        \A c \in Clients, p \in Paths :
          LET old == reg[c].row[p]
              new == reg'[c].row[p]
          IN  old.jid # NoJid /\ new.id = old.id => new = old
  BY FillingSteps DEF Filling
<1> QED BY <1>1, PendingStays, PTL DEF Spec, JidsAreFinal
=============================================================================
