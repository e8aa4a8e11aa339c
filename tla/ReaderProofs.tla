---------------------------- MODULE ReaderProofs ----------------------------
(***************************************************************************)
(* What module SyncSystem promises to a client of its own folder: that a   *)
(* row which vouches for a file tells the truth, that a client which does  *)
(* not upload never goes back, and, from both, that a client which only    *)
(* reads has on its disk whatever its cursor has passed, and the server's  *)
(* folder when nothing is left to fetch.  Without crashes such a client    *)
(* has nothing but whole files of records.  The last part shows that each  *)
(* registry moves as module RegistryView says.                             *)
(*                                                                         *)
(* The invariants are about one client each.  What other clients do        *)
(* leaves a client alone but for the journal, which grows at its end, so   *)
(* the proofs go through the steps of the client itself.                   *)
(***************************************************************************)
EXTENDS SyncProofs

\* Nothing of client d changes.
SameClient(d) ==
  /\ disk'[d] = disk[d] /\ reg'[d] = reg[d] /\ dl'[d] = dl[d] /\ up'[d] = up[d]
  /\ answered'[d] = answered[d]

\* Nothing of the journal is lost.
JournalKept ==
  /\ DOMAIN journal \subseteq DOMAIN journal'
  /\ \A i \in DOMAIN journal : journal'[i] = journal[i]

OwnStep(c) == User(c) \/ Index(c) \/ Download(c) \/ Upload(c) \/ Restart(c)

\* A record is added at most, and it has the account as its user.
LEMMA JournalStep ==
  ASSUME TypeInv, [Next]_vars
  PROVE  /\ journal' = journal \/ \E e \in Entry : journal' = Append(journal, e)
         /\ restarts \in Nat /\ restarts' \in Nat /\ restarts' >= restarts
<1>1. ASSUME NEW c \in Clients, Upload(c)
      PROVE  journal' = journal \/ \E e \in Entry : journal' = Append(journal, e)
  BY <1>1, CommittedEntry
     DEF Upload, UpStart, UpHash, SrvCheck, SrvInsert, UpCommitted, UpNeeds, UpSend, serverVars
<1>2. ASSUME NEW o \in orphan, OrphanCheck(o) \/ OrphanInsert(o)
      PROVE  journal' = journal \/ \E e \in Entry : journal' = Append(journal, e)
  <2>1. o.entry \in Entry
    BY DEF TypeInv, TypeOK
  <2> QED BY <1>2, <2>1, Zenon DEF OrphanCheck, OrphanInsert
<1>3. ASSUME NEW c, User(c) \/ Index(c) \/ Download(c) \/ Restart(c)
      PROVE  journal' = journal
  BY <1>3, Zenon
     DEF User, Edit, Delete, Index, Download, DlStart, DlList, DlFetch, DlTombstone, DlRemove,
         DlTruncate, DlWrite, DlRecord, Restart, serverVars
<1>4. journal' = journal \/ \E e \in Entry : journal' = Append(journal, e)
  <2>1. Writers \subseteq Clients
    BY SyncAssumption
  <2> QED BY <1>1, <1>2, <1>3, <2>1 DEF Next, vars, serverVars
<1>5. restarts \in Nat
  BY DEF TypeInv, TypeOK
<1>6. restarts' = restarts \/ restarts' = restarts + 1
  BY ZenonT(60)
     DEF Next, vars, counters, User, Edit, Delete, Index, Download, DlStart, DlList, DlFetch,
         DlTombstone, DlRemove, DlTruncate, DlWrite, DlRecord, Upload, UpStart, UpHash, SrvCheck,
         SrvInsert, UpCommitted, UpNeeds, UpSend, Restart, OrphanCheck, OrphanInsert
<1>7. restarts' \in Nat /\ restarts' >= restarts
  BY <1>5, <1>6
<1> QED BY <1>4, <1>5, <1>7, Zenon

\* What the clients rely on in a journal that grows.
LEMMA JournalGrows ==
  ASSUME TypeInv, [Next]_vars
  PROVE  /\ JournalKept
         /\ \A i \in DOMAIN journal : i \in Latest(journal', Account) => i \in Latest(journal, Account)
<1>1. CASE journal' = journal
  BY <1>1 DEF JournalKept
<1>2. ASSUME NEW e \in Entry, journal' = Append(journal, e)
      PROVE  /\ JournalKept
             /\ \A i \in DOMAIN journal :
                  i \in Latest(journal', Account) => i \in Latest(journal, Account)
  BY <1>2, Grows DEF JournalKept, Latest
<1> QED BY <1>1, <1>2, JournalStep

\* A client is left alone by the steps of all others.
LEMMA OthersAlone ==
  ASSUME TypeInv, NEW c \in Clients, NEW d \in Clients, d # c, OwnStep(c)
  PROVE  SameClient(d)
<1> USE DEF SameClient, TypeInv, TypeOK
<1>1. CASE User(c)
  BY <1>1 DEF User, Edit, Delete, Written, Removed
<1>2. CASE Index(c)
  BY <1>2 DEF Index, counters
<1>3. CASE Download(c)
  <2>1. /\ disk' = disk \/ \E p, data : disk' = Written(c, p, data) \/ disk' = Removed(c, p)
        /\ reg' = reg \/ \E i, deleted, stamp : reg' = Recorded(c, i, deleted, stamp)
        /\ answered' = answered
    BY <1>3 DEF Download, DlStart, DlList, DlFetch, DlTombstone, DlRemove, DlTruncate, DlWrite,
                DlRecord, counters
  <2>2. dl'[d] = dl[d] /\ up'[d] = up[d]
    BY <1>3, RunEndsPc, AdvancePc
       DEF Download, DlStart, DlList, DlFetch, DlTombstone, DlRemove, DlTruncate, DlWrite, DlRecord
  <2> QED BY <2>1, <2>2, RecordedCursor DEF Written, Removed
<1>4. CASE Upload(c)
  <2>1. up'[d] = up[d] /\ dl'[d] = dl[d]
    BY <1>4, RunEndsPc DEF Upload, UpStart, UpHash, SrvCheck, SrvInsert, UpCommitted, UpNeeds, UpSend,
                           NextRow
  <2>2. disk' = disk /\ reg'[d] = reg[d] /\ answered'[d] = answered[d]
    BY <1>4 DEF Upload, UpStart, UpHash, SrvCheck, SrvInsert, UpCommitted, UpNeeds, UpSend, counters
  <2> QED BY <2>1, <2>2
<1>5. CASE Restart(c)
  BY <1>5, RunEndsPc DEF Restart
<1> QED BY <1>1, <1>2, <1>3, <1>4, <1>5 DEF OwnStep

\* What a client can live through in one step.
LEMMA ClientSteps ==
  ASSUME TypeInv, [Next]_vars, NEW d \in Clients
  PROVE  \/ SameClient(d) \/ Index(d) \/ Download(d) \/ Restart(d)
         \/ d \in Editors /\ User(d)
         \/ d \in Writers /\ Upload(d)
<1>1. Editors \subseteq Clients /\ Unreliable \subseteq Clients /\ Writers \subseteq Clients
  BY SyncAssumption
<1>2. ASSUME NEW o \in orphan, OrphanCheck(o) \/ OrphanInsert(o) PROVE SameClient(d)
  BY <1>2 DEF OrphanCheck, OrphanInsert, counters, SameClient
<1>3. UNCHANGED vars => SameClient(d)
  BY DEF vars, counters, SameClient
<1>4. \A c \in Clients : c # d /\ OwnStep(c) => SameClient(d)
  BY OthersAlone
<1> QED BY <1>1, <1>2, <1>3, <1>4 DEF Next, OwnStep

----------------------------------------------------------------------------
(* A client that does not upload.                                          *)

\* RecordedRow for one client, and all of its rows.
LEMMA RecordedAt ==
  ASSUME TypeInv, NEW c \in Clients, NEW i \in DOMAIN journal, NEW deleted, NEW stamp,
         reg' = Recorded(c, i, deleted, stamp), NEW p \in Paths, p = journal[i].path
  PROVE  /\ reg'[c].row[p].jid = i /\ reg'[c].row[p].deleted = deleted
         /\ \A q \in Paths : q # p => reg'[c].row[q] = reg[c].row[q]
<1>1. ASSUME NEW q \in Paths
      PROVE  /\ q # journal[i].path => reg'[c].row[q] = reg[c].row[q]
             /\ reg'[c].row[journal[i].path].jid = i
             /\ reg'[c].row[journal[i].path].deleted = deleted
  BY RecordedRow
<1> QED BY <1>1

\* What it has recorded is older than what is on its list, path by path: the
\* list was asked for from its cursor, and is the newest record of each path.
OrderOK(c) ==
  /\ up[c].pc = "idle" /\ answered[c] = 0
  /\ \A k \in reg[c].jids : k \in DOMAIN journal /\ k <= reg[c].cursor
  /\ \A p \in Paths : reg[c].row[p].jid # NoJid => reg[c].row[p].jid \in reg[c].jids
  /\ dl[c].pc = "list" => reg[c].cursor <= dl[c].since
  /\ \A i, j \in dl[c].todo : journal[i].path = journal[j].path => i = j
  /\ \A i \in dl[c].todo, k \in reg[c].jids :
       journal[k].path = journal[i].path =>
         k < i \/ (dl[c].pc = "remove" /\ dl[c].item = i /\ k = i)

OrderInv == \A c \in Clients \ Writers : OrderOK(c)

\* A client that has done nothing has recorded nothing.
LEMMA OrderInit == Init => OrderInv
BY DEF Init, OrderInv, OrderOK, EmptyView, NoRow, DlIdle, UpIdle

\* A client whose registry forgets no jid, and whose list is not replaced.
LEMMA OrderSame ==
  ASSUME TypeInv, [Next]_vars, NEW c \in Clients, OrderOK(c),
         up'[c].pc = "idle", answered'[c] = answered[c],
         reg'[c].jids = reg[c].jids, reg'[c].cursor = reg[c].cursor,
         \A p \in Paths : reg'[c].row[p].jid \in {reg[c].row[p].jid, NoJid},
         dl'[c].todo \subseteq dl[c].todo,
         \A i \in dl'[c].todo :
           dl[c].pc = "remove" /\ dl[c].item = i => dl'[c].pc = "remove" /\ dl'[c].item = i,
         dl'[c].pc = "list" => reg[c].cursor <= dl'[c].since
  PROVE  OrderOK(c)'
<1>1. /\ \A i \in dl[c].todo \cup reg[c].jids : i \in DOMAIN journal' /\ journal'[i] = journal[i]
  BY JournalGrows, ListedRecord DEF JournalKept, OrderOK
<1> QED BY <1>1 DEF OrderOK

\* The client notes record i of its list.
LEMMA OrderRecorded ==
  ASSUME TypeInv, NEW c \in Clients, OrderOK(c), NEW i \in dl[c].todo,
         dl[c].pc \in {"apply", "record"}, UNCHANGED <<journal, up, answered>>,
         NEW deleted, NEW stamp, reg' = Recorded(c, i, deleted, stamp),
         \/ dl'[c].pc = "remove" /\ dl'[c].item = i /\ dl'[c].todo = dl[c].todo
         \/ dl'[c].pc \in {"idle", "apply"} /\ dl'[c].todo = dl[c].todo \ {i}
  PROVE  OrderOK(c)'
<1>1. i \in DOMAIN journal /\ i \in Nat /\ journal[i].path \in Paths /\ DOMAIN journal \subseteq Nat
  BY ListedRecord DEF TypeInv, TypeOK
<1>2. /\ reg'[c].jids = reg[c].jids \cup {i} /\ reg'[c].cursor = Later(reg[c].cursor, i)
      /\ \A p \in Paths : reg'[c].row[p].jid = IF p = journal[i].path THEN i ELSE reg[c].row[p].jid
  BY <1>1, RecordedCursor, RecordedRow
<1>3. \A k \in reg'[c].jids : k \in DOMAIN journal /\ k <= reg'[c].cursor
  <2>1. reg[c].cursor \in Nat
    BY DEF TypeInv, TypeOK, View
  <2> QED BY <1>1, <1>2, <2>1 DEF OrderOK, Later
<1>4. ASSUME NEW j \in dl'[c].todo, NEW k \in reg'[c].jids, journal[k].path = journal[j].path
      PROVE  k < j \/ (dl'[c].pc = "remove" /\ dl'[c].item = j /\ k = j)
  <2>1. j \in dl[c].todo
    OBVIOUS
  <2>2. CASE k = i
    <3>1. j = i
      BY <1>4, <2>1, <2>2 DEF OrderOK
    <3> QED BY <2>2, <3>1
  <2>3. CASE k # i
    BY <1>2, <1>4, <2>1, <2>3 DEF OrderOK
  <2> QED BY <2>2, <2>3
<1>5. \A p \in Paths : reg'[c].row[p].jid # NoJid => reg'[c].row[p].jid \in reg'[c].jids
  BY <1>2 DEF OrderOK
<1>6. /\ up'[c].pc = "idle" /\ answered'[c] = 0 /\ journal' = journal
      /\ dl'[c].pc # "list" /\ dl'[c].todo \subseteq dl[c].todo
  BY DEF OrderOK
<1>7. \A j, k \in dl'[c].todo : journal[j].path = journal[k].path => j = k
  BY <1>6 DEF OrderOK
<1> QED BY <1>3, <1>4, <1>5, <1>6, <1>7 DEF OrderOK

\* What the indexer does to a client's jids: nothing.
LEMMA IndexJids ==
  ASSUME TypeInv, NEW c \in Clients, Index(c)
  PROVE  /\ reg'[c].jids = reg[c].jids /\ reg'[c].cursor = reg[c].cursor
         /\ \A p \in Paths :
              \/ reg'[c].row[p] = reg[c].row[p]
              \/ /\ reg'[c].row[p].jid = NoJid /\ reg'[c].row[p].id = NextIds(c)[p]
                 /\ \/ reg'[c].row[p].deleted
                    \/ reg'[c].row[p].stamp = disk[c][p].stamp
<1>1. reg'[c] = InsertLocal(reg[c], LocalForms(c), NextIds(c))
  BY DEF Index, TypeInv, TypeOK
<1>2. /\ reg'[c].jids = reg[c].jids /\ reg'[c].cursor = reg[c].cursor
      /\ \A p \in Paths : reg'[c].row[p] = IF p \in DOMAIN LocalForms(c)
                                           THEN RowOf(NextIds(c)[p], LocalForms(c)[p])
                                           ELSE reg[c].row[p]
  BY <1>1 DEF InsertLocal, TypeInv, TypeOK, View
<1>3. ASSUME NEW p \in DOMAIN LocalForms(c)
      PROVE  /\ LocalForms(c)[p].jid = NoJid
             /\ LocalForms(c)[p].deleted \/ LocalForms(c)[p].stamp = disk[c][p].stamp
  BY DEF LocalForms
<1>4. ASSUME NEW p \in Paths, p \in DOMAIN LocalForms(c)
      PROVE  /\ reg'[c].row[p].jid = NoJid /\ reg'[c].row[p].id = NextIds(c)[p]
             /\ reg'[c].row[p].deleted \/ reg'[c].row[p].stamp = disk[c][p].stamp
  <2>1. reg'[c].row[p] = RowOf(NextIds(c)[p], LocalForms(c)[p])
    BY <1>2, <1>4
  <2> QED BY <1>3, <1>4, <2>1 DEF RowOf
<1> QED BY <1>2, <1>4

\* A download of a client that does not upload.
LEMMA OrderDownload ==
  ASSUME TypeInv, [Next]_vars, NEW c \in Clients, OrderOK(c), Download(c)
  PROVE  OrderOK(c)'
<1>1. /\ UNCHANGED <<journal, answered>>
      /\ dl \in [Clients -> DlState] /\ reg[c].cursor \in Nat
  BY DEF Download, DlStart, DlList, DlFetch, DlTombstone, DlRemove, DlTruncate, DlWrite,
         DlRecord, serverVars, counters, TypeInv, TypeOK, View
<1>2. up' = up \/ up'[c] = UpIdle
  BY RunEndsPc DEF Download, DlStart, DlList, DlFetch, DlTombstone, DlRemove, DlTruncate, DlWrite, DlRecord
<1>3. up'[c].pc = "idle"
  BY <1>2 DEF OrderOK, UpIdle
<1>4. CASE DlStart(c)
  <2>1. /\ dl'[c].pc = "list" /\ dl'[c].since = reg[c].cursor /\ dl'[c].todo = dl[c].todo
        /\ dl[c].pc = "idle" /\ reg' = reg
    BY <1>1, <1>4 DEF DlStart, LatestJid, DlState
  <2>2. reg[c].cursor <= dl'[c].since
    BY <1>1, <2>1
  <2> QED BY <1>1, <1>3, <2>1, <2>2, OrderSame
<1>5. CASE DlList(c)
  <2> DEFINE todo == ListSince(journal, Account, dl[c].since)
  <2>1. /\ dl[c].pc = "list" /\ dl[c].since \in Nat /\ UNCHANGED <<reg, up>>
        /\ dl'[c] = DlIdle \/ (dl'[c].pc = "fetch" /\ dl'[c].todo = todo)
    BY <1>1, <1>5 DEF DlList, DlIdle, DlState
  <2>2. /\ \A i, j \in todo : journal[i].path = journal[j].path => i = j
        /\ \A i \in todo : i \in Nat /\ i > dl[c].since
    BY DEF ListSince, Latest, TypeInv, TypeOK
  <2>3. \A i \in todo, k \in reg[c].jids : k < i
    <3>1. \A k \in reg[c].jids : k \in Nat /\ k <= dl[c].since
      BY <1>1, <2>1 DEF OrderOK, TypeInv, TypeOK
    <3> QED BY <2>1, <2>2, <3>1
  <2>4. CASE dl'[c] = DlIdle
    BY <1>1, <1>3, <2>1, <2>4, OrderSame DEF DlIdle
  <2>5. CASE dl'[c].pc = "fetch" /\ dl'[c].todo = todo
    <3> HIDE DEF todo
    <3> QED BY <1>1, <1>3, <2>1, <2>2, <2>3, <2>5 DEF OrderOK
  <2> QED BY <2>1, <2>4, <2>5
<1>6. CASE DlFetch(c) \/ DlTruncate(c) \/ DlWrite(c)
  <2>1. /\ dl[c].pc # "remove" /\ dl'[c].pc # "list" /\ dl'[c].todo = dl[c].todo /\ reg' = reg
    BY <1>1, <1>6 DEF DlFetch, DlTruncate, DlWrite, DlState
  <2> QED BY <1>1, <1>3, <2>1, OrderSame
<1>7. CASE DlRemove(c)
  <2>1. dl[c].pc = "remove" /\ reg' = reg /\ (Advance(c, dl[c].item) \/ RunEnds(c))
    BY <1>7 DEF DlRemove
  <2>2. /\ dl'[c].todo \subseteq dl[c].todo \ {dl[c].item} /\ dl'[c].pc # "list"
    BY <2>1, AdvanceTodo, RunEndsPc DEF DlIdle
  <2>3. \A j \in dl'[c].todo : dl[c].item # j
    BY <2>2
  <2>4. dl'[c].todo \subseteq dl[c].todo /\ answered'[c] = answered[c]
    BY <1>1, <2>2
  <2> QED BY <1>3, <2>1, <2>2, <2>3, <2>4, OrderSame
<1>8. CASE DlTombstone(c)
  <2>1. PICK i \in dl[c].todo :
          /\ dl[c].pc = "apply" /\ reg' = Recorded(c, i, TRUE, 0) /\ up' = up
          /\ \/ dl' = [dl EXCEPT ![c].pc = "remove", ![c].item = i]
             \/ Advance(c, i)
    BY <1>8 DEF DlTombstone
  <2>2. \/ dl'[c].pc = "remove" /\ dl'[c].item = i /\ dl'[c].todo = dl[c].todo
        \/ dl'[c].pc \in {"idle", "apply"} /\ dl'[c].todo = dl[c].todo \ {i}
    <3>1. CASE dl' = [dl EXCEPT ![c].pc = "remove", ![c].item = i]
      BY <1>1, <3>1 DEF DlState
    <3>2. CASE Advance(c, i)
      BY <3>2, AdvanceTodo
    <3> QED BY <2>1, <3>1, <3>2
  <2> QED BY <1>1, <2>1, <2>2, OrderRecorded
<1>9. CASE DlRecord(c)
  <2> DEFINE i == dl[c].item
  <2>1. dl[c].pc = "record" /\ i \in dl[c].todo
    BY <1>9 DEF DlRecord, TypeInv, TodoOK
  <2>2. CASE reg' = reg /\ RunEnds(c)
    <3>1. dl'[c].todo = {} /\ dl'[c].pc = "idle"
      BY <2>2, RunEndsPc DEF DlIdle
    <3> QED BY <1>1, <1>3, <2>2, <3>1, OrderSame
  <2>3. CASE reg' = Recorded(c, i, FALSE, disk[c][journal[i].path].stamp) /\ Advance(c, i) /\ up' = up
    <3>1. dl'[c].pc \in {"idle", "apply"} /\ dl'[c].todo = dl[c].todo \ {i}
      BY <2>3, AdvanceTodo
    <3> QED BY <1>1, <2>1, <2>3, <3>1, OrderRecorded
  <2> QED BY <1>9, <2>2, <2>3 DEF DlRecord
<1> QED BY <1>4, <1>5, <1>6, <1>7, <1>8, <1>9 DEF Download

\* Whatever others do, what such a client has recorded stays older than its list.
LEMMA OrderStep == TypeInv /\ OrderInv /\ [Next]_vars => OrderInv'
<1> SUFFICES ASSUME TypeInv, OrderInv, [Next]_vars, NEW c \in Clients \ Writers
             PROVE  OrderOK(c)'
  BY DEF OrderInv
<1>1. OrderOK(c) /\ c \in Clients
  BY DEF OrderInv
<1>2. CASE SameClient(c)
  BY <1>1, <1>2, OrderSame DEF SameClient, OrderOK
<1>3. CASE Index(c)
  <2>1. UNCHANGED <<up, dl, answered>>
    BY <1>3 DEF Index, counters
  <2> QED BY <1>1, <1>3, <2>1, IndexJids, OrderSame DEF OrderOK
<1>4. CASE Restart(c)
  <2>1. reg' = reg /\ answered' = answered /\ dl'[c] = DlIdle /\ up'[c] = UpIdle
    BY <1>1, <1>4, RunEndsPc DEF Restart
  <2> QED BY <1>1, <2>1, OrderSame DEF DlIdle, UpIdle
<1>5. CASE User(c)
  <2>1. UNCHANGED <<reg, up, dl, answered>>
    BY <1>5 DEF User, Edit, Delete
  <2> QED BY <1>1, <2>1, OrderSame DEF OrderOK
<1>6. CASE Download(c)
  BY <1>1, <1>6, OrderDownload
<1> QED BY <1>1, <1>2, <1>3, <1>4, <1>5, <1>6, ClientSteps

\* A row that gets a jid gets a later one than it had.
LEMMA NeverBack ==
  ASSUME TypeInv, RowsInv, OrderInv, [Next]_vars, NEW c \in Clients \ Writers, NEW p \in Paths,
         reg'[c].row[p].jid # NoJid
  PROVE  reg'[c].row[p].jid >= reg[c].row[p].jid
<1>0. OrderOK(c) /\ c \in Clients /\ reg[c].row[p].jid \in Nat
  BY DEF OrderInv, TypeInv, TypeOK, View, Row
<1>1. CASE reg'[c].row[p].jid = reg[c].row[p].jid
  BY <1>0, <1>1
<1>2. CASE SameClient(c) \/ User(c) \/ Restart(c)
  <2>1. reg'[c] = reg[c]
    BY <1>2 DEF SameClient, User, Edit, Delete, Restart
  <2> QED BY <1>1, <2>1
<1>3. CASE Index(c)
  BY <1>0, <1>1, <1>3, IndexJids
<1>4. CASE Download(c)
  <2>1. CASE reg' = reg
    BY <1>1, <2>1
  <2>2. CASE reg' # reg
    <3>1. PICK i \in dl[c].todo : \E deleted, stamp : reg' = Recorded(c, i, deleted, stamp)
      BY <1>4, <2>2 DEF Download, DlStart, DlList, DlFetch, DlTombstone, DlRemove, DlTruncate,
                        DlWrite, DlRecord, TypeInv, TodoOK
    <3>2. i \in DOMAIN journal /\ i \in Nat
      BY ListedRecord
    <3>3. CASE p = journal[i].path
      <4>1. reg'[c].row[p].jid = i
        BY <1>0, <3>1, <3>2, <3>3, RecordedAt
      <4>2. CASE reg[c].row[p].jid = NoJid
        BY <3>2, <4>1, <4>2 DEF NoJid
      <4>3. CASE reg[c].row[p].jid # NoJid
        <5>1. reg[c].row[p].jid \in reg[c].jids /\ journal[reg[c].row[p].jid].path = p
          BY <1>0, <4>3 DEF OrderOK, RowsInv, RowsNameRecords
        <5>2. reg[c].row[p].jid < i \/ reg[c].row[p].jid = i
          BY <1>0, <3>3, <5>1 DEF OrderOK
        <5> QED BY <1>0, <3>2, <4>1, <5>2
      <4> QED BY <4>2, <4>3
    <3>4. CASE p # journal[i].path
      <4>1. reg'[c].row[p] = reg[c].row[p]
        BY <1>0, <3>1, <3>2, <3>4, RecordedRow
      <4> QED BY <1>1, <4>1
    <3> QED BY <3>3, <3>4
  <2> QED BY <2>1, <2>2
<1> QED BY <1>0, <1>2, <1>3, <1>4, ClientSteps

\* What a client that does not upload has recorded for a path never goes back
\* to an older record, in whatever order the database answers list, whatever
\* the other clients commit and wherever its run ends (ReadersNeverGoBack).
THEOREM NeverGoesBack == Spec => ReadersNeverGoBack
<1>1. TypeInv /\ RowsInv /\ OrderInv /\ [Next]_vars =>
        \A c \in Clients \ Writers, p \in Paths :
          reg'[c].row[p].jid # NoJid => reg'[c].row[p].jid >= reg[c].row[p].jid
  BY NeverBack
<1>2. TypeInv /\ RowsInv /\ OrderInv /\ [Next]_vars =>
        [\A c \in Clients \ Writers, p \in Paths :
           LET old == reg[c].row[p].jid
               new == reg'[c].row[p].jid
           IN  new # NoJid => new >= old]_vars
  BY <1>1
<1> QED BY <1>2, OrderInit, OrderStep, RowsAreKept, PTL DEF Spec, ReadersNeverGoBack

----------------------------------------------------------------------------
(* A client whose user changes no file.                                    *)

\* A row that agrees with a file vouches for the content of the file, if there
\* is one.
Vouches(row, file, data) ==
  ~ row.deleted /\ row.stamp = file.stamp => file.data \in {data, Gone}

RowVouches(c, p) ==
  LET row == reg[c].row[p]
  IN  row.jid # NoJid => Vouches(row, disk[c][p], journal[row.jid].chunks)

\* The file of a record is torn before it is written, and has the record's
\* content until its row is made.
SaveUnderWay(c) ==
  /\ dl[c].pc = "write" => disk[c][journal[dl[c].item].path].data = Torn
  /\ dl[c].pc = "record" =>
       disk[c][journal[dl[c].item].path].data = journal[dl[c].item].chunks

OneLoopAtAFile(c) ==
  up[c].pc \in {"commit", "insert", "need", "reply"} =>
    dl[c].pc \notin {"write", "record", "remove"}

\* What was hashed for a row is what the row vouches for.
CommitVouches(c) ==
  up[c].pc \in {"commit", "insert", "reply"} =>
    \A f \in up[c].row :
      LET row == reg[c].row[f.path]
      IN  row.id = f.id => Vouches(row, disk[c][f.path], up[c].data)

AnswerHasContent(c) ==
  up[c].pc = "reply" => \A f \in up[c].row : journal[up[c].jid].chunks = up[c].data

\* A save is seen through by nobody else, the loops keep out of each other's
\* way, and what is committed is what the disk has, until the indexer says
\* otherwise.
VouchOK(c) ==
  /\ \A p \in Paths : RowVouches(c, p)
  /\ SaveUnderWay(c)
  /\ OneLoopAtAFile(c)
  /\ CommitVouches(c)
  /\ AnswerHasContent(c)

VouchInv == \A c \in Clients \ Editors : VouchOK(c)

\* An empty registry vouches for nothing.
LEMMA VouchInit == Init => VouchInv
<1> SUFFICES ASSUME Init, NEW c \in Clients PROVE VouchOK(c)
  BY DEF VouchInv
<1>1. /\ \A p \in Paths : reg[c].row[p].jid = NoJid
      /\ dl[c].pc = "idle" /\ up[c].pc = "idle"
  BY DEF Init, EmptyView, NoRow, DlIdle, UpIdle
<1> QED BY <1>1 DEF VouchOK, RowVouches, SaveUnderWay, OneLoopAtAFile, CommitVouches, AnswerHasContent

\* The records VouchOK is about stay what they are.
LEMMA VouchJournal ==
  ASSUME TypeInv, RowsInv, [Next]_vars, NEW c \in Clients
  PROVE  /\ \A p \in Paths : reg[c].row[p].jid # NoJid =>
              journal'[reg[c].row[p].jid] = journal[reg[c].row[p].jid]
         /\ dl[c].pc \in {"write", "record", "remove"} =>
              /\ journal'[dl[c].item] = journal[dl[c].item]
              /\ dl[c].item \in DOMAIN journal /\ journal[dl[c].item].path \in Paths
         /\ up[c].pc = "reply" =>
              \A f \in up[c].row : journal'[up[c].jid] = journal[up[c].jid]
<1>1. \A i \in DOMAIN journal : journal'[i] = journal[i]
  BY JournalGrows DEF JournalKept
<1>2. dl[c].pc \in {"write", "record", "remove"} =>
        dl[c].item \in DOMAIN journal /\ journal[dl[c].item].path \in Paths
  <2>1. dl[c].pc \in {"write", "record", "remove"} => dl[c].item \in dl[c].todo
    BY DEF TypeInv, TodoOK
  <2> QED BY <2>1, ListedRecord
<1>3. \A p \in Paths : reg[c].row[p].jid # NoJid => reg[c].row[p].jid \in DOMAIN journal
  BY DEF RowsInv, RowsNameRecords
<1>4. up[c].pc = "reply" => \A f \in up[c].row : up[c].jid \in DOMAIN journal
  BY DEF RowsInv
<1> QED BY <1>1, <1>2, <1>3, <1>4

\* Steps that change neither the rows nor the files of the client.
LEMMA VouchSame ==
  ASSUME TypeInv, RowsInv, [Next]_vars, NEW c \in Clients, VouchOK(c),
         reg'[c].row = reg[c].row, disk'[c] = disk[c],
         dl'[c].pc \in {"write", "record", "remove"} => dl'[c] = dl[c],
         \/ up'[c] = up[c] /\ dl'[c].pc # "remove"
         \/ up'[c] = up[c] /\ dl'[c] = dl[c]
         \/ up'[c].pc \in {"idle", "next"}
  PROVE  VouchOK(c)'
<1>1. ASSUME NEW p \in Paths PROVE RowVouches(c, p)'
  <2>1. RowVouches(c, p)
    BY DEF VouchOK
  <2>2. reg[c].row[p].jid # NoJid => journal'[reg[c].row[p].jid] = journal[reg[c].row[p].jid]
    BY VouchJournal
  <2> QED BY <2>1, <2>2 DEF RowVouches
<1>2. SaveUnderWay(c)'
  <2>1. SaveUnderWay(c)
    BY DEF VouchOK
  <2>2. dl[c].pc \in {"write", "record", "remove"} => journal'[dl[c].item] = journal[dl[c].item]
    BY VouchJournal
  <2> QED BY <2>1, <2>2 DEF SaveUnderWay
<1>3. OneLoopAtAFile(c)'
  <2>1. OneLoopAtAFile(c)
    BY DEF VouchOK
  <2> QED BY <2>1 DEF OneLoopAtAFile
<1>4. CommitVouches(c)'
  <2>1. CommitVouches(c)
    BY DEF VouchOK
  <2> QED BY <2>1 DEF CommitVouches
<1>5. AnswerHasContent(c)'
  <2>1. AnswerHasContent(c)
    BY DEF VouchOK
  <2>2. up[c].pc = "reply" => \A f \in up[c].row : journal'[up[c].jid] = journal[up[c].jid]
    BY VouchJournal
  <2> QED BY <2>1, <2>2 DEF AnswerHasContent
<1> QED BY <1>1, <1>2, <1>3, <1>4, <1>5 DEF VouchOK

\* A run that ends leaves the rows and the files.
LEMMA VouchEnds ==
  ASSUME TypeInv, RowsInv, [Next]_vars, NEW c \in Clients, VouchOK(c), RunEnds(c),
         reg'[c].row = reg[c].row, disk'[c] = disk[c]
  PROVE  VouchOK(c)'
<1>1. dl'[c].pc = "idle" /\ up'[c].pc = "idle"
  BY RunEndsPc DEF DlIdle, UpIdle
<1> QED BY <1>1, VouchSame

\* The indexer vouches for no record.
LEMMA VouchIndex ==
  ASSUME TypeInv, RowsInv, NEW c \in Clients, VouchOK(c), Index(c)
  PROVE  VouchOK(c)'
<1>1. UNCHANGED <<journal, disk, dl, up>>
  BY DEF Index, serverVars
<1>2. \A p \in Paths : \/ reg'[c].row[p] = reg[c].row[p]
                       \/ reg'[c].row[p].jid = NoJid /\ reg'[c].row[p].id = NextIds(c)[p]
  BY IndexJids
<1>3. ASSUME NEW p \in Paths PROVE RowVouches(c, p)'
  <2>1. RowVouches(c, p)
    BY DEF VouchOK
  <2> QED BY <1>1, <1>2, <2>1 DEF RowVouches
<1>4. ASSUME NEW f \in up[c].row
      PROVE  reg'[c].row[f.path] = reg[c].row[f.path] \/ reg'[c].row[f.path].id # f.id
  <2>1. f \in up[c].queue /\ f.path \in Paths
    BY DEF TypeInv, TypeOK, QueueOK, UpState, Pending
  <2>2. NextIds(c)[f.path] # f.id
    BY <2>1, NextIdIsFree DEF HeldIds
  <2> QED BY <1>2, <2>1, <2>2
<1>5. CommitVouches(c)'
  <2>1. CommitVouches(c)
    BY DEF VouchOK
  <2> QED BY <1>1, <1>4, <2>1 DEF CommitVouches
<1>6. SaveUnderWay(c)' /\ OneLoopAtAFile(c)' /\ AnswerHasContent(c)'
  <2>1. SaveUnderWay(c) /\ OneLoopAtAFile(c) /\ AnswerHasContent(c)
    BY DEF VouchOK
  <2> QED BY <1>1, <2>1 DEF SaveUnderWay, OneLoopAtAFile, AnswerHasContent
<1> QED BY <1>3, <1>5, <1>6 DEF VouchOK

\* A file that is written gets a stamp its row does not have.
LEMMA WrittenStamp ==
  ASSUME TypeInv, NEW c \in Clients, NEW p \in Paths, NEW data, disk' = Written(c, p, data)
  PROVE  /\ disk'[c][p].data = data /\ disk'[c][p].stamp # reg[c].row[p].stamp
         /\ \A q \in Paths : q # p => disk'[c][q] = disk[c][q]
<1>1. disk \in [Clients -> Files] /\ disk[c] \in Files
  BY DEF TypeInv, TypeOK
<1>2. disk'[c] = [disk[c] EXCEPT ![p] = [data |-> data, stamp |-> NewStamp(c, p)]]
  BY <1>1 DEF Written
<1>3. NewStamp(c, p) # reg[c].row[p].stamp
  BY DEF NewStamp
<1>4. disk'[c][p] = [data |-> data, stamp |-> NewStamp(c, p)]
  BY <1>1, <1>2 DEF Files
<1>5. \A q \in Paths : q # p => disk'[c][q] = disk[c][q]
  BY <1>1, <1>2 DEF Files
<1> QED BY <1>3, <1>4, <1>5

\* One that is removed keeps its stamp.
LEMMA RemovedStamp ==
  ASSUME TypeInv, NEW c \in Clients, NEW p \in Paths, disk' = Removed(c, p)
  PROVE  /\ \A q \in Paths : disk'[c][q].stamp = disk[c][q].stamp
         /\ \A q \in Paths : disk'[c][q].data = IF q = p THEN Gone ELSE disk[c][q].data
<1>1. disk \in [Clients -> Files] /\ disk[c] \in Files
  BY DEF TypeInv, TypeOK
<1>2. disk'[c] = [disk[c] EXCEPT ![p].data = Gone]
  BY <1>1 DEF Removed
<1> QED BY <1>1, <1>2 DEF Files

\* Nothing but the file of path p changes.
LEMMA OtherFiles ==
  ASSUME TypeInv, NEW c \in Clients, NEW p \in Paths, NEW data,
         disk' = Written(c, p, data) \/ disk' = Removed(c, p)
  PROVE  \A q \in Paths : q # p => disk'[c][q].data = disk[c][q].data
<1>1. CASE disk' = Written(c, p, data)
  BY <1>1, WrittenStamp
<1>2. CASE disk' = Removed(c, p)
  BY <1>2, RemovedStamp
<1> QED BY <1>1, <1>2

\* The upload loop is not at a file.
LEMMA VouchUnlocked ==
  ASSUME NEW c, up'[c].pc \notin {"commit", "insert", "need", "reply"}
  PROVE  OneLoopAtAFile(c)' /\ CommitVouches(c)' /\ AnswerHasContent(c)'
BY DEF OneLoopAtAFile, CommitVouches, AnswerHasContent

\* A save: nothing vouches for the file until its row is made.
LEMMA VouchWritten ==
  ASSUME TypeInv, RowsInv, NEW c \in Clients, VouchOK(c), NEW i \in dl[c].todo, NEW data,
         disk' = Written(c, journal[i].path, data), UNCHANGED <<journal, reg, up>>,
         dl'[c].item = i,
         \/ dl'[c].pc = "write" /\ data = Torn
         \/ dl'[c].pc = "record" /\ data = journal[i].chunks,
         up[c].pc \notin {"commit", "insert", "need", "reply"}
  PROVE  VouchOK(c)'
<1>1. PICK p \in Paths : p = journal[i].path
  BY ListedRecord
<1>2. disk' = Written(c, p, data)
  BY <1>1
<1>3. \A q \in Paths : q # p => disk'[c][q] = disk[c][q]
  BY <1>2, WrittenStamp
<1>4. disk'[c][p].data = data /\ disk'[c][p].stamp # reg[c].row[p].stamp
  BY <1>2, WrittenStamp
<1>5. ASSUME NEW q \in Paths PROVE RowVouches(c, q)'
  <2>1. CASE q = p
    BY <1>4, <2>1 DEF RowVouches, Vouches
  <2>2. CASE q # p
    <3>1. RowVouches(c, q)
      BY DEF VouchOK
    <3> QED BY <1>3, <2>2, <3>1 DEF RowVouches
  <2> QED BY <2>1, <2>2
<1>6. SaveUnderWay(c)'
  BY <1>1, <1>4 DEF SaveUnderWay
<1> QED BY <1>5, <1>6, VouchUnlocked DEF VouchOK

\* A record is noted: the row vouches for what the disk has.
LEMMA VouchRecorded ==
  ASSUME TypeInv, RowsInv, NEW c \in Clients, VouchOK(c), NEW i \in dl[c].todo,
         NEW deleted, NEW stamp, reg' = Recorded(c, i, deleted, stamp),
         deleted \/ disk[c][journal[i].path].data = journal[i].chunks,
         UNCHANGED <<journal, disk, up>>,
         dl'[c].pc \in {"idle", "apply", "remove"},
         up[c].pc \notin {"commit", "insert", "need", "reply"}
  PROVE  VouchOK(c)'
<1>1. PICK p \in Paths : p = journal[i].path
  BY ListedRecord
<1>2. i \in DOMAIN journal
  BY ListedRecord
<1>3. /\ \A q \in Paths : q # p => reg'[c].row[q] = reg[c].row[q]
      /\ reg'[c].row[p].jid = i /\ reg'[c].row[p].deleted = deleted
  BY <1>1, <1>2, RecordedAt
<1>4. ASSUME NEW q \in Paths PROVE RowVouches(c, q)'
  <2>1. CASE q = p
    BY <1>1, <1>3, <2>1 DEF RowVouches, Vouches
  <2>2. CASE q # p
    <3>1. RowVouches(c, q)
      BY DEF VouchOK
    <3> QED BY <1>3, <2>2, <3>1 DEF RowVouches
  <2> QED BY <2>1, <2>2
<1>5. SaveUnderWay(c)'
  BY DEF SaveUnderWay
<1> QED BY <1>4, <1>5, VouchUnlocked DEF VouchOK

\* A file is removed, after its tombstone was noted.
LEMMA VouchRemoved ==
  ASSUME TypeInv, RowsInv, NEW c \in Clients, VouchOK(c), NEW p \in Paths,
         disk' = Removed(c, p), UNCHANGED <<journal, reg, up>>,
         dl[c].pc = "remove", dl'[c].pc \in {"idle", "apply"}
  PROVE  VouchOK(c)'
<1>1. ASSUME NEW q \in Paths PROVE RowVouches(c, q)'
  <2>1. disk'[c][q].stamp = disk[c][q].stamp /\ disk'[c][q].data \in {disk[c][q].data, Gone}
    BY RemovedStamp
  <2>2. RowVouches(c, q)
    BY DEF VouchOK
  <2> QED BY <2>1, <2>2 DEF RowVouches, Vouches
<1>2. SaveUnderWay(c)'
  BY DEF SaveUnderWay
<1>3. up[c].pc \notin {"commit", "insert", "need", "reply"}
  BY DEF VouchOK, OneLoopAtAFile
<1> QED BY <1>1, <1>2, <1>3, VouchUnlocked DEF VouchOK

\* A download loop notes only what it has seen through.
LEMMA VouchDownload ==
  ASSUME TypeInv, RowsInv, [Next]_vars, NEW c \in Clients, VouchOK(c), Download(c)
  PROVE  VouchOK(c)'
<1>1. journal' = journal /\ dl \in [Clients -> DlState] /\ up \in [Clients -> UpState]
  <2>1. journal' = journal
    BY Zenon DEF Download, DlStart, DlList, DlFetch, DlTombstone, DlRemove, DlTruncate, DlWrite,
                 DlRecord, serverVars
  <2> QED BY <2>1 DEF TypeInv, TypeOK
<1>2. CASE DlStart(c) \/ DlList(c) \/ DlFetch(c)
  <2>1. UNCHANGED <<reg, disk, up>>
    BY <1>2 DEF DlStart, DlList, DlFetch
  <2>2. dl'[c].pc \notin {"write", "record", "remove"}
    <3>1. CASE DlStart(c)
      BY <1>1, <3>1 DEF DlStart, DlState
    <3>2. CASE DlList(c)
      BY <1>1, <3>2 DEF DlList, DlIdle, DlState
    <3>3. CASE DlFetch(c)
      BY <1>1, <3>3 DEF DlFetch, DlState
    <3> QED BY <1>2, <3>1, <3>2, <3>3
  <2> QED BY <2>1, <2>2, VouchSame
<1>3. CASE DlTombstone(c)
  <2>1. PICK i \in dl[c].todo :
          /\ ~ Locked(c) /\ reg' = Recorded(c, i, TRUE, 0) /\ UNCHANGED <<disk, up>>
          /\ dl' = [dl EXCEPT ![c].pc = "remove", ![c].item = i] \/ Advance(c, i)
    BY <1>3 DEF DlTombstone
  <2>2. dl'[c].pc \in {"idle", "apply", "remove"}
    BY <1>1, <2>1, AdvancePc DEF DlState
  <2>3. up[c].pc \notin {"commit", "insert", "need", "reply"}
    BY <2>1 DEF Locked
  <2> QED BY <1>1, <2>1, <2>2, <2>3, VouchRecorded
<1>4. CASE DlRemove(c)
  <2>1. dl[c].pc = "remove" /\ reg' = reg
    BY <1>4 DEF DlRemove
  <2>2. PICK p \in Paths : p = journal[dl[c].item].path
    BY <2>1, VouchJournal
  <2>3. CASE disk' = Removed(c, p) /\ Advance(c, dl[c].item) /\ up' = up
    <3>1. dl'[c].pc \in {"idle", "apply"}
      BY <2>3, AdvancePc
    <3> QED BY <1>1, <2>1, <2>3, <3>1, VouchRemoved
  <2>4. CASE RunEnds(c) /\ disk' = disk
    BY <2>1, <2>4, VouchEnds
  <2> QED BY <1>4, <2>2, <2>3, <2>4 DEF DlRemove
<1>5. CASE DlTruncate(c)
  <2>1. PICK i \in dl[c].todo :
          /\ ~ Locked(c) /\ disk' = Written(c, journal[i].path, Torn) /\ UNCHANGED <<reg, up>>
          /\ dl' = [dl EXCEPT ![c].pc = "write", ![c].item = i]
    BY <1>5 DEF DlTruncate
  <2>2. dl'[c].pc = "write" /\ dl'[c].item = i
    BY <1>1, <2>1 DEF DlState
  <2>3. up[c].pc \notin {"commit", "insert", "need", "reply"}
    BY <2>1 DEF Locked
  <2> QED BY <1>1, <2>1, <2>2, <2>3, VouchWritten
<1>6. CASE DlWrite(c)
  <2>1. PICK i \in dl[c].todo : i = dl[c].item
    BY <1>6 DEF DlWrite, TypeInv, TodoOK
  <2>2. dl[c].pc = "write" /\ UNCHANGED <<reg, up>> /\ dl' = [dl EXCEPT ![c].pc = "record"]
    BY <1>6 DEF DlWrite
  <2>3. dl'[c].pc = "record" /\ dl'[c].item = i
    BY <1>1, <2>1, <2>2 DEF DlState
  <2>4. disk[c][journal[i].path].data = Torn /\ up[c].pc \notin {"commit", "insert", "need", "reply"}
    BY <2>1, <2>2 DEF VouchOK, SaveUnderWay, OneLoopAtAFile
  <2>5. disk' = Written(c, journal[i].path, journal[i].chunks)
    BY <1>6, <2>1, <2>4 DEF DlWrite
  <2> QED BY <1>1, <2>2, <2>3, <2>4, <2>5, VouchWritten
<1>7. CASE DlRecord(c)
  <2>1. PICK i \in dl[c].todo : i = dl[c].item
    BY <1>7 DEF DlRecord, TypeInv, TodoOK
  <2>2. dl[c].pc = "record" /\ disk' = disk
    BY <1>7 DEF DlRecord
  <2>3. /\ up[c].pc \notin {"commit", "insert", "need", "reply"}
        /\ disk[c][journal[i].path].data = journal[i].chunks
    BY <2>1, <2>2 DEF VouchOK, SaveUnderWay, OneLoopAtAFile
  <2>4. CASE RunEnds(c) /\ reg' = reg
    BY <2>2, <2>4, VouchEnds
  <2>5. CASE /\ reg' = Recorded(c, i, FALSE, disk[c][journal[i].path].stamp)
             /\ Advance(c, i) /\ up' = up
    <3>1. dl'[c].pc \in {"idle", "apply", "remove"}
      BY <2>5, AdvancePc
    <3> QED BY <1>1, <2>2, <2>3, <2>5, <3>1, VouchRecorded
  <2> QED BY <1>7, <2>1, <2>4, <2>5 DEF DlRecord
<1> QED BY <1>2, <1>3, <1>4, <1>5, <1>6, <1>7 DEF Download

\* Steps of the upload loop that leave the rows alone.
LEMMA VouchCommit ==
  ASSUME TypeInv, RowsInv, [Next]_vars, NEW c \in Clients, VouchOK(c),
         UNCHANGED <<reg, disk, dl>>, OneLoopAtAFile(c)', CommitVouches(c)', AnswerHasContent(c)'
  PROVE  VouchOK(c)'
<1>1. ASSUME NEW p \in Paths PROVE RowVouches(c, p)'
  <2>1. RowVouches(c, p)
    BY DEF VouchOK
  <2>2. reg[c].row[p].jid # NoJid => journal'[reg[c].row[p].jid] = journal[reg[c].row[p].jid]
    BY VouchJournal
  <2> QED BY <2>1, <2>2 DEF RowVouches
<1>2. SaveUnderWay(c)'
  <2>1. SaveUnderWay(c)
    BY DEF VouchOK
  <2>2. dl[c].pc \in {"write", "record", "remove"} => journal'[dl[c].item] = journal[dl[c].item]
    BY VouchJournal
  <2> QED BY <2>1, <2>2 DEF SaveUnderWay
<1> QED BY <1>1, <1>2 DEF VouchOK

\* What is committed for a row is what the row's file is, and the jid of the
\* answer names it.
LEMMA VouchUpload ==
  ASSUME TypeInv, RowsInv, [Next]_vars, NEW c \in Clients, VouchOK(c), Upload(c)
  PROVE  VouchOK(c)'
<1>1. disk' = disk /\ up \in [Clients -> UpState]
  <2>1. disk' = disk
    BY Zenon DEF Upload, UpStart, UpHash, SrvCheck, SrvInsert, UpCommitted, UpNeeds, UpSend
  <2> QED BY <2>1 DEF TypeInv, TypeOK
<1>2. CASE UpStart(c) \/ UpNeeds(c) \/ UpSend(c)
  <2>1. UNCHANGED <<reg, dl>>
    BY <1>2 DEF UpStart, UpNeeds, UpSend
  <2>2. up'[c].pc \in {"idle", "next"}
    <3>1. CASE UpStart(c)
      BY <1>1, <3>1 DEF UpStart, UpState
    <3>2. CASE UpNeeds(c)
      BY <1>1, <3>2 DEF UpNeeds, NextRow, UpIdle
    <3>3. CASE UpSend(c)
      BY <1>1, <3>3 DEF UpSend, UpIdle, UpState
    <3> QED BY <1>2, <3>1, <3>2, <3>3
  <2> QED BY <1>1, <2>1, <2>2, VouchSame
<1>3. CASE UpHash(c)
  <2>1. PICK f \in up[c].queue :
          IF f.deleted \/ OnDisk(c, f.path)
          THEN /\ up' = [up EXCEPT ![c].pc = "commit", ![c].row = {f},
                            ![c].data = IF f.deleted THEN Gone ELSE disk[c][f.path].data]
               /\ UNCHANGED dl
          ELSE RunEnds(c)
    BY <1>3 DEF UpHash
  <2>2. reg' = reg /\ ~ Locked(c)
    BY <1>3 DEF UpHash
  <2>3. CASE f.deleted \/ OnDisk(c, f.path)
    <3>1. PICK data : data = IF f.deleted THEN Gone ELSE disk[c][f.path].data
      OBVIOUS
    <3>2. up' = [up EXCEPT ![c].pc = "commit", ![c].row = {f}, ![c].data = data] /\ dl' = dl
      BY <2>1, <2>3, <3>1
    <3>3. up'[c].pc = "commit" /\ up'[c].row = {f} /\ up'[c].data = data
      BY <1>1, <3>2 DEF UpState
    <3>4. reg[c].row[f.path].id = f.id => reg[c].row[f.path].deleted = f.deleted
      BY DEF RowsInv
    <3>5. CommitVouches(c)'
      BY <1>1, <2>2, <3>1, <3>3, <3>4 DEF CommitVouches, Vouches
    <3>6. OneLoopAtAFile(c)'
      BY <2>2, <3>2 DEF OneLoopAtAFile, Locked
    <3>7. AnswerHasContent(c)'
      BY <3>3 DEF AnswerHasContent
    <3> QED BY <1>1, <2>2, <3>2, <3>5, <3>6, <3>7, VouchCommit
  <2>4. CASE ~ (f.deleted \/ OnDisk(c, f.path))
    BY <1>1, <2>1, <2>2, <2>4, VouchEnds
  <2> QED BY <2>3, <2>4
<1>4. CASE SrvCheck(c)
  <2>1. PICK f \in up[c].row :
          \/ up' = [up EXCEPT ![c].pc = "need"]
          \/ up' = [up EXCEPT ![c].pc = "insert"]
          \/ \E i \in Known(EntryOf(c, f)) : up' = [up EXCEPT ![c].pc = "reply", ![c].jid = i]
    BY <1>4 DEF SrvCheck
  <2>2. up[c].pc = "commit" /\ UNCHANGED <<reg, dl, journal>>
    BY <1>4 DEF SrvCheck, serverVars
  <2>3. /\ up'[c].row = up[c].row /\ up'[c].data = up[c].data
        /\ up'[c].pc \in {"need", "insert", "reply"}
        /\ up'[c].pc = "reply" => up'[c].jid \in Known(EntryOf(c, f))
    BY <1>1, <2>1 DEF UpState
  <2>4. ASSUME NEW i \in Known(EntryOf(c, f)) PROVE journal[i].chunks = up[c].data
    <3>1. SameContent(journal[i], EntryOf(c, f))
      BY <2>4, Zenon DEF Known
    <3>2. EntryOf(c, f).chunks = up[c].data
      BY DEF EntryOf
    <3> QED BY <3>1, <3>2, Zenon DEF SameContent
  <2>5. CommitVouches(c)'
    <3>1. CommitVouches(c)
      BY DEF VouchOK
    <3> QED BY <1>1, <2>2, <2>3, <3>1 DEF CommitVouches
  <2>6. OneLoopAtAFile(c)'
    BY <2>2 DEF VouchOK, OneLoopAtAFile
  <2>7. AnswerHasContent(c)'
    BY <2>2, <2>3, <2>4 DEF AnswerHasContent
  <2> QED BY <1>1, <2>2, <2>5, <2>6, <2>7, VouchCommit
<1>5. CASE SrvInsert(c)
  <2>1. PICK f \in up[c].row :
          /\ journal' = Append(journal, EntryOf(c, f))
          /\ up' = [up EXCEPT ![c].pc = "reply", ![c].jid = Len(journal) + 1]
    BY <1>5 DEF SrvInsert
  <2>2. up[c].pc = "insert" /\ UNCHANGED <<reg, dl>>
    BY <1>5 DEF SrvInsert
  <2>3. PICK n \in Nat : n = Len(journal) + 1
    BY DEF TypeInv, TypeOK
  <2>4. /\ up'[c].row = up[c].row /\ up'[c].data = up[c].data
        /\ up'[c].pc = "reply" /\ up'[c].jid = n
    BY <1>1, <2>1, <2>3 DEF UpState
  <2>5. journal'[n] = EntryOf(c, f)
    BY <2>1, <2>3, CommittedEntry, Grows
  <2>6. journal'[n].chunks = up[c].data
    BY <2>5 DEF EntryOf
  <2>7. CommitVouches(c)'
    <3>1. CommitVouches(c)
      BY DEF VouchOK
    <3> QED BY <1>1, <2>2, <2>4, <3>1 DEF CommitVouches
  <2>8. OneLoopAtAFile(c)'
    BY <2>2 DEF VouchOK, OneLoopAtAFile
  <2>9. AnswerHasContent(c)'
    BY <2>4, <2>6 DEF AnswerHasContent
  <2> QED BY <1>1, <2>2, <2>7, <2>8, <2>9, VouchCommit
<1>6. CASE UpCommitted(c)
  <2>1. PICK f \in up[c].row :
          /\ up[c].pc = "reply"
          /\ reg' = [reg EXCEPT ![c] = UpdateJid(reg[c], f.path, f.id, up[c].jid)]
          /\ NextRow(c, f, up[c].send)
    BY <1>6 DEF UpCommitted
  <2>2. UNCHANGED <<journal, dl>>
    BY <1>6 DEF UpCommitted, serverVars
  <2>3. up'[c].pc \in {"idle", "next"}
    BY <1>1, <2>1 DEF NextRow, UpIdle
  <2>4. ASSUME NEW p \in Paths PROVE RowVouches(c, p)'
    <3>1. reg[c].row[p] \in Row /\ reg[c].row \in [Paths -> Row]
      BY DEF TypeInv, TypeOK, View
    <3>2. reg'[c].row = IF reg[c].row[f.path].id = f.id
                        THEN [reg[c].row EXCEPT ![f.path].jid = up[c].jid] ELSE reg[c].row
      BY <2>1 DEF UpdateJid, TypeInv, TypeOK
    <3>3. RowVouches(c, p)
      BY DEF VouchOK
    <3>4. CASE p = f.path /\ reg[c].row[p].id = f.id
      <4>1. reg'[c].row[p] = [reg[c].row[p] EXCEPT !.jid = up[c].jid]
        BY <3>1, <3>2, <3>4
      <4>2. /\ reg'[c].row[p].jid = up[c].jid
            /\ reg'[c].row[p].deleted = reg[c].row[p].deleted
            /\ reg'[c].row[p].stamp = reg[c].row[p].stamp
        BY <3>1, <4>1 DEF Row
      <4>3. CommitVouches(c) /\ AnswerHasContent(c)
        BY DEF VouchOK
      <4>4. Vouches(reg[c].row[p], disk[c][p], up[c].data) /\ journal[up[c].jid].chunks = up[c].data
        BY <2>1, <3>4, <4>3 DEF CommitVouches, AnswerHasContent
      <4> QED BY <1>1, <2>2, <4>2, <4>4 DEF RowVouches, Vouches
    <3>5. CASE ~ (p = f.path /\ reg[c].row[p].id = f.id)
      <4>1. reg'[c].row[p] = reg[c].row[p]
        BY <3>1, <3>2, <3>5
      <4> QED BY <1>1, <2>2, <3>3, <4>1 DEF RowVouches
    <3> QED BY <3>4, <3>5
  <2>5. SaveUnderWay(c)'
    BY <2>1, <2>2 DEF VouchOK, OneLoopAtAFile, SaveUnderWay
  <2> QED BY <2>3, <2>4, <2>5, VouchUnlocked DEF VouchOK
<1> QED BY <1>2, <1>3, <1>4, <1>5, <1>6 DEF Upload

\* VouchInv is inductive.
LEMMA VouchStep == TypeInv /\ RowsInv /\ VouchInv /\ [Next]_vars => VouchInv'
<1> SUFFICES ASSUME TypeInv, RowsInv, VouchInv, [Next]_vars, NEW c \in Clients \ Editors
             PROVE  VouchOK(c)'
  BY DEF VouchInv
<1>1. VouchOK(c) /\ c \in Clients
  BY DEF VouchInv
<1>2. CASE SameClient(c)
  BY <1>1, <1>2, VouchSame DEF SameClient
<1>3. CASE Restart(c)
  BY <1>1, <1>3, VouchEnds DEF Restart
<1>4. CASE Index(c)
  BY <1>1, <1>4, VouchIndex
<1>5. CASE Download(c)
  BY <1>1, <1>5, VouchDownload
<1>6. CASE Upload(c)
  BY <1>1, <1>6, VouchUpload
<1> QED BY <1>2, <1>3, <1>4, <1>5, <1>6, ClientSteps

\* Types, rows and what the rows vouch for, together.
LEMMA RowsVouch == Spec => [](TypeInv /\ RowsInv /\ VouchInv)
BY VouchInit, VouchStep, RowsAreKept, PTL DEF Spec

\* Where nobody edits files, a registry row that names a record vouches for the
\* disk, whatever runs are cut off in whatever places (RowsVouchForFiles).
THEOREM RowsTellTheTruth == Spec => []RowsVouchForFiles
<1>1. VouchInv => RowsVouchForFiles
  BY DEF VouchInv, VouchOK, RowVouches, Vouches, RowsVouchForFiles
<1> QED BY <1>1, RowsVouch, PTL

----------------------------------------------------------------------------
(* A client that only reads.                                               *)

\* What it has recorded is on its disk, while it is the newest record: a save
\* or a removal that touches the file of a path is that of a newer record.
ReaderOK(c) ==
  /\ dl[c].pc = "remove" => journal[dl[c].item].deleted
  /\ \A i \in Latest(journal, Account) : i \in reg[c].jids => Applied(c, i)

ReaderInv == \A c \in Readers : ReaderOK(c)

\* At the start nothing is recorded.
LEMMA ReaderInit == Init => ReaderInv
BY DEF Init, ReaderInv, ReaderOK, Readers, EmptyView, DlIdle

\* What a record of the journal is.
LEMMA JournalRecord ==
  ASSUME TypeInv, NEW i \in DOMAIN journal
  PROVE  i \in Nat /\ journal[i].path \in Paths /\ journal[i].user = Account
<1>1. journal[i] \in Entry /\ i \in Nat
  BY DEF TypeInv, TypeOK
<1> QED BY <1>1 DEF Entry

\* No newest record that is recorded has the path of a record on the list,
\* but for the one whose file is about to be removed.
LEMMA ListIsNews ==
  ASSUME TypeInv, NEW c \in Clients, OrderOK(c), NEW i \in dl[c].todo,
         NEW k \in Latest(journal, Account), k \in reg[c].jids,
         journal[k].path = journal[i].path
  PROVE  dl[c].pc = "remove" /\ dl[c].item = i /\ k = i
<1>1. i \in DOMAIN journal /\ i \in Nat /\ k \in Nat /\ journal[i].user = Account
  BY ListedRecord, JournalRecord DEF Latest
<1>2. i <= k
  BY <1>1 DEF Latest
<1>3. ~ (k < i)
  BY <1>1, <1>2
<1> QED BY <1>3 DEF OrderOK

\* A record that is still on the list is not recorded, until its file is removed.
LEMMA NotNoted ==
  ASSUME TypeInv, NEW c \in Clients, OrderOK(c), NEW i \in dl[c].todo, dl[c].pc # "remove"
  PROVE  i \notin reg[c].jids
<1>1. i \in Nat
  BY ListedRecord
<1>2. ~ (i < i)
  BY <1>1
<1> QED BY <1>2 DEF OrderOK

\* Steps that leave the files of the client alone, and record nothing.
LEMMA ReaderSame ==
  ASSUME TypeInv, [Next]_vars, NEW c \in Clients, OrderOK(c), ReaderOK(c),
         reg'[c].jids = reg[c].jids, \A p \in Paths : disk'[c][p].data = disk[c][p].data,
         \/ dl'[c] = dl[c]
         \/ dl'[c].pc # "remove" /\ (dl[c].pc # "remove" \/ restarts' > 0)
  PROVE  ReaderOK(c)'
<1>1. JournalKept /\ restarts' >= restarts /\ restarts \in Nat /\ restarts' \in Nat
  BY JournalGrows, JournalStep
<1>2. dl'[c].pc = "remove" => journal'[dl'[c].item].deleted
  BY <1>1, ListedRecord DEF ReaderOK, JournalKept, TypeInv, TodoOK
<1>3. ASSUME NEW i \in Latest(journal', Account), i \in reg'[c].jids
      PROVE  Applied(c, i)'
  <2>1. i \in DOMAIN journal
    BY <1>3 DEF OrderOK
  <2>2. /\ i \in Latest(journal, Account) /\ journal'[i] = journal[i] /\ journal[i].path \in Paths
    BY <1>1, <1>3, <2>1, JournalGrows, JournalRecord DEF JournalKept
  <2>3. Applied(c, i)
    BY <1>3, <2>2 DEF ReaderOK
  <2>4. disk'[c][journal[i].path].data = disk[c][journal[i].path].data
    BY <2>2
  <2>5. restarts > 0 => restarts' > 0
    BY <1>1
  <2> QED BY <2>2, <2>3, <2>4, <2>5 DEF Applied, HasContent
<1> QED BY <1>2, <1>3 DEF ReaderOK

\* Steps of the loop that change the file of a record on the list, or note it.
LEMMA ReaderApplies ==
  ASSUME TypeInv, NEW c \in Clients, OrderOK(c), ReaderOK(c), NEW i \in dl[c].todo,
         UNCHANGED <<journal, restarts>>, dl[c].pc = "remove" => dl[c].item = i,
         \A p \in Paths : p # journal[i].path => disk'[c][p].data = disk[c][p].data,
         reg'[c].jids \subseteq reg[c].jids \cup {i},
         i \in reg'[c].jids => Applied(c, i)',
         dl'[c].pc = "remove" => dl'[c].item = i /\ journal[i].deleted
  PROVE  ReaderOK(c)'
<1>1. ASSUME NEW k \in Latest(journal, Account), k \in reg'[c].jids
      PROVE  Applied(c, k)'
  <2>1. CASE k = i
    BY <1>1, <2>1
  <2>2. CASE k # i
    <3>1. k \in reg[c].jids
      BY <1>1, <2>2
    <3>2. journal[k].path # journal[i].path /\ journal[k].path \in Paths
      BY <2>2, <3>1, ListIsNews, JournalRecord DEF Latest
    <3>3. Applied(c, k) /\ disk'[c][journal[k].path].data = disk[c][journal[k].path].data
      BY <3>1, <3>2 DEF ReaderOK
    <3> QED BY <2>2, <3>3 DEF Applied, HasContent
  <2> QED BY <2>1, <2>2
<1> QED BY <1>1 DEF ReaderOK

\* The loop records what it has applied.
LEMMA ReaderDownload ==
  ASSUME TypeInv, RowsInv, [Next]_vars, NEW c \in Clients,
         OrderOK(c), VouchOK(c), ReaderOK(c), Download(c)
  PROVE  ReaderOK(c)'
<1>1. /\ UNCHANGED <<journal, restarts>> /\ dl \in [Clients -> DlState]
      /\ \A i \in dl[c].todo : i \in DOMAIN journal /\ journal[i].path \in Paths
      /\ dl[c].pc \in {"write", "record", "remove"} => dl[c].item \in dl[c].todo
  BY ListedRecord
     DEF Download, DlStart, DlList, DlFetch, DlTombstone, DlRemove, DlTruncate, DlWrite,
         DlRecord, serverVars, counters, TypeInv, TypeOK, TodoOK
<1>2. CASE DlStart(c) \/ DlList(c) \/ DlFetch(c)
  <2>1. UNCHANGED <<reg, disk>> /\ dl[c].pc # "remove" /\ dl'[c].pc # "remove"
    <3>1. CASE DlStart(c)
      BY <1>1, <3>1 DEF DlStart, DlState
    <3>2. CASE DlList(c)
      BY <1>1, <3>2 DEF DlList, DlIdle, DlState
    <3>3. CASE DlFetch(c)
      BY <1>1, <3>3 DEF DlFetch, DlState
    <3> QED BY <1>2, <3>1, <3>2, <3>3
  <2> QED BY <2>1, ReaderSame
<1>3. CASE DlTombstone(c)
  <2>1. PICK i \in dl[c].todo :
          /\ dl[c].pc = "apply" /\ journal[i].deleted /\ reg' = Recorded(c, i, TRUE, 0)
          /\ disk' = disk
          /\ IF OnDisk(c, journal[i].path)
             THEN dl' = [dl EXCEPT ![c].pc = "remove", ![c].item = i]
             ELSE Advance(c, i)
    BY <1>3 DEF DlTombstone
  <2>2. reg'[c].jids = reg[c].jids \cup {i}
    BY <1>1, <2>1, RecordedCursor
  <2>3. CASE OnDisk(c, journal[i].path)
    <3>1. dl'[c].pc = "remove" /\ dl'[c].item = i
      BY <1>1, <2>1, <2>3 DEF DlState
    <3> QED BY <1>1, <2>1, <2>2, <3>1, ReaderApplies DEF Applied
  <2>4. CASE ~ OnDisk(c, journal[i].path)
    <3>1. dl'[c].pc # "remove" /\ HasContent(c, journal[i].path, Gone)'
      BY <1>1, <2>1, <2>4, AdvancePc DEF OnDisk, HasContent
    <3> QED BY <1>1, <2>1, <2>2, <3>1, ReaderApplies DEF Applied
  <2> QED BY <2>3, <2>4
<1>4. CASE DlRemove(c)
  <2>0. PICK i, p : i = dl[c].item /\ p = journal[dl[c].item].path
    OBVIOUS
  <2>1. /\ dl[c].pc = "remove" /\ reg' = reg /\ i \in dl[c].todo /\ p \in Paths
        /\ journal[i].deleted /\ p = journal[i].path
    BY <1>1, <1>4, <2>0 DEF DlRemove, ReaderOK
  <2>2. /\ \A q \in Paths : q # p => disk'[c][q].data = disk[c][q].data
        /\ disk'[c][p].data = Gone /\ dl'[c].pc # "remove"
    <3>1. CASE OnDisk(c, p)
      <4>1. disk' = Removed(c, p) /\ Advance(c, i)
        BY <1>4, <2>0, <3>1 DEF DlRemove
      <4>2. \A q \in Paths : q # p => disk'[c][q].data = disk[c][q].data
        BY <2>1, <4>1, OtherFiles
      <4>3. disk'[c][p].data = Gone
        BY <2>1, <4>1, RemovedStamp
      <4> QED BY <4>1, <4>2, <4>3, AdvancePc
    <3>2. CASE ~ OnDisk(c, p)
      <4>1. disk' = disk /\ RunEnds(c)
        BY <1>4, <2>0, <3>2 DEF DlRemove
      <4> QED BY <3>2, <4>1, RunEndsPc DEF OnDisk, DlIdle
    <3> QED BY <3>1, <3>2
  <2>3. Applied(c, i)'
    BY <1>1, <2>1, <2>2 DEF Applied, HasContent
  <2> QED BY <1>1, <2>0, <2>1, <2>2, <2>3, ReaderApplies
<1>5. CASE DlTruncate(c)
  <2>1. PICK i \in dl[c].todo :
          /\ dl[c].pc = "apply" /\ disk' = Written(c, journal[i].path, Torn) /\ reg' = reg
          /\ dl' = [dl EXCEPT ![c].pc = "write", ![c].item = i]
    BY <1>5 DEF DlTruncate
  <2>2. /\ dl'[c].pc = "write"
        /\ \A q \in Paths : q # journal[i].path => disk'[c][q].data = disk[c][q].data
    <3>1. \A q \in Paths : q # journal[i].path => disk'[c][q].data = disk[c][q].data
      BY <1>1, <2>1, OtherFiles
    <3> QED BY <1>1, <2>1, <3>1 DEF DlState
  <2>3. i \notin reg[c].jids
    BY <1>1, <2>1, NotNoted
  <2> QED BY <1>1, <2>1, <2>2, <2>3, ReaderApplies
<1>6. CASE DlWrite(c)
  <2> DEFINE i == dl[c].item
  <2>1. dl[c].pc = "write" /\ reg' = reg /\ i \in dl[c].todo /\ dl'[c].pc = "record"
    BY <1>1, <1>6 DEF DlWrite, DlState
  <2>2. \A q \in Paths : q # journal[i].path => disk'[c][q].data = disk[c][q].data
    <3>1. disk' = disk \/ disk' = Written(c, journal[i].path, journal[i].chunks)
      BY <1>6 DEF DlWrite
    <3>2. journal[i].path \in Paths
      BY <1>1, <2>1
    <3> QED BY <3>1, <3>2, OtherFiles
  <2>3. i \notin reg[c].jids
    BY <1>1, <2>1, NotNoted
  <2> QED BY <1>1, <2>1, <2>2, <2>3, ReaderApplies
<1>7. CASE DlRecord(c)
  <2>0. PICK i : i = dl[c].item
    OBVIOUS
  <2>1. dl[c].pc = "record" /\ disk' = disk /\ i \in dl[c].todo
    BY <1>1, <1>7, <2>0 DEF DlRecord
  <2>2. CASE RunEnds(c) /\ reg' = reg
    BY <2>1, <2>2, RunEndsPc, ReaderSame DEF DlIdle
  <2>3. CASE /\ reg' = Recorded(c, i, FALSE, disk[c][journal[i].path].stamp)
             /\ Advance(c, i)
    <3>1. dl'[c].pc # "remove" /\ reg'[c].jids = reg[c].jids \cup {i}
      BY <1>1, <2>1, <2>3, AdvancePc, RecordedCursor
    <3>2. ~ journal[i].deleted /\ disk[c][journal[i].path].data = journal[i].chunks
      BY <2>0, <2>1 DEF RowsInv, VouchOK, SaveUnderWay
    <3>3. Applied(c, i)'
      BY <1>1, <2>1, <3>2 DEF Applied, HasContent
    <3> QED BY <1>1, <2>1, <3>1, <3>3, ReaderApplies
  <2> QED BY <1>7, <2>0, <2>2, <2>3 DEF DlRecord
<1> QED BY <1>2, <1>3, <1>4, <1>5, <1>6, <1>7 DEF Download

\* ReaderInv is inductive.
LEMMA ReaderStep ==
  TypeInv /\ RowsInv /\ OrderInv /\ VouchInv /\ ReaderInv /\ [Next]_vars => ReaderInv'
<1> SUFFICES ASSUME TypeInv, RowsInv, OrderInv, VouchInv, ReaderInv, [Next]_vars, NEW c \in Readers
             PROVE  ReaderOK(c)'
  BY DEF ReaderInv, Readers
<1>1. /\ OrderOK(c) /\ VouchOK(c) /\ ReaderOK(c)
      /\ c \in Clients /\ c \notin Writers /\ c \notin Editors
  BY DEF OrderInv, VouchInv, ReaderInv, Readers
<1>2. CASE SameClient(c)
  BY <1>1, <1>2, ReaderSame DEF SameClient
<1>3. CASE Index(c)
  <2>1. UNCHANGED <<disk, dl>>
    BY <1>3 DEF Index
  <2> QED BY <1>1, <1>3, <2>1, IndexJids, ReaderSame
<1>4. CASE Restart(c)
  <2>1. restarts' = restarts + 1 /\ restarts \in Nat
    BY <1>4 DEF Restart, TypeInv, TypeOK
  <2>2. UNCHANGED <<disk, reg>> /\ dl'[c] = DlIdle /\ restarts' > 0
    BY <1>1, <1>4, <2>1, RunEndsPc DEF Restart
  <2> QED BY <1>1, <2>2, ReaderSame DEF DlIdle
<1>5. CASE Download(c)
  BY <1>1, <1>5, ReaderDownload
<1> QED BY <1>1, <1>2, <1>3, <1>4, <1>5, ClientSteps

\* If the database answers list in the order of the ids, a client that only
\* reads has on its disk every newest record that its cursor has passed, but
\* for deletions that are being applied or were cut off (PassedMeansApplied).
THEOREM PassedIsApplied == ListIsOrdered => (Spec => []PassedMeansApplied)
<1> SUFFICES ASSUME ListIsOrdered PROVE Spec => []PassedMeansApplied
  OBVIOUS
<1>1. TypeInv /\ OrderInv /\ ReaderInv /\ OnlyOwnCommitsSkip => PassedMeansApplied
  <2> SUFFICES ASSUME TypeInv, OrderInv, ReaderInv, OnlyOwnCommitsSkip, NEW c \in Readers,
                      NEW i \in Latest(journal, Account), i <= reg[c].cursor
               PROVE  Applied(c, i)
    BY DEF PassedMeansApplied
  <2>1. OrderOK(c) /\ ReaderOK(c) /\ c \in Clients /\ i \in Nat
    BY DEF OrderInv, ReaderInv, Readers, Latest, TypeInv, TypeOK
  <2>2. i \in reg[c].jids
    <3> SUFFICES ASSUME i \notin reg[c].jids PROVE FALSE
      OBVIOUS
    <3>1. i < answered[c] /\ answered[c] = 0
      BY <2>1 DEF OnlyOwnCommitsSkip, Skipped, OrderOK
    <3> QED BY <2>1, <3>1
  <2> QED BY <2>1, <2>2 DEF ReaderOK
<1>2. Spec => []OrderInv
  BY OrderInit, OrderStep, TypeCorrect, PTL DEF Spec
<1>3. Spec => []ReaderInv
  BY <1>2, ReaderInit, ReaderStep, RowsVouch, PTL DEF Spec
<1>4. Spec => []OnlyOwnCommitsSkip
  BY OnlyCommitsSkip
<1> QED BY <1>1, <1>2, <1>3, <1>4, TypeCorrect, PTL

\* A client that only reads and has nothing to fetch, because list answers its
\* cursor with no record, has the server's folder on its disk, but for
\* deletions that runs which ended have left out.
QuietReadersAreCurrent ==
  \A c \in Readers :
    dl[c].pc # "remove" /\ ListSince(journal, Account, LatestJid(reg[c])) = {}
      => ReaderIsCurrent(c)

\* Where the download loop of a client that only reads comes to rest, the folder
\* is that of the server (check_download_once): nothing but progress is missing
\* for ReadersCatchUp.
THEOREM QuietIsCurrent == ListIsOrdered => (Spec => []QuietReadersAreCurrent)
<1>1. TypeInv /\ PassedMeansApplied => QuietReadersAreCurrent
  <2> SUFFICES ASSUME TypeInv, PassedMeansApplied, NEW c \in Readers, dl[c].pc # "remove",
                      ListSince(journal, Account, LatestJid(reg[c])) = {},
                      NEW i \in Latest(journal, Account)
               PROVE  IF journal[i].deleted
                      THEN restarts > 0 \/ HasContent(c, journal[i].path, Gone)
                      ELSE HasContent(c, journal[i].path, journal[i].chunks)
    BY DEF QuietReadersAreCurrent, ReaderIsCurrent
  <2>1. i \in Nat /\ reg[c].cursor \in Nat
    BY DEF Readers, Latest, TypeInv, TypeOK, View
  <2>2. i <= reg[c].cursor
    BY <2>1 DEF ListSince, LatestJid
  <2> QED BY <2>2 DEF PassedMeansApplied, Applied
<1> QED BY <1>1, PassedIsApplied, TypeCorrect, PTL

----------------------------------------------------------------------------
(* The indexer of a client that only reads, without crashes.               *)

\* The download loop is in the middle of path p: the file is being saved and
\* its row is still to be made, or the tombstone is made and the file is still
\* to be removed.
AtWork(c, p) ==
  dl[c].pc \in {"write", "record", "remove"} /\ journal[dl[c].item].path = p

\* The indexer finds the file as the registry has it.
Settled(c, p) ==
  LET row == reg[c].row[p]
  IN  OnDisk(c, p) => ~ row.deleted /\ row.jid # NoJid /\ row.stamp = disk[c][p].stamp

SettledInv ==
  restarts = 0 => \A c \in Readers, p \in Paths : AtWork(c, p) \/ Settled(c, p)

\* A client that only reads and was never cut off has whole files of records of
\* the journal and nothing else, each with a row that says which record it is,
\* but for the file the download loop is at.  In particular the indexer, which
\* does not take the mutex (indexer.rs:58) and marks half-written files as local
\* changes, leaves none of those marks behind on a file: the row that
\* check_download_once makes at the end supersedes it (syncer.rs:324).
ReadersHoldRecords ==
  restarts = 0 =>
    \A c \in Readers, p \in Paths :
      LET row == reg[c].row[p]
      IN  OnDisk(c, p) /\ ~ AtWork(c, p) =>
            /\ ~ row.deleted /\ row.stamp = disk[c][p].stamp
            /\ row.jid \in DOMAIN journal /\ journal[row.jid].path = p
            /\ disk[c][p].data = journal[row.jid].chunks

\* Files elsewhere, and what was and was not at work there.
LEMMA SettledElsewhere ==
  ASSUME NEW c, NEW p, Settled(c, p), reg'[c].row[p] = reg[c].row[p],
         disk'[c][p].data = disk[c][p].data, disk'[c][p].stamp = disk[c][p].stamp
  PROVE  Settled(c, p)'
BY DEF Settled, OnDisk

\* A file that is written, or removed, is not another one.
LEMMA FilesElsewhere ==
  ASSUME TypeInv, NEW c \in Clients, NEW p \in Paths, NEW data,
         disk' = Written(c, p, data) \/ disk' = Removed(c, p)
  PROVE  \A q \in Paths : q # p => /\ disk'[c][q].data = disk[c][q].data
                                   /\ disk'[c][q].stamp = disk[c][q].stamp
<1>1. CASE disk' = Written(c, p, data)
  BY <1>1, WrittenStamp
<1>2. CASE disk' = Removed(c, p)
  BY <1>2, RemovedStamp
<1> QED BY <1>1, <1>2

\* A record whose file is there is noted.
LEMMA RecordedSettles ==
  ASSUME TypeInv, NEW c \in Clients, NEW p \in Paths, disk' = disk,
         \E i \in DOMAIN journal :
           journal[i].path = p /\ reg' = Recorded(c, i, FALSE, disk[c][p].stamp)
  PROVE  Settled(c, p)'
<1>1. PICK i \in DOMAIN journal :
        journal[i].path = p /\ reg' = Recorded(c, i, FALSE, disk[c][p].stamp)
  OBVIOUS
<1>2. PICK stamp : stamp = disk[c][p].stamp
  OBVIOUS
<1>3. PICK id : id = NextIds(c)[p]
  OBVIOUS
<1>4. PICK form : form = RemoteForm(i, FALSE, stamp)
  OBVIOUS
<1>5. reg[c].row \in [Paths -> Row] /\ i # NoJid
  BY <1>1 DEF TypeInv, TypeOK, View, NoJid
<1>6. reg'[c].row = [reg[c].row EXCEPT ![p] = RowOf(id, form)]
  BY <1>1, <1>2, <1>3, <1>4 DEF Recorded, InsertRemote, TypeInv, TypeOK
<1>7. reg'[c].row[p] = RowOf(id, form)
  BY <1>5, <1>6
<1>8. ~ reg'[c].row[p].deleted /\ reg'[c].row[p].jid = i /\ reg'[c].row[p].stamp = stamp
  <2>1. PICK row : row = reg'[c].row[p]
    OBVIOUS
  <2>2. ~ form.deleted /\ form.jid = i /\ form.stamp = stamp
    BY <1>4 DEF RemoteForm
  <2>3. row.deleted = form.deleted /\ row.jid = form.jid /\ row.stamp = form.stamp
    BY <1>7, <2>1 DEF RowOf
  <2>4. ~ row.deleted
    BY <2>2, <2>3
  <2> QED BY <2>1, <2>2, <2>3, <2>4
<1> QED BY <1>2, <1>5, <1>8 DEF Settled

\* The rows of the other paths stay.
LEMMA RecordedElsewhere ==
  ASSUME TypeInv, NEW c \in Clients, NEW i \in DOMAIN journal,
         \E deleted, stamp : reg' = Recorded(c, i, deleted, stamp),
         NEW p \in Paths, p # journal[i].path
  PROVE  reg'[c].row[p] = reg[c].row[p]
<1>1. PICK deleted, stamp : reg' = Recorded(c, i, deleted, stamp)
  OBVIOUS
<1> QED BY <1>1, RecordedRow

\* Nothing is on the disk at the start.
LEMMA SettledInit == Init => SettledInv
BY DEF Init, SettledInv, Settled, OnDisk, Readers

\* What the indexer finds as the registry has it, it leaves alone.
LEMMA SettledIndex ==
  ASSUME TypeInv, NEW c \in Clients, Index(c), NEW p \in Paths, Settled(c, p)
  PROVE  Settled(c, p)'
<1>1. disk' = disk
  BY DEF Index
<1>2. CASE OnDisk(c, p)
  <2>1. p \notin ToAdd(c) /\ p \notin ToRemove(c)
    BY <1>2 DEF ToAdd, ToRemove, NonDeleted, Settled
  <2>2. p \notin DOMAIN LocalForms(c)
    BY <2>1 DEF LocalForms
  <2>3. reg'[c] = InsertLocal(reg[c], LocalForms(c), NextIds(c))
    BY DEF Index, TypeInv, TypeOK
  <2>4. reg'[c].row[p] = reg[c].row[p]
    BY <2>2, <2>3 DEF InsertLocal, TypeInv, TypeOK, View
  <2> QED BY <1>1, <2>4, SettledElsewhere
<1>3. CASE ~ OnDisk(c, p)
  BY <1>1, <1>3 DEF Settled, OnDisk
<1> QED BY <1>2, <1>3

\* The download loop leaves a path when its file is as the registry has it.
LEMMA SettledDownload ==
  ASSUME TypeInv, NEW c \in Clients, Download(c), NEW p \in Paths, AtWork(c, p) \/ Settled(c, p)
  PROVE  AtWork(c, p)' \/ Settled(c, p)'
<1>1. /\ journal' = journal /\ dl \in [Clients -> DlState]
      /\ \A i \in dl[c].todo : i \in DOMAIN journal /\ journal[i].path \in Paths
      /\ dl[c].pc \in {"write", "record", "remove"} => dl[c].item \in dl[c].todo
  <2>1. journal' = journal
    BY Zenon DEF Download, DlStart, DlList, DlFetch, DlTombstone, DlRemove, DlTruncate, DlWrite,
                 DlRecord, serverVars
  <2> QED BY <2>1, ListedRecord DEF TypeInv, TypeOK, TodoOK
<1>2. CASE DlStart(c) \/ DlList(c) \/ DlFetch(c)
  <2>1. UNCHANGED <<reg, disk>> /\ dl[c].pc \in {"idle", "list", "fetch"}
    BY <1>2 DEF DlStart, DlList, DlFetch
  <2> QED BY <2>1, SettledElsewhere DEF AtWork
<1>3. CASE DlTombstone(c)
  <2>1. PICK i \in dl[c].todo :
          /\ dl[c].pc = "apply" /\ reg' = Recorded(c, i, TRUE, 0) /\ disk' = disk
          /\ IF OnDisk(c, journal[i].path)
             THEN dl' = [dl EXCEPT ![c].pc = "remove", ![c].item = i]
             ELSE Advance(c, i)
    BY <1>3 DEF DlTombstone
  <2>2. Settled(c, p)
    BY <2>1 DEF AtWork
  <2>3. CASE p # journal[i].path
    <3>1. \E deleted, stamp : reg' = Recorded(c, i, deleted, stamp)
      BY <2>1, Zenon
    <3>2. reg'[c].row[p] = reg[c].row[p]
      BY <1>1, <2>3, <3>1, RecordedElsewhere
    <3> QED BY <2>1, <2>2, <3>2, SettledElsewhere
  <2>4. CASE p = journal[i].path /\ OnDisk(c, p)
    <3>1. dl'[c].pc = "remove" /\ dl'[c].item = i
      BY <1>1, <2>1, <2>4 DEF DlState
    <3> QED BY <1>1, <2>4, <3>1 DEF AtWork
  <2>5. CASE ~ OnDisk(c, p)
    BY <2>1, <2>5 DEF Settled, OnDisk
  <2> QED BY <2>3, <2>4, <2>5
<1>4. CASE DlRemove(c)
  <2>1. PICK q : q = journal[dl[c].item].path
    OBVIOUS
  <2>2. dl[c].pc = "remove" /\ reg' = reg /\ q \in Paths
    BY <1>1, <1>4, <2>1 DEF DlRemove
  <2>3. (OnDisk(c, q) /\ disk' = Removed(c, q)) \/ (~ OnDisk(c, q) /\ disk' = disk)
    BY <1>4, <2>1 DEF DlRemove
  <2>4. CASE p = q
    <3>1. ~ OnDisk(c, p)'
      BY <2>2, <2>3, <2>4, RemovedStamp DEF OnDisk
    <3> QED BY <3>1 DEF Settled
  <2>5. CASE p # q
    <3>1. disk'[c][p].data = disk[c][p].data /\ disk'[c][p].stamp = disk[c][p].stamp
      BY <2>2, <2>3, <2>5, FilesElsewhere
    <3>2. Settled(c, p)
      BY <2>1, <2>5 DEF AtWork
    <3> QED BY <2>2, <3>1, <3>2, SettledElsewhere
  <2> QED BY <2>4, <2>5
<1>5. CASE DlTruncate(c)
  <2>1. PICK i \in dl[c].todo :
          /\ dl[c].pc = "apply" /\ disk' = Written(c, journal[i].path, Torn) /\ reg' = reg
          /\ dl' = [dl EXCEPT ![c].pc = "write", ![c].item = i]
    BY <1>5 DEF DlTruncate
  <2>2. dl'[c].pc = "write" /\ dl'[c].item = i
    BY <1>1, <2>1 DEF DlState
  <2>3. CASE p = journal[i].path
    BY <1>1, <2>2, <2>3 DEF AtWork
  <2>4. CASE p # journal[i].path
    <3>1. disk'[c][p].data = disk[c][p].data /\ disk'[c][p].stamp = disk[c][p].stamp
      BY <1>1, <2>1, <2>4, FilesElsewhere
    <3>2. Settled(c, p)
      BY <2>1 DEF AtWork
    <3> QED BY <2>1, <3>1, <3>2, SettledElsewhere
  <2> QED BY <2>3, <2>4
<1>6. CASE DlWrite(c)
  <2>1. PICK i \in dl[c].todo : i = dl[c].item
    BY <1>1, <1>6 DEF DlWrite
  <2>2. /\ dl[c].pc = "write" /\ reg' = reg /\ dl'[c].pc = "record" /\ dl'[c].item = i
        /\ disk' = disk \/ disk' = Written(c, journal[i].path, journal[i].chunks)
    BY <1>1, <1>6, <2>1 DEF DlWrite, DlState
  <2>3. CASE p = journal[i].path
    BY <1>1, <2>2, <2>3 DEF AtWork
  <2>4. CASE p # journal[i].path
    <3>1. disk'[c][p].data = disk[c][p].data /\ disk'[c][p].stamp = disk[c][p].stamp
      BY <1>1, <2>2, <2>4, FilesElsewhere
    <3>2. Settled(c, p)
      BY <2>1, <2>4 DEF AtWork
    <3> QED BY <2>2, <3>1, <3>2, SettledElsewhere
  <2> QED BY <2>3, <2>4
<1>7. CASE DlRecord(c)
  <2>0. PICK i \in DOMAIN journal : i = dl[c].item
    BY <1>1, <1>7 DEF DlRecord
  <2>1. PICK q \in Paths : q = journal[i].path
    BY <1>1, <1>7, <2>0 DEF DlRecord
  <2>s. PICK stamp : stamp = disk[c][q].stamp
    OBVIOUS
  <2>2. /\ disk' = disk
        /\ \/ ~ OnDisk(c, q) /\ reg' = reg
           \/ OnDisk(c, q) /\ reg' = Recorded(c, i, FALSE, stamp)
    BY <1>7, <2>0, <2>1, <2>s DEF DlRecord
  <2>3. CASE p # q
    <3>1. reg'[c].row[p] = reg[c].row[p]
      <4>1. CASE reg' = Recorded(c, i, FALSE, stamp)
        <5>1. \E deleted, st : reg' = Recorded(c, i, deleted, st)
          BY <4>1, Zenon
        <5> QED BY <2>1, <2>3, <5>1, RecordedElsewhere
      <4> QED BY <2>2, <4>1
    <3>2. Settled(c, p)
      BY <2>0, <2>1, <2>3 DEF AtWork
    <3> QED BY <2>2, <3>1, <3>2, SettledElsewhere
  <2>4. CASE p = q /\ OnDisk(c, p)
    <3>1. journal[i].path = p /\ reg' = Recorded(c, i, FALSE, disk[c][p].stamp)
      BY <2>1, <2>s, <2>2, <2>4
    <3> QED BY <2>2, <3>1, RecordedSettles
  <2>5. CASE ~ OnDisk(c, p)
    BY <2>2, <2>5 DEF Settled, OnDisk
  <2> QED BY <2>3, <2>4, <2>5
<1> QED BY <1>2, <1>3, <1>4, <1>5, <1>6, <1>7 DEF Download

\* SettledInv is inductive.
LEMMA SettledStep == TypeInv /\ SettledInv /\ [Next]_vars => SettledInv'
<1> SUFFICES ASSUME TypeInv, SettledInv, [Next]_vars, restarts' = 0,
                    NEW c \in Readers, NEW p \in Paths
             PROVE  AtWork(c, p)' \/ Settled(c, p)'
  BY DEF SettledInv, Readers
<1>1. /\ c \in Clients /\ c \notin Writers /\ c \notin Editors
      /\ AtWork(c, p) \/ Settled(c, p)
  <2>1. restarts = 0
    BY JournalStep
  <2> QED BY <2>1 DEF SettledInv, Readers
<1>2. dl'[c] = dl[c] /\ AtWork(c, p) => AtWork(c, p)'
  BY <1>1, JournalGrows, ListedRecord DEF AtWork, JournalKept, TypeInv, TodoOK
<1>3. CASE SameClient(c)
  BY <1>1, <1>2, <1>3, SettledElsewhere DEF SameClient
<1>4. CASE Index(c)
  <2>1. dl' = dl
    BY <1>4 DEF Index
  <2> QED BY <1>1, <1>2, <1>4, <2>1, SettledIndex
<1>5. CASE Restart(c)
  BY <1>5 DEF Restart, TypeInv, TypeOK
<1>6. CASE Download(c)
  BY <1>1, <1>6, SettledDownload
<1> QED BY <1>1, <1>3, <1>4, <1>5, <1>6, ClientSteps

\* Without a crash, a client that only reads holds whole files of records, and
\* its indexer has left none of its marks on them, whatever it saw in the middle
\* of the saves (ReadersHoldRecords).
THEOREM ReadersHoldWhatTheyRecorded == Spec => []ReadersHoldRecords
<1>1. TypeInv /\ RowsInv /\ VouchInv /\ SettledInv => ReadersHoldRecords
  <2> SUFFICES ASSUME TypeInv, RowsInv, VouchInv, SettledInv, restarts = 0,
                      NEW c \in Readers, NEW p \in Paths, OnDisk(c, p), ~ AtWork(c, p)
               PROVE  LET row == reg[c].row[p]
                      IN  /\ ~ row.deleted /\ row.stamp = disk[c][p].stamp
                          /\ row.jid \in DOMAIN journal /\ journal[row.jid].path = p
                          /\ disk[c][p].data = journal[row.jid].chunks
    BY DEF ReadersHoldRecords
  <2>1. PICK row : row = reg[c].row[p]
    OBVIOUS
  <2>2. ~ row.deleted /\ row.jid # NoJid /\ row.stamp = disk[c][p].stamp
    BY <2>1 DEF SettledInv, Settled
  <2>3. row.jid \in DOMAIN journal /\ journal[row.jid].path = p
    BY <2>1, <2>2 DEF RowsInv, RowsNameRecords, Readers
  <2>4. disk[c][p].data \in {journal[row.jid].chunks, Gone}
    BY <2>1, <2>2 DEF VouchInv, VouchOK, RowVouches, Vouches, Readers
  <2> QED BY <2>1, <2>2, <2>3, <2>4 DEF OnDisk
<1>2. Spec => []SettledInv
  BY SettledInit, SettledStep, TypeCorrect, PTL DEF Spec
<1> QED BY <1>1, <1>2, RowsVouch, PTL

----------------------------------------------------------------------------
(* Every client's registry is one of those module RegistryView describes,  *)
(* which the table of module Registry implements: what SyncSystem does     *)
(* with the operators of RegistryOps is what the database can do.  Ids are *)
(* recycled here, so a newer row has an id that is different.              *)

Abstract(c) == INSTANCE RegistryView
                 WITH view <- reg[c], Ids <- Nat, Jids <- Nat \ {0}, Stamps <- Nat,
                      Newer <- {ids \in (Nat \ {0}) \X Nat : ids[1] # ids[2]}

\* The loops of a client change its registry in the three ways RegistryView has,
\* one at a time, and no other client changes it at all: update_jid is called
\* for rows without a jid (syncer.rs:220), what is downloaded has one (313-331),
\* and what the indexer notes has none (indexer.rs:92-101).
RegistriesAreViews ==
  /\ \A c \in Clients : Abstract(c)!Init
  /\ [][\A c \in Clients : [Abstract(c)!Next]_(reg[c])]_vars

\* The abstract registry has its own copy of the operators on views.
LEMMA SameViews ==
  ASSUME NEW c, NEW v, NEW x, NEW y, NEW z
  PROVE  /\ Abstract(c)!NoJid = NoJid /\ Abstract(c)!EmptyView = EmptyView
         /\ Abstract(c)!InsertLocal(v, x, y) = InsertLocal(v, x, y)
         /\ Abstract(c)!InsertRemote(v, x, y, z) = InsertRemote(v, x, y, z)
         /\ Abstract(c)!UpdateJid(v, x, y, z) = UpdateJid(v, x, y, z)
<1> USE DEF NoJid, Abstract!NoJid, RowOf, Abstract!RowOf, Later, Abstract!Later
<1>1. Abstract(c)!NoJid = NoJid /\ Abstract(c)!EmptyView = EmptyView
  BY DEF EmptyView, Abstract!EmptyView, NoRow, Abstract!NoRow
<1>2. Abstract(c)!InsertLocal(v, x, y) = InsertLocal(v, x, y)
  BY DEF InsertLocal, Abstract!InsertLocal
<1>3. Abstract(c)!InsertRemote(v, x, y, z) = InsertRemote(v, x, y, z)
  BY DEF InsertRemote, Abstract!InsertRemote
<1>4. Abstract(c)!UpdateJid(v, x, y, z) = UpdateJid(v, x, y, z)
  BY DEF UpdateJid, Abstract!UpdateJid
<1> QED BY <1>1, <1>2, <1>3, <1>4

\* The id of a new row is newer than that of the row it supersedes.
LEMMA NewIds ==
  ASSUME TypeInv, NEW c \in Clients, NEW p \in Paths
  PROVE  /\ NextIds(c)[p] \in Nat
         /\ <<NextIds(c)[p], reg[c].row[p].id>> \in {ids \in (Nat \ {0}) \X Nat : ids[1] # ids[2]}
<1>1. PICK i : i = NextIds(c)[p]
  OBVIOUS
<1>2. PICK j \in Nat : j = reg[c].row[p].id
  BY DEF TypeInv, TypeOK, View, Row
<1>3. i \in 1 .. 3 /\ i # 0 /\ i # j
  BY <1>1, <1>2, NextIdIsFree DEF HeldIds
<1> QED BY <1>1, <1>2, <1>3

\* A pass of the indexer notes changes.
LEMMA IndexNotes ==
  ASSUME TypeInv, NEW c \in Clients, Index(c)
  PROVE  Abstract(c)!NoteChanges
<1> DEFINE changed == ToAdd(c) \cup ToRemove(c)
           ids == [p \in changed |-> NextIds(c)[p]]
<1>1. changed \in SUBSET Paths /\ DOMAIN LocalForms(c) = changed
  BY DEF ToAdd, ToRemove, NonDeleted, LocalForms
<1>2. ASSUME NEW p \in changed
      PROVE  LocalForms(c)[p] \in [jid : {NoJid}, deleted : BOOLEAN, stamp : Nat]
  <2>1. disk[c][p].stamp \in Nat /\ reg[c].row[p].stamp \in Nat
    BY <1>1 DEF TypeInv, TypeOK, Files, View, Row
  <2> QED BY <2>1 DEF LocalForms
<1>3. LocalForms(c) \in [changed -> [jid : {NoJid}, deleted : BOOLEAN, stamp : Nat]]
  <2>1. LocalForms(c) = [p \in changed |-> LocalForms(c)[p]]
    BY DEF LocalForms
  <2> HIDE DEF changed
  <2> QED BY <1>2, <2>1
<1>4. /\ ids \in [changed -> Nat]
      /\ \A p \in changed :
           <<ids[p], reg[c].row[p].id>> \in {i \in (Nat \ {0}) \X Nat : i[1] # i[2]}
  <2> HIDE DEF changed
  <2>1. \A p \in changed : p \in Paths
    BY <1>1
  <2> QED BY <2>1, NewIds
<1>5. reg'[c] = InsertLocal(reg[c], LocalForms(c), ids)
  <2>1. reg'[c] = InsertLocal(reg[c], LocalForms(c), NextIds(c))
    BY DEF Index, TypeInv, TypeOK
  <2> HIDE DEF changed
  <2>2. [p \in Paths |-> IF p \in DOMAIN LocalForms(c)
                         THEN RowOf(NextIds(c)[p], LocalForms(c)[p])
                         ELSE reg[c].row[p]]
        = [p \in Paths |-> IF p \in DOMAIN LocalForms(c)
                           THEN RowOf(ids[p], LocalForms(c)[p])
                           ELSE reg[c].row[p]]
    BY <1>1
  <2> QED BY <2>1, <2>2, Zenon DEF InsertLocal
<1> HIDE DEF changed, ids
<1>6. LocalForms(c) \in [changed -> Abstract(c)!LocalForm]
  BY <1>3, SameViews DEF Abstract!LocalForm
<1>7. reg'[c] = Abstract(c)!InsertLocal(reg[c], LocalForms(c), ids)
  BY <1>5, SameViews
<1> QED BY <1>1, <1>4, <1>6, <1>7 DEF Abstract!NoteChanges

\* A record that is applied is noted.
LEMMA RecordNotes ==
  ASSUME TypeInv, NEW c \in Clients, NEW i \in DOMAIN journal, NEW deleted \in BOOLEAN,
         NEW stamp \in Nat, reg' = Recorded(c, i, deleted, stamp)
  PROVE  Abstract(c)!NoteApplied
<1>1. PICK p \in Paths : p = journal[i].path
  BY JournalRecord
<1>2. PICK id \in Nat : id = NextIds(c)[p]
  BY NewIds
<1>3. <<id, reg[c].row[p].id>> \in {ids \in (Nat \ {0}) \X Nat : ids[1] # ids[2]}
  BY <1>2, NewIds
<1>4. reg'[c] = InsertRemote(reg[c], p, [jid |-> i, deleted |-> deleted, stamp |-> stamp], id)
  BY <1>1, <1>2 DEF Recorded, RemoteForm, TypeInv, TypeOK
<1>5. i \in Nat \ {0}
  BY DEF TypeInv, TypeOK
<1>6. reg'[c] = Abstract(c)!InsertRemote(reg[c], p,
                  [jid |-> i, deleted |-> deleted, stamp |-> stamp], id)
  BY <1>4, SameViews
<1> QED BY <1>3, <1>5, <1>6 DEF Abstract!NoteApplied

\* A download notes a record, or leaves the registry alone.
LEMMA DownloadNotes ==
  ASSUME TypeInv, RowsInv, NEW c \in Clients, Download(c)
  PROVE  reg'[c] = reg[c] \/ Abstract(c)!NoteApplied
<1>1. CASE DlTombstone(c)
  <2>1. PICK i \in DOMAIN journal : reg' = Recorded(c, i, TRUE, 0)
    BY <1>1, ListedRecord DEF DlTombstone
  <2> QED BY <2>1, RecordNotes
<1>2. CASE DlRecord(c)
  <2>1. PICK i \in DOMAIN journal : i = dl[c].item
    BY <1>2 DEF DlRecord, TypeInv, TodoOK
  <2>2. PICK stamp : stamp = disk[c][journal[i].path].stamp
    OBVIOUS
  <2>3. stamp \in Nat
    BY <2>2, JournalRecord DEF TypeInv, TypeOK, Files
  <2>4. reg' = reg \/ reg' = Recorded(c, i, FALSE, stamp)
    BY <1>2, <2>1, <2>2 DEF DlRecord
  <2> QED BY <2>3, <2>4, RecordNotes
<1>3. CASE DlStart(c) \/ DlList(c) \/ DlFetch(c) \/ DlRemove(c) \/ DlTruncate(c) \/ DlWrite(c)
  <2>1. reg' = reg
    BY <1>3, Zenon DEF DlStart, DlList, DlFetch, DlRemove, DlTruncate, DlWrite
  <2> QED BY <2>1
<1> QED BY <1>1, <1>2, <1>3 DEF Download

\* So does an upload: the answer to a commit is noted for a row without a jid.
LEMMA UploadNotes ==
  ASSUME TypeInv, RowsInv, PendingInv, NEW c \in Clients, Upload(c)
  PROVE  reg'[c] = reg[c] \/ Abstract(c)!NoteCommitted
<1>1. CASE UpCommitted(c)
  <2>1. PICK f \in up[c].row :
          up[c].pc = "reply" /\ reg' = [reg EXCEPT ![c] = UpdateJid(reg[c], f.path, f.id, up[c].jid)]
    BY <1>1 DEF UpCommitted
  <2>2. /\ f \in up[c].queue /\ f.path \in Paths /\ f.id \in Nat
    BY DEF TypeInv, QueueOK, TypeOK, UpState, Pending
  <2>3. up[c].jid \in Nat \ {0}
    BY <2>1 DEF RowsInv, TypeInv, TypeOK
  <2>4. reg[c].row[f.path].id = f.id => reg[c].row[f.path].jid = NoJid
    BY <2>2 DEF PendingInv, PendingOK
  <2>5. reg'[c] = UpdateJid(reg[c], f.path, f.id, up[c].jid)
    BY <2>1 DEF TypeInv, TypeOK
  <2>6. /\ reg'[c] = Abstract(c)!UpdateJid(reg[c], f.path, f.id, up[c].jid)
        /\ Abstract(c)!NoJid = NoJid
    BY <2>5, SameViews
  <2> QED BY <2>2, <2>3, <2>4, <2>6 DEF Abstract!NoteCommitted
<1>2. CASE \/ UpStart(c) \/ UpHash(c) \/ SrvCheck(c) \/ SrvInsert(c) \/ UpNeeds(c) \/ UpSend(c)
  <2>1. reg' = reg
    BY <1>2, Zenon DEF UpStart, UpHash, SrvCheck, SrvInsert, UpNeeds, UpSend
  <2> QED BY <2>1
<1> QED BY <1>1, <1>2 DEF Upload

\* The registries of SyncSystem implement RegistryView: whatever the indexer,
\* the two loops, the users and the server's handlers do, each step is one
\* change of one client's view, or none.
THEOREM RegistriesMoveAsViews == Spec => RegistriesAreViews
<1>1. Init => \A c \in Clients : Abstract(c)!Init
  BY SameViews DEF Init, Abstract!Init
<1>2. TypeInv /\ RowsInv /\ PendingInv /\ [Next]_vars =>
        [\A c \in Clients : [Abstract(c)!Next]_(reg[c])]_vars
  <2> SUFFICES ASSUME TypeInv, RowsInv, PendingInv, [Next]_vars, NEW c \in Clients
               PROVE  [Abstract(c)!Next]_(reg[c])
    OBVIOUS
  <2>1. CASE SameClient(c) \/ Restart(c) \/ User(c)
    <3>1. reg'[c] = reg[c]
      BY <2>1 DEF SameClient, Restart, User, Edit, Delete
    <3> QED BY <3>1
  <2>2. CASE Index(c)
    BY <2>2, IndexNotes DEF Abstract!Next
  <2>3. CASE Download(c)
    BY <2>3, DownloadNotes DEF Abstract!Next
  <2>4. CASE Upload(c)
    BY <2>4, UploadNotes DEF Abstract!Next
  <2> QED BY <2>1, <2>2, <2>3, <2>4, ClientSteps
<1> QED BY <1>1, <1>2, RowsAreKept, PendingStays, PTL DEF Spec, RegistriesAreViews
=============================================================================
