--------------------------- MODULE RegistryProofs ---------------------------
(***************************************************************************)
(* The client registry for any namespaces, paths, jids, stamps and length  *)
(* of the table: the table of module Registry is, to each namespace, the   *)
(* view of module RegistryView.                                            *)
(*                                                                         *)
(* A path with rows has a newest one, and the jids of a namespace a        *)
(* largest one: no theorem about finite sets is needed for this, since     *)
(* every statement keeps it (NewestInv, LargestInv).                       *)
(***************************************************************************)
EXTENDS Registry, SequenceTheorems, TLAPS

Table == Seq(TableRow)

\* The rows of a path in a namespace have a newest one.
NewestInv ==
  \A ns \in Namespaces, i \in DOMAIN table :
    table[i].ns = ns => \E j \in LatestIds(table, ns) : table[j].path = table[i].path

IsLargest(m, S) == m \in S /\ \A n \in S : n <= m

\* The jids of a namespace have a largest one.
LargestInv == \A ns \in Namespaces : \E m : IsLargest(m, JidsIn(table, ns) \cup {0})

\* Rows were appended to t, all of namespace ns, about different paths.
Inserted(t, u, ns) ==
  /\ u \in Table /\ Len(t) <= Len(u)
  /\ \A i \in DOMAIN t : u[i] = t[i]
  /\ \A i \in DOMAIN u \ DOMAIN t : u[i].ns = ns
  /\ \A i, j \in DOMAIN u \ DOMAIN t : u[i].path = u[j].path => i = j

\* Row i of t, which had no jid, got one.
Filled(t, u, i, jid) ==
  /\ u \in Table /\ Len(u) = Len(t)
  /\ i \in DOMAIN t /\ t[i].jid = NoJid
  /\ \A j \in DOMAIN t : u[j] = IF j = i THEN [t[i] EXCEPT !.jid = jid] ELSE t[j]

----------------------------------------------------------------------------
(* Tables.                                                                 *)

LEMMA TableDomain ==
  ASSUME NEW t \in Table
  PROVE  Len(t) \in Nat /\ DOMAIN t = 1 .. Len(t) /\ \A i \in DOMAIN t : t[i] \in TableRow
BY LenProperties DEF Table

LEMMA InJids ==
  ASSUME NEW t, NEW ns, NEW jid
  PROVE  jid \in JidsIn(t, ns) <=>
           jid # NoJid /\ \E i \in DOMAIN t : t[i].ns = ns /\ t[i].jid = jid
BY DEF JidsIn

LEMMA JidsAreNat == ASSUME NEW t \in Table, NEW ns PROVE JidsIn(t, ns) \subseteq Nat
BY TableDomain DEF JidsIn, TableRow

\* A set has at most one largest member, and Max finds it.
LEMMA MaxIsLargest ==
  ASSUME NEW S \in SUBSET Nat, NEW m, IsLargest(m, S)
  PROVE  Max(S) = m
<1>1. m \in S /\ \A n \in S : m >= n
  BY DEF IsLargest
<1> DEFINE Top(x) == x \in S /\ \A n \in S : x >= n
<1>2. Max(S) = CHOOSE x : Top(x)
  BY DEF Max
<1>3. Top(m) /\ \A x : Top(x) => x = m
  <2>1. ASSUME NEW x, Top(x) PROVE x = m
    <3>1. x \in Nat /\ m \in Nat /\ x >= m /\ m >= x
      BY <1>1, <2>1
    <3> QED BY <3>1
  <2> QED BY <1>1, <2>1
<1>4. Top(CHOOSE x : Top(x))
  <2> HIDE DEF Top
  <2> QED BY <1>3
<1> QED BY <1>2, <1>3, <1>4

\* The newest row of a path in a namespace is what the view has of it.
LEMMA LatestIs ==
  ASSUME NEW t \in Table, NEW ns, NEW i \in LatestIds(t, ns)
  PROVE  LatestRow(t, ns, t[i].path) = RowOf(i, t[i])
<1> DEFINE S == RowsOf(t, ns, t[i].path)
<1>1. S \in SUBSET Nat
  BY TableDomain DEF RowsOf
<1>2. IsLargest(i, S)
  BY DEF LatestIds, RowsOf, IsLargest
<1> HIDE DEF S
<1>3. Max(S) = i
  BY <1>1, <1>2, MaxIsLargest
<1>4. S # {}
  BY <1>2 DEF IsLargest
<1> QED BY <1>3, <1>4 DEF LatestRow, S

LEMMA NoLatest ==
  ASSUME NEW t, NEW ns, NEW p, \A i \in DOMAIN t : t[i].ns = ns => t[i].path # p
  PROVE  LatestRow(t, ns, p) = NoRow
BY DEF LatestRow, RowsOf

\* The statements as steps of a table.
LEMMA IndexerInserts ==
  ASSUME TypeOK, NEW ns \in Namespaces, IndexerInsert(ns)
  PROVE  /\ Inserted(table, table', ns) /\ Len(table') <= MaxRows
         /\ \A i \in DOMAIN table' \ DOMAIN table :
              table'[i].jid = NoJid /\ table'[i].stamp \in Stamps
<1> PICK n \in 1 .. MaxRows - Len(table) :
      \E rows \in [1 .. n -> [ns : {ns}, path : Paths, jid : {NoJid},
                              deleted : BOOLEAN, stamp : Stamps]] :
        /\ \A i, j \in 1 .. n : rows[i].path = rows[j].path => i = j
        /\ table' = table \o rows
  BY DEF IndexerInsert, Insert
<1>1. PICK rows \in [1 .. n -> [ns : {ns}, path : Paths, jid : {NoJid},
                                deleted : BOOLEAN, stamp : Stamps]] :
        /\ \A i, j \in 1 .. n : rows[i].path = rows[j].path => i = j
        /\ table' = table \o rows
  OBVIOUS
<1>2. table \in Table /\ Len(table) \in Nat /\ DOMAIN table = 1 .. Len(table)
  BY TableDomain DEF TypeOK, Table
<1>3. n \in Nat
  BY <1>2, RegistryAssumption
<1>4. \A i \in 1 .. n : rows[i] \in TableRow
  <2> TAKE i \in 1 .. n
  <2> DEFINE row == rows[i]
  <2>1. row \in [ns : {ns}, path : Paths, jid : {NoJid}, deleted : BOOLEAN, stamp : Stamps]
    OBVIOUS
  <2> HIDE DEF row
  <2>2. row.ns = ns /\ row.jid = NoJid /\ row.stamp \in Stamps
    BY <2>1
  <2>3. row.jid \in Nat /\ row.stamp \in Nat
    <3>1. NoJid \in Nat
      BY DEF NoJid
    <3>2. Stamps \subseteq Nat
      BY RegistryAssumption
    <3> QED BY <2>2, <3>1, <3>2
  <2>4. row \in TableRow
    BY <2>1, <2>2, <2>3 DEF TableRow
  <2> QED BY <2>4 DEF row
<1>5. rows \in Table /\ Len(rows) = n
  BY <1>3, <1>4 DEF Table
<1>6. /\ table' \in Table /\ Len(table') = Len(table) + n
      /\ DOMAIN table' = 1 .. Len(table) + n
      /\ \A i \in 1 .. Len(table) + n :
           table'[i] = IF i <= Len(table) THEN table[i] ELSE rows[i - Len(table)]
  <2>1. table \in Seq(TableRow) /\ rows \in Seq(TableRow)
    BY <1>2, <1>5 DEF Table
  <2>2. /\ table \o rows \in Seq(TableRow) /\ Len(table \o rows) = Len(table) + Len(rows)
        /\ \A i \in 1 .. Len(table) + Len(rows) :
             (table \o rows)[i] = IF i <= Len(table) THEN table[i] ELSE rows[i - Len(table)]
    BY <2>1, ConcatProperties
  <2>3. DOMAIN (table \o rows) = 1 .. Len(table \o rows)
    BY <2>2, LenProperties
  <2> QED BY <1>1, <1>5, <2>2, <2>3 DEF Table
<1>7. ASSUME NEW i \in DOMAIN table' \ DOMAIN table
      PROVE  i - Len(table) \in 1 .. n /\ table'[i] = rows[i - Len(table)]
  BY <1>2, <1>3, <1>6
<1>8. \A i, j \in DOMAIN table' \ DOMAIN table : table'[i].path = table'[j].path => i = j
  BY <1>1, <1>2, <1>3, <1>6, <1>7
<1>9. \A i \in DOMAIN table' \ DOMAIN table :
        table'[i].ns = ns /\ table'[i].jid = NoJid /\ table'[i].stamp \in Stamps
  BY <1>7
<1>10. \A i \in DOMAIN table : table'[i] = table[i]
  BY <1>2, <1>3, <1>6
<1> QED BY <1>2, <1>3, <1>6, <1>8, <1>9, <1>10, RegistryAssumption DEF Inserted

LEMMA SyncerInserts ==
  ASSUME TypeOK, NEW ns \in Namespaces, SyncerInsert(ns)
  PROVE  \E row \in [ns : {ns}, path : Paths, jid : Jids, deleted : BOOLEAN, stamp : Stamps] :
           /\ Inserted(table, table', ns) /\ Len(table') = Len(table) + 1
           /\ table'[Len(table')] = row /\ Len(table') <= MaxRows
<1> PICK row \in [ns : {ns}, path : Paths, jid : Jids, deleted : BOOLEAN, stamp : Stamps] :
      table' = table \o <<row>>
  BY DEF SyncerInsert, Insert
<1>1. table \in Seq(TableRow) /\ Len(table) \in Nat /\ DOMAIN table = 1 .. Len(table)
  BY TableDomain DEF TypeOK, Table
<1>2. row \in TableRow
  <2>1. row.ns \in Namespaces /\ row.jid \in Nat /\ row.stamp \in Nat
    BY RegistryAssumption
  <2> QED BY <2>1 DEF TableRow
<1>3. <<row>> \in Seq(TableRow) /\ Len(<<row>>) = 1 /\ <<row>>[1] = row
  BY <1>2
<1>4. /\ table' \in Seq(TableRow) /\ Len(table') = Len(table) + 1
      /\ \A i \in 1 .. Len(table) + 1 :
           table'[i] = IF i <= Len(table) THEN table[i] ELSE <<row>>[i - Len(table)]
  BY <1>1, <1>3, ConcatProperties
<1>5. DOMAIN table' = 1 .. Len(table')
  BY <1>4, LenProperties
<1>6. table'[Len(table')] = row /\ row.ns = ns
  BY <1>1, <1>3, <1>4
<1>7. Len(table') <= MaxRows
  BY <1>1, <1>4, RegistryAssumption DEF SyncerInsert
<1> QED BY <1>1, <1>4, <1>5, <1>6, <1>7 DEF Inserted, Table

LEMMA SyncerCommits ==
  ASSUME TypeOK, NEW ns \in Namespaces, SyncerCommit(ns)
  PROVE  \E i \in DOMAIN table, jid \in Jids :
           table[i].ns = ns /\ Filled(table, table', i, jid)
<1> PICK i \in DOMAIN table, jid \in Jids :
      table[i].ns = ns /\ table[i].jid = NoJid /\ table' = [table EXCEPT ![i].jid = jid]
  BY DEF SyncerCommit, SetJid
<1>1. table \in Seq(TableRow) /\ i \in 1 .. Len(table) /\ table[i] \in TableRow
      /\ DOMAIN table = 1 .. Len(table)
  BY TableDomain DEF TypeOK, Table
<1> DEFINE row == [table[i] EXCEPT !.jid = jid]
<1>2. row \in TableRow
  BY <1>1, RegistryAssumption DEF TableRow
<1>3. table' = [table EXCEPT ![i] = row]
  OBVIOUS
<1> HIDE DEF row
<1>4. /\ table' \in Seq(TableRow) /\ Len(table') = Len(table)
      /\ \A j \in 1 .. Len(table) : table'[j] = IF j = i THEN row ELSE table[j]
  BY <1>1, <1>2, <1>3, ExceptSeq
<1> QED BY <1>1, <1>4 DEF Filled, Table, row

----------------------------------------------------------------------------
(* What a statement does to the queries.                                   *)

\* New rows are the newest of their paths; other paths and namespaces keep
\* theirs.
LEMMA LatestAfterInsert ==
  ASSUME NEW t \in Table, NEW u, NEW ns, Inserted(t, u, ns)
  PROVE  /\ \A i \in DOMAIN u \ DOMAIN t : i \in LatestIds(u, ns) /\ i > Len(t)
         /\ \A i \in DOMAIN t :
              i \in LatestIds(u, ns) <=>
                /\ i \in LatestIds(t, ns)
                /\ \A j \in DOMAIN u \ DOMAIN t : u[j].path # t[i].path
         /\ \A m : m # ns => LatestIds(u, m) = LatestIds(t, m)
<1>1. /\ Len(t) \in Nat /\ Len(u) \in Nat /\ Len(t) <= Len(u)
      /\ DOMAIN t = 1 .. Len(t) /\ DOMAIN u = 1 .. Len(u)
  BY TableDomain DEF Inserted
<1>2. ASSUME NEW i \in DOMAIN u \ DOMAIN t PROVE i \in LatestIds(u, ns) /\ i > Len(t)
  <2>1. i \in Nat /\ i > Len(t) /\ u[i].ns = ns
    BY <1>1 DEF Inserted
  <2>2. ASSUME NEW j \in DOMAIN u, u[j].ns = ns, u[j].path = u[i].path PROVE j <= i
    <3>1. CASE j \in DOMAIN t
      BY <1>1, <2>1, <3>1
    <3>2. CASE j \notin DOMAIN t
      BY <1>1, <2>2, <3>2 DEF Inserted
    <3> QED BY <3>1, <3>2
  <2> QED BY <2>1, <2>2 DEF LatestIds
<1>3. ASSUME NEW i \in DOMAIN t
      PROVE  i \in LatestIds(u, ns) <=>
               /\ i \in LatestIds(t, ns)
               /\ \A j \in DOMAIN u \ DOMAIN t : u[j].path # t[i].path
  <2>1. i \in DOMAIN u /\ u[i] = t[i] /\ i \in Nat /\ i <= Len(t)
    BY <1>1 DEF Inserted
  <2>2. ASSUME i \in LatestIds(u, ns), NEW j \in DOMAIN u \ DOMAIN t PROVE u[j].path # t[i].path
    <3>1. u[j].ns = ns /\ j > Len(t)
      BY <1>1 DEF Inserted
    <3> QED BY <1>1, <2>1, <2>2, <3>1 DEF LatestIds
  <2>3. i \in LatestIds(u, ns) => i \in LatestIds(t, ns)
    BY <1>1, <2>1 DEF LatestIds, Inserted
  <2>4. ASSUME i \in LatestIds(t, ns), \A j \in DOMAIN u \ DOMAIN t : u[j].path # t[i].path
        PROVE  i \in LatestIds(u, ns)
    BY <2>1, <2>4 DEF LatestIds, Inserted
  <2> QED BY <2>2, <2>3, <2>4
<1>4. ASSUME NEW m, m # ns PROVE LatestIds(u, m) = LatestIds(t, m)
  BY <1>1, <1>4 DEF LatestIds, Inserted
<1> QED BY <1>2, <1>3, <1>4

LEMMA LatestAfterFill ==
  ASSUME NEW t \in Table, NEW u, NEW i, NEW jid, Filled(t, u, i, jid)
  PROVE  /\ DOMAIN u = DOMAIN t
         /\ \A j \in DOMAIN t : /\ u[j].ns = t[j].ns /\ u[j].path = t[j].path
                               /\ u[j].deleted = t[j].deleted /\ u[j].stamp = t[j].stamp
                               /\ u[j].jid = IF j = i THEN jid ELSE t[j].jid
         /\ \A m : LatestIds(u, m) = LatestIds(t, m)
<1>1. DOMAIN u = DOMAIN t
  BY TableDomain DEF Filled
<1>2. ASSUME NEW j \in DOMAIN t
      PROVE  /\ u[j].ns = t[j].ns /\ u[j].path = t[j].path
             /\ u[j].deleted = t[j].deleted /\ u[j].stamp = t[j].stamp
             /\ u[j].jid = IF j = i THEN jid ELSE t[j].jid
  BY TableDomain DEF Filled, TableRow
<1> QED BY <1>1, <1>2 DEF LatestIds

LEMMA JidsAfterIndexer ==
  ASSUME NEW t \in Table, NEW u, NEW ns, Inserted(t, u, ns),
         \A i \in DOMAIN u \ DOMAIN t : u[i].jid = NoJid, NEW m
  PROVE  JidsIn(u, m) = JidsIn(t, m)
<1>1. DOMAIN t \subseteq DOMAIN u
  BY TableDomain DEF Inserted
<1>2. ASSUME NEW jid PROVE jid \in JidsIn(u, m) <=> jid \in JidsIn(t, m)
  BY <1>1, InJids DEF Inserted
<1> QED BY <1>2

LEMMA JidsAfterSyncer ==
  ASSUME NEW t \in Table, NEW u, NEW ns, Inserted(t, u, ns), Len(u) = Len(t) + 1,
         u[Len(u)].jid \in Jids, NEW m
  PROVE  JidsIn(u, m) = IF m = ns THEN JidsIn(t, m) \cup {u[Len(u)].jid} ELSE JidsIn(t, m)
<1>1. /\ DOMAIN t \subseteq DOMAIN u /\ DOMAIN u \ DOMAIN t = {Len(u)}
      /\ u[Len(u)].ns = ns /\ u[Len(u)].jid # NoJid
  <2>1. Len(t) \in Nat /\ DOMAIN t = 1 .. Len(t) /\ DOMAIN u = 1 .. Len(t) + 1
    BY TableDomain DEF Inserted
  <2>2. DOMAIN t \subseteq DOMAIN u /\ DOMAIN u \ DOMAIN t = {Len(u)}
    BY <2>1
  <2> QED BY <2>2, RegistryAssumption DEF Inserted, NoJid
<1>2. ASSUME NEW jid
      PROVE  jid \in JidsIn(u, m) <=> jid \in JidsIn(t, m) \/ (m = ns /\ jid = u[Len(u)].jid)
  BY <1>1, InJids DEF Inserted
<1> QED BY <1>2

LEMMA JidsAfterFill ==
  ASSUME NEW t \in Table, NEW u, NEW i, NEW jid \in Jids, Filled(t, u, i, jid), NEW m
  PROVE  JidsIn(u, m) = IF m = t[i].ns THEN JidsIn(t, m) \cup {jid} ELSE JidsIn(t, m)
<1>1. i \in DOMAIN t /\ t[i].jid = NoJid /\ jid # NoJid
  BY RegistryAssumption DEF Filled, NoJid
<1>2. ASSUME NEW n
      PROVE  n \in JidsIn(u, m) <=> n \in JidsIn(t, m) \/ (m = t[i].ns /\ n = jid)
  BY <1>1, InJids, LatestAfterFill
<1> QED BY <1>2

\* A jid more, and the cursor is the larger of the two.
LEMMA LargestOfMore ==
  ASSUME NEW S \in SUBSET Nat, NEW m, IsLargest(m, S \cup {0}), NEW jid \in Nat
  PROVE  IsLargest(Later(m, jid), (S \cup {jid}) \cup {0})
<1>1. m \in Nat
  BY DEF IsLargest
<1> QED BY <1>1 DEF IsLargest, Later

----------------------------------------------------------------------------
(* The invariants.                                                         *)

LEMMA TypeStep == TypeOK /\ [Next]_table => TypeOK'
<1> SUFFICES ASSUME TypeOK, [Next]_table PROVE TypeOK'
  OBVIOUS
<1>1. ASSUME NEW ns \in Namespaces, IndexerInsert(ns) PROVE TypeOK'
  BY <1>1, IndexerInserts DEF Inserted, TypeOK, Table
<1>2. ASSUME NEW ns \in Namespaces, SyncerInsert(ns) PROVE TypeOK'
  BY <1>2, SyncerInserts DEF Inserted, TypeOK, Table
<1>3. ASSUME NEW ns \in Namespaces, SyncerCommit(ns) PROVE TypeOK'
  BY <1>3, SyncerCommits DEF Filled, TypeOK, Table
<1> QED BY <1>1, <1>2, <1>3 DEF Next, TypeOK

\* The table holds rows, whatever the statements, for any namespaces and
\* paths (the schema of file_records).
THEOREM TypesOK == Spec => []TypeOK
<1>1. Init => TypeOK
  BY RegistryAssumption DEF Init, TypeOK
<1> QED BY <1>1, TypeStep, PTL DEF Spec

\* Each statement leaves each path with rows a newest one.
LEMMA NewestInsert ==
  ASSUME TypeOK, NewestInv, NEW ns \in Namespaces, Inserted(table, table', ns)
  PROVE  NewestInv'
<1> SUFFICES ASSUME NEW m \in Namespaces, NEW i \in DOMAIN table', table'[i].ns = m
             PROVE  \E j \in LatestIds(table', m) : table'[j].path = table'[i].path
  BY DEF NewestInv
<1> table \in Table
  BY DEF TypeOK, Table
<1>1. CASE i \notin DOMAIN table
  BY <1>1, LatestAfterInsert DEF Inserted
<1>2. CASE i \in DOMAIN table
  <2>1. PICK j \in LatestIds(table, m) : table[j].path = table[i].path
    BY <1>2 DEF NewestInv, Inserted
  <2>2. j \in DOMAIN table /\ table'[j] = table[j] /\ table'[i] = table[i]
    BY <1>2 DEF LatestIds, Inserted
  <2>3. CASE m # ns
    BY <2>1, <2>2, <2>3, LatestAfterInsert
  <2>4. CASE m = ns /\ \E k \in DOMAIN table' \ DOMAIN table : table'[k].path = table[j].path
    BY <2>1, <2>2, <2>4, LatestAfterInsert
  <2>5. CASE m = ns /\ \A k \in DOMAIN table' \ DOMAIN table : table'[k].path # table[j].path
    BY <2>1, <2>2, <2>5, LatestAfterInsert
  <2> QED BY <2>3, <2>4, <2>5
<1> QED BY <1>1, <1>2

LEMMA NewestStep == TypeOK /\ NewestInv /\ [Next]_table => NewestInv'
<1> SUFFICES ASSUME TypeOK, NewestInv, [Next]_table PROVE NewestInv'
  OBVIOUS
<1>1. ASSUME NEW ns \in Namespaces, IndexerInsert(ns) \/ SyncerInsert(ns) PROVE NewestInv'
  BY <1>1, IndexerInserts, SyncerInserts, NewestInsert
<1>2. ASSUME NEW ns \in Namespaces, SyncerCommit(ns) PROVE NewestInv'
  <2> PICK i \in DOMAIN table, jid \in Jids : Filled(table, table', i, jid)
    BY <1>2, SyncerCommits
  <2>1. table \in Table
    BY DEF TypeOK, Table
  <2>2. /\ DOMAIN table' = DOMAIN table
        /\ \A j \in DOMAIN table : table'[j].ns = table[j].ns /\ table'[j].path = table[j].path
        /\ \A m : LatestIds(table', m) = LatestIds(table, m)
    BY <2>1, LatestAfterFill
  <2>3. \A m : LatestIds(table, m) \subseteq DOMAIN table
    BY DEF LatestIds
  <2> QED BY <2>2, <2>3 DEF NewestInv
<1>3. CASE UNCHANGED table
  BY <1>3 DEF NewestInv
<1> QED BY <1>1, <1>2, <1>3 DEF Next

\* How the jids of each namespace may change in a step.
LEMMA JidsStep ==
  ASSUME TypeOK, [Next]_table, NEW m
  PROVE  \/ JidsIn(table', m) = JidsIn(table, m)
         \/ \E jid \in Jids : JidsIn(table', m) = JidsIn(table, m) \cup {jid}
<1>0. table \in Table
  BY DEF TypeOK, Table
<1>1. ASSUME NEW ns \in Namespaces, IndexerInsert(ns) PROVE JidsIn(table', m) = JidsIn(table, m)
  BY <1>0, <1>1, IndexerInserts, JidsAfterIndexer
<1>2. ASSUME NEW ns \in Namespaces, SyncerInsert(ns)
      PROVE  \/ JidsIn(table', m) = JidsIn(table, m)
             \/ \E jid \in Jids : JidsIn(table', m) = JidsIn(table, m) \cup {jid}
  <2>1. /\ Inserted(table, table', ns) /\ Len(table') = Len(table) + 1
        /\ table'[Len(table')].jid \in Jids
    BY <1>2, SyncerInserts
  <2> QED BY <1>0, <2>1, JidsAfterSyncer
<1>3. ASSUME NEW ns \in Namespaces, SyncerCommit(ns)
      PROVE  \/ JidsIn(table', m) = JidsIn(table, m)
             \/ \E jid \in Jids : JidsIn(table', m) = JidsIn(table, m) \cup {jid}
  <2>1. PICK i \in DOMAIN table, jid \in Jids : Filled(table, table', i, jid)
    BY <1>3, SyncerCommits
  <2> QED BY <1>0, <2>1, JidsAfterFill
<1> QED BY <1>1, <1>2, <1>3 DEF Next

LEMMA LargestStep == TypeOK /\ LargestInv /\ [Next]_table => LargestInv'
<1> SUFFICES ASSUME TypeOK, LargestInv, [Next]_table, NEW ns \in Namespaces
             PROVE  \E m : IsLargest(m, JidsIn(table', ns) \cup {0})
  BY DEF LargestInv
<1>1. JidsIn(table, ns) \in SUBSET Nat
  BY JidsAreNat DEF TypeOK, Table
<1>2. PICK m : IsLargest(m, JidsIn(table, ns) \cup {0})
  BY DEF LargestInv
<1>3. ASSUME NEW jid \in Jids, JidsIn(table', ns) = JidsIn(table, ns) \cup {jid}
      PROVE  IsLargest(Later(m, jid), JidsIn(table', ns) \cup {0})
  BY <1>1, <1>2, <1>3, LargestOfMore, RegistryAssumption
<1> QED BY <1>2, <1>3, JidsStep

LEMMA Invariants == Spec => [](NewestInv /\ LargestInv)
<1>1. Init => NewestInv /\ LargestInv
  <2> SUFFICES ASSUME Init PROVE NewestInv /\ LargestInv
    OBVIOUS
  <2>1. DOMAIN table = {}
    BY DEF Init
  <2>2. \A ns : JidsIn(table, ns) = {}
    BY <2>1, InJids
  <2>3. IsLargest(0, {} \cup {0})
    BY DEF IsLargest
  <2> QED BY <2>1, <2>2, <2>3 DEF NewestInv, LargestInv
<1> QED BY <1>1, NewestStep, LargestStep, TypesOK, PTL DEF Spec

----------------------------------------------------------------------------
(* What the callers rely on.                                               *)

LEMMA CursorIsLargest ==
  ASSUME NEW t \in Table, NEW ns, NEW m, IsLargest(m, JidsIn(t, ns) \cup {0})
  PROVE  TableLatestJid(t, ns) = m /\ m \in Nat
<1>1. JidsIn(t, ns) \cup {0} \in SUBSET Nat
  BY JidsAreNat
<1> QED BY <1>1, MaxIsLargest DEF TableLatestJid, IsLargest

\* How the cursor of each namespace may change in a step: as its jids do.
LEMMA CursorStep ==
  ASSUME TypeOK, LargestInv, [Next]_table, NEW ns \in Namespaces
  PROVE  /\ TableLatestJid(table, ns) \in Nat
         /\ JidsIn(table', ns) = JidsIn(table, ns) =>
              TableLatestJid(table', ns) = TableLatestJid(table, ns)
         /\ \A jid \in Jids :
              JidsIn(table', ns) = JidsIn(table, ns) \cup {jid} =>
                TableLatestJid(table', ns) = Later(TableLatestJid(table, ns), jid)
<1>1. table \in Table /\ table' \in Table /\ JidsIn(table, ns) \in SUBSET Nat
  BY TypeStep, JidsAreNat DEF TypeOK, Table
<1>2. PICK m : IsLargest(m, JidsIn(table, ns) \cup {0})
  BY DEF LargestInv
<1>3. TableLatestJid(table, ns) = m /\ m \in Nat
  BY <1>1, <1>2, CursorIsLargest
<1>4. ASSUME JidsIn(table', ns) = JidsIn(table, ns) PROVE TableLatestJid(table', ns) = m
  BY <1>1, <1>2, <1>4, CursorIsLargest
<1>5. ASSUME NEW jid \in Jids, JidsIn(table', ns) = JidsIn(table, ns) \cup {jid}
      PROVE  TableLatestJid(table', ns) = Later(m, jid)
  <2>1. IsLargest(Later(m, jid), JidsIn(table', ns) \cup {0})
    BY <1>1, <1>2, <1>5, LargestOfMore, RegistryAssumption
  <2> QED BY <1>1, <2>1, CursorIsLargest
<1> QED BY <1>3, <1>4, <1>5

\* The cursor sent to the server never falls, for any number of namespaces
\* and in whatever order rows and jids come (registry::latest_jid).
THEOREM CursorGrows == Spec => CursorNeverFalls
<1>1. TypeOK /\ LargestInv /\ [Next]_table =>
        [\A ns \in Namespaces : TableLatestJid(table, ns) <= TableLatestJid(table', ns)]_table
  <2> SUFFICES ASSUME TypeOK, LargestInv, [Next]_table, NEW ns \in Namespaces
               PROVE  TableLatestJid(table, ns) <= TableLatestJid(table', ns)
    OBVIOUS
  <2>1. CASE JidsIn(table', ns) = JidsIn(table, ns)
    BY <2>1, CursorStep
  <2>2. ASSUME NEW jid \in Jids, JidsIn(table', ns) = JidsIn(table, ns) \cup {jid}
        PROVE  TableLatestJid(table, ns) <= TableLatestJid(table', ns)
    <3>1. jid \in Nat
      BY RegistryAssumption
    <3> QED BY <2>2, <3>1, CursorStep DEF Later
  <2> QED BY <2>1, <2>2, JidsStep
<1> QED BY <1>1, TypesOK, Invariants, PTL DEF Spec, CursorNeverFalls

\* A path of a namespace has its newest row in the view, or no row at all.
LEMMA ViewRow ==
  ASSUME TypeOK, NewestInv, NEW ns \in Namespaces, NEW p \in Paths
  PROVE  \/ \E i \in LatestIds(table, ns) :
              table[i].path = p /\ ViewOf(ns).row[p] = RowOf(i, table[i])
         \/ /\ \A i \in DOMAIN table : table[i].ns = ns => table[i].path # p
            /\ ViewOf(ns).row[p] = NoRow
<1>1. table \in Table /\ ViewOf(ns).row[p] = LatestRow(table, ns, p)
  BY DEF TypeOK, Table, ViewOf
<1>2. CASE \E i \in LatestIds(table, ns) : table[i].path = p
  BY <1>1, <1>2, LatestIs
<1>3. CASE \A i \in LatestIds(table, ns) : table[i].path # p
  <2>1. \A i \in DOMAIN table : table[i].ns = ns => table[i].path # p
    BY <1>3 DEF NewestInv
  <2> QED BY <1>1, <2>1, NoLatest
<1> QED BY <1>2, <1>3

LEMMA RowFields ==
  ASSUME NEW i, NEW row
  PROVE  /\ RowOf(i, row).id = i /\ RowOf(i, row).jid = row.jid
         /\ RowOf(i, row).deleted = row.deleted /\ RowOf(i, row).stamp = row.stamp
BY DEF RowOf

LEMMA EmptyRow == NoRow.id = 0 /\ NoRow.deleted
BY DEF NoRow

LEMMA QueriesMatch == TypeOK /\ NewestInv => QueriesMatchView
<1> SUFFICES ASSUME TypeOK, NewestInv, NEW ns \in Namespaces
             PROVE  /\ NonDeleted(ViewOf(ns)) = {table[i].path : i \in NonDeletedIds(table, ns)}
                    /\ UpdatedLocally(ViewOf(ns)) = {table[i].path : i \in UpdatedLocallyIds(table, ns)}
                    /\ \A i, j \in LatestIds(table, ns) : table[i].path = table[j].path => i = j
  BY DEF QueriesMatchView
<1>1. /\ table \in Table /\ DOMAIN table = 1 .. Len(table) /\ Len(table) \in Nat
      /\ \A i \in DOMAIN table : table[i] \in TableRow
  BY TableDomain DEF TypeOK, Table
<1>2. ASSUME NEW i \in LatestIds(table, ns)
      PROVE  /\ table[i].path \in Paths /\ i # 0
             /\ ViewOf(ns).row[table[i].path] = RowOf(i, table[i])
  <2>1. i \in DOMAIN table /\ i # 0 /\ table[i].path \in Paths
    BY <1>1 DEF LatestIds, TableRow
  <2> QED BY <1>1, <2>1, LatestIs DEF ViewOf
<1>3. ASSUME NEW i \in LatestIds(table, ns), NEW j \in LatestIds(table, ns),
             table[i].path = table[j].path
      PROVE  i = j
  BY <1>1, <1>3 DEF LatestIds
<1>4. ASSUME NEW p
      PROVE  p \in NonDeleted(ViewOf(ns)) <=>
               \E i \in NonDeletedIds(table, ns) : p = table[i].path
  <2>1. ASSUME p \in NonDeleted(ViewOf(ns))
        PROVE  \E i \in NonDeletedIds(table, ns) : p = table[i].path
    <3>1. p \in Paths /\ ~ ViewOf(ns).row[p].deleted
      BY <2>1 DEF NonDeleted
    <3>2. PICK i \in LatestIds(table, ns) :
            table[i].path = p /\ ViewOf(ns).row[p] = RowOf(i, table[i])
      BY <3>1, ViewRow, EmptyRow
    <3>3. ~ table[i].deleted
      BY <3>1, <3>2, RowFields
    <3> QED BY <3>2, <3>3 DEF NonDeletedIds
  <2>2. ASSUME NEW i \in NonDeletedIds(table, ns), p = table[i].path
        PROVE  p \in NonDeleted(ViewOf(ns))
    <3>1. i \in LatestIds(table, ns) /\ ~ table[i].deleted
      BY DEF NonDeletedIds
    <3>2. p \in Paths /\ ViewOf(ns).row[p] = RowOf(i, table[i])
      BY <1>2, <2>2, <3>1
    <3>3. ~ ViewOf(ns).row[p].deleted
      BY <3>1, <3>2, RowFields
    <3> QED BY <3>2, <3>3 DEF NonDeleted
  <2> QED BY <2>1, <2>2
<1>5. ASSUME NEW p
      PROVE  p \in UpdatedLocally(ViewOf(ns)) <=>
               \E i \in UpdatedLocallyIds(table, ns) : p = table[i].path
  <2>1. ASSUME p \in UpdatedLocally(ViewOf(ns))
        PROVE  \E i \in UpdatedLocallyIds(table, ns) : p = table[i].path
    <3>1. p \in Paths /\ ViewOf(ns).row[p].id # 0 /\ ViewOf(ns).row[p].jid = NoJid
      BY <2>1 DEF UpdatedLocally, HasRow
    <3>2. PICK i \in LatestIds(table, ns) :
            table[i].path = p /\ ViewOf(ns).row[p] = RowOf(i, table[i])
      BY <3>1, ViewRow, EmptyRow
    <3>3. table[i].jid = NoJid
      BY <3>1, <3>2, RowFields
    <3> QED BY <3>2, <3>3 DEF UpdatedLocallyIds
  <2>2. ASSUME NEW i \in UpdatedLocallyIds(table, ns), p = table[i].path
        PROVE  p \in UpdatedLocally(ViewOf(ns))
    <3>1. i \in LatestIds(table, ns) /\ table[i].jid = NoJid
      BY DEF UpdatedLocallyIds
    <3>2. p \in Paths /\ i # 0 /\ ViewOf(ns).row[p] = RowOf(i, table[i])
      BY <1>2, <2>2, <3>1
    <3>3. ViewOf(ns).row[p].id # 0 /\ ViewOf(ns).row[p].jid = NoJid
      BY <3>1, <3>2, RowFields
    <3> QED BY <3>2, <3>3 DEF UpdatedLocally, HasRow
  <2> QED BY <2>1, <2>2
<1> QED BY <1>3, <1>4, <1>5

\* The rows that non_deleted and updated_locally single out by their subquery,
\* max(id) GROUP BY path (registry.rs), are those that hold for each path by
\* looking up its newest row alone (ViewOf): for any number of paths,
\* namespaces and rows, each path once, and no row of another namespace.
THEOREM QueriesAreRight == Spec => []QueriesMatchView
BY TypesOK, Invariants, QueriesMatch, PTL

----------------------------------------------------------------------------
(* The table implements the view.                                          *)

\* The rows of the view after rows were inserted: the new ones supersede.
LEMMA RowsAfterInsert ==
  ASSUME TypeOK, NewestInv, NEW ns \in Namespaces, Inserted(table, table', ns), TypeOK'
  PROVE  /\ \A m \in Namespaces \ {ns}, p \in Paths :
              LatestRow(table', m, p) = LatestRow(table, m, p)
         /\ \A i \in DOMAIN table' \ DOMAIN table :
              LatestRow(table', ns, table'[i].path) = RowOf(i, table'[i])
         /\ \A p \in Paths :
              (\A i \in DOMAIN table' \ DOMAIN table : table'[i].path # p) =>
                LatestRow(table', ns, p) = LatestRow(table, ns, p)
<1>1. table \in Table /\ table' \in Table
  BY DEF TypeOK, Table
<1>2. ASSUME NEW i \in DOMAIN table' \ DOMAIN table
      PROVE  LatestRow(table', ns, table'[i].path) = RowOf(i, table'[i])
  BY <1>1, LatestAfterInsert, LatestIs
<1>3. ASSUME NEW m \in Namespaces, NEW p \in Paths,
             m = ns => \A i \in DOMAIN table' \ DOMAIN table : table'[i].path # p
      PROVE  LatestRow(table', m, p) = LatestRow(table, m, p)
  <2>1. CASE \E i \in LatestIds(table, m) : table[i].path = p
    <3> PICK i \in LatestIds(table, m) : table[i].path = p
      BY <2>1
    <3>1. i \in DOMAIN table /\ table'[i] = table[i]
      BY DEF LatestIds, Inserted
    <3>2. i \in LatestIds(table', m)
      BY <1>1, <1>3, <3>1, LatestAfterInsert
    <3> QED BY <1>1, <3>1, <3>2, LatestIs
  <2>2. CASE \A i \in LatestIds(table, m) : table[i].path # p
    <3>1. \A i \in DOMAIN table : table[i].ns = m => table[i].path # p
      BY <2>2 DEF NewestInv
    <3>2. ASSUME NEW i \in DOMAIN table', table'[i].ns = m PROVE table'[i].path # p
      BY <1>3, <3>1, <3>2 DEF Inserted
    <3> QED BY <3>1, <3>2, NoLatest
  <2> QED BY <2>1, <2>2
<1> QED BY <1>2, <1>3

\* The rows of the view after a jid was filled in.
LEMMA RowsAfterFill ==
  ASSUME TypeOK, NewestInv, TypeOK', NEW i, NEW jid \in Jids, Filled(table, table', i, jid),
         NEW m \in Namespaces, NEW p \in Paths
  PROVE  LatestRow(table', m, p) =
           IF m = table[i].ns /\ p = table[i].path /\ LatestRow(table, m, p).id = i
           THEN [LatestRow(table, m, p) EXCEPT !.jid = jid]
           ELSE LatestRow(table, m, p)
<1>1. /\ table \in Table /\ table' \in Table /\ i \in DOMAIN table /\ i # 0
      /\ \A j \in DOMAIN table : table[j] \in TableRow
  BY TableDomain DEF TypeOK, Table, Filled
<1>2. /\ \A j \in DOMAIN table : /\ table'[j].ns = table[j].ns /\ table'[j].path = table[j].path
                                 /\ table'[j].deleted = table[j].deleted
                                 /\ table'[j].stamp = table[j].stamp
                                 /\ table'[j].jid = IF j = i THEN jid ELSE table[j].jid
      /\ LatestIds(table', m) = LatestIds(table, m) /\ DOMAIN table' = DOMAIN table
  BY <1>1, LatestAfterFill
<1>3. CASE \E j \in LatestIds(table, m) : table[j].path = p
  <2> PICK j \in LatestIds(table, m) : table[j].path = p
    BY <1>3
  <2>1. j \in DOMAIN table /\ table[j].ns = m
    BY DEF LatestIds
  <2>2. LatestRow(table, m, p) = RowOf(j, table[j]) /\ LatestRow(table', m, p) = RowOf(j, table'[j])
    BY <1>1, <1>2, <2>1, LatestIs
  <2> QED BY <1>2, <2>1, <2>2 DEF RowOf
<1>4. CASE \A j \in LatestIds(table, m) : table[j].path # p
  <2>1. \A j \in DOMAIN table : table[j].ns = m => table[j].path # p
    BY <1>4 DEF NewestInv
  <2>2. LatestRow(table, m, p) = NoRow /\ LatestRow(table', m, p) = NoRow
    BY <1>2, <2>1, NoLatest
  <2> QED BY <1>1, <2>2 DEF NoRow
<1> QED BY <1>3, <1>4

\* The view of a table.
LEMMA ViewIs ==
  ASSUME NEW ns
  PROVE  /\ ViewOf(ns) = [row |-> [p \in Paths |-> LatestRow(table, ns, p)],
                          jids |-> JidsIn(table, ns), cursor |-> TableLatestJid(table, ns)]
         /\ ViewOf(ns)' = [row |-> [p \in Paths |-> LatestRow(table', ns, p)],
                           jids |-> JidsIn(table', ns), cursor |-> TableLatestJid(table', ns)]
BY DEF ViewOf

\* The abstract registry has its own copy of the operators on views.
LEMMA SameOperators ==
  ASSUME NEW ns, NEW v, NEW x, NEW y, NEW z
  PROVE  /\ Abstract(ns)!NoJid = NoJid /\ Abstract(ns)!EmptyView = EmptyView
         /\ Abstract(ns)!InsertLocal(v, x, y) = InsertLocal(v, x, y)
         /\ Abstract(ns)!InsertRemote(v, x, y, z) = InsertRemote(v, x, y, z)
         /\ Abstract(ns)!UpdateJid(v, x, y, z) = UpdateJid(v, x, y, z)
<1> USE DEF NoJid, Abstract!NoJid, RowOf, Abstract!RowOf, Later, Abstract!Later
<1>1. Abstract(ns)!NoJid = NoJid /\ Abstract(ns)!EmptyView = EmptyView
  BY DEF EmptyView, Abstract!EmptyView, NoRow, Abstract!NoRow
<1>2. Abstract(ns)!InsertLocal(v, x, y) = InsertLocal(v, x, y)
  BY DEF InsertLocal, Abstract!InsertLocal
<1>3. Abstract(ns)!InsertRemote(v, x, y, z) = InsertRemote(v, x, y, z)
  BY DEF InsertRemote, Abstract!InsertRemote
<1>4. Abstract(ns)!UpdateJid(v, x, y, z) = UpdateJid(v, x, y, z)
  BY DEF UpdateJid, Abstract!UpdateJid
<1> QED BY <1>1, <1>2, <1>3, <1>4

\* A namespace sees nothing of the statements for another.
LEMMA OthersUnchanged ==
  ASSUME NEW ns, JidsIn(table', ns) = JidsIn(table, ns),
         TableLatestJid(table', ns) = TableLatestJid(table, ns),
         \A p \in Paths : LatestRow(table', ns, p) = LatestRow(table, ns, p)
  PROVE  ViewOf(ns)' = ViewOf(ns)
<1>1. [p \in Paths |-> LatestRow(table', ns, p)] = [p \in Paths |-> LatestRow(table, ns, p)]
  OBVIOUS
<1> QED BY <1>1, ViewIs

\* The indexer's insert notes changes.
LEMMA IndexerNotes ==
  ASSUME TypeOK, NewestInv, LargestInv, NEW ns \in Namespaces, IndexerInsert(ns)
  PROVE  /\ Abstract(ns)!NoteChanges
         /\ \A m \in Namespaces \ {ns} : ViewOf(m)' = ViewOf(m)
<1>1. /\ Inserted(table, table', ns) /\ Len(table') <= MaxRows
      /\ \A i \in DOMAIN table' \ DOMAIN table :
           table'[i].jid = NoJid /\ table'[i].stamp \in Stamps
  BY IndexerInserts
<1>2. TypeOK' /\ [Next]_table
  BY TypeStep DEF Next
<1>3. /\ table \in Table /\ table' \in Table
      /\ Len(table) \in Nat /\ DOMAIN table = 1 .. Len(table)
      /\ Len(table') \in Nat /\ DOMAIN table' = 1 .. Len(table')
      /\ \A i \in DOMAIN table' : table'[i] \in TableRow
  BY <1>2, TableDomain DEF TypeOK, Table
<1>4. \A m \in Namespaces : /\ JidsIn(table', m) = JidsIn(table, m)
                           /\ TableLatestJid(table', m) = TableLatestJid(table, m)
  BY <1>1, <1>2, <1>3, JidsAfterIndexer, CursorStep
<1> DEFINE New == DOMAIN table' \ DOMAIN table
           changed == {table'[i].path : i \in New}
           Id(p) == CHOOSE i \in New : table'[i].path = p
           ids == [p \in changed |-> Id(p)]
           forms == [p \in changed |-> [jid |-> NoJid, deleted |-> table'[Id(p)].deleted,
                                         stamp |-> table'[Id(p)].stamp]]
<1>5. ASSUME NEW p \in changed
      PROVE  /\ p \in Paths /\ Id(p) \in New /\ table'[Id(p)].path = p
             /\ Id(p) \in 1 .. MaxRows /\ Id(p) > Len(table)
  <2>1. Id(p) \in New /\ table'[Id(p)].path = p
    OBVIOUS
  <2> HIDE DEF Id
  <2> QED BY <1>1, <1>3, <2>1, RegistryAssumption DEF TableRow
<1>6. ids \in [changed -> 1 .. MaxRows]
  BY <1>5
<1>7. forms \in [changed -> [jid : {NoJid}, deleted : BOOLEAN, stamp : Stamps]]
  <2>1. ASSUME NEW p \in changed
        PROVE  table'[Id(p)].deleted \in BOOLEAN /\ table'[Id(p)].stamp \in Stamps
    BY <1>1, <1>3, <1>5 DEF TableRow
  <2> HIDE DEF changed, Id
  <2> QED BY <2>1
<1>8. ASSUME NEW p \in changed
      PROVE  ids[p] > ViewOf(ns).row[p].id /\ ViewOf(ns).row[p].id \in 0 .. MaxRows
  <2>1. p \in Paths /\ ids[p] \in Nat /\ ids[p] > Len(table)
    BY <1>3, <1>5
  <2>2. ViewOf(ns).row[p].id <= Len(table) /\ ViewOf(ns).row[p].id \in Nat
    <3>1. \A i \in LatestIds(table, ns) : i \in 1 .. Len(table)
      BY <1>3 DEF LatestIds
    <3> QED BY <1>3, <2>1, <3>1, ViewRow, RowFields, EmptyRow
  <2>3. Len(table) <= MaxRows /\ MaxRows \in Nat
    BY RegistryAssumption DEF TypeOK
  <2> QED BY <1>3, <2>1, <2>2, <2>3
<1>9. ViewOf(ns)' = InsertLocal(ViewOf(ns), forms, ids)
  <2> DEFINE row == [p \in Paths |-> LatestRow(table', ns, p)]
             new == [p \in Paths |-> IF p \in changed THEN RowOf(ids[p], forms[p])
                                      ELSE ViewOf(ns).row[p]]
  <2>1. ASSUME NEW p \in changed PROVE LatestRow(table', ns, p) = RowOf(ids[p], forms[p])
    <3>1. LatestRow(table', ns, p) = RowOf(Id(p), table'[Id(p)])
      BY <1>1, <1>2, <1>5, RowsAfterInsert
    <3>2. table'[Id(p)].jid = NoJid
      BY <1>1, <1>5
    <3>3. ids[p] = Id(p) /\ forms[p] = [jid |-> NoJid, deleted |-> table'[Id(p)].deleted,
                                         stamp |-> table'[Id(p)].stamp]
      OBVIOUS
    <3> HIDE DEF Id, ids, forms, changed
    <3> QED BY <3>1, <3>2, <3>3 DEF RowOf
  <2>2. ASSUME NEW p \in Paths, p \notin changed
        PROVE  LatestRow(table', ns, p) = ViewOf(ns).row[p]
    <3>1. \A i \in DOMAIN table' \ DOMAIN table : table'[i].path # p
      BY <2>2
    <3>2. LatestRow(table', ns, p) = LatestRow(table, ns, p)
      BY <1>1, <1>2, <3>1, RowsAfterInsert
    <3> QED BY <3>2, ViewIs
  <2> HIDE DEF Id, ids, forms, changed
  <2>3. row = new
    BY <2>1, <2>2
  <2>4. DOMAIN forms = changed
    BY DEF forms
  <2>5. InsertLocal(ViewOf(ns), forms, ids) = [ViewOf(ns) EXCEPT !.row = new]
    BY <2>4 DEF InsertLocal
  <2> HIDE DEF new
  <2>6. [ViewOf(ns) EXCEPT !.row = new] =
          [row |-> new, jids |-> JidsIn(table, ns), cursor |-> TableLatestJid(table, ns)]
    BY ViewIs
  <2> QED BY <1>4, <2>3, <2>5, <2>6, ViewIs
<1>10. Abstract(ns)!NoteChanges
  <2>1. changed \in SUBSET Paths
    BY <1>5
  <2> HIDE DEF Id, ids, forms, changed
  <2>2. /\ \A p \in changed :
             <<ids[p], ViewOf(ns).row[p].id>> \in
               {i \in (1 .. MaxRows) \X (0 .. MaxRows) : i[1] > i[2]}
        /\ ViewOf(ns)' = Abstract(ns)!InsertLocal(ViewOf(ns), forms, ids)
    BY <1>6, <1>8, <1>9, SameOperators
  <2>3. forms \in [changed -> Abstract(ns)!LocalForm]
    BY <1>7, SameOperators DEF Abstract!LocalForm
  <2> QED BY <1>6, <2>1, <2>2, <2>3 DEF Abstract!NoteChanges
<1>11. ASSUME NEW m \in Namespaces \ {ns} PROVE ViewOf(m)' = ViewOf(m)
  BY <1>1, <1>2, <1>4, RowsAfterInsert, OthersUnchanged
<1> QED BY <1>10, <1>11

\* The syncer's insert notes an applied record.
LEMMA SyncerNotes ==
  ASSUME TypeOK, NewestInv, LargestInv, NEW ns \in Namespaces, SyncerInsert(ns)
  PROVE  /\ Abstract(ns)!NoteApplied
         /\ \A m \in Namespaces \ {ns} : ViewOf(m)' = ViewOf(m)
<1>1. TypeOK' /\ [Next]_table
  BY TypeStep DEF Next
<1> PICK row \in [ns : {ns}, path : Paths, jid : Jids, deleted : BOOLEAN, stamp : Stamps] :
      /\ Inserted(table, table', ns) /\ Len(table') = Len(table) + 1
      /\ table'[Len(table')] = row /\ Len(table') <= MaxRows
  BY SyncerInserts
<1> DEFINE id == Len(table') p == row.path
<1>2. /\ table \in Table /\ Len(table) \in Nat /\ DOMAIN table = 1 .. Len(table)
      /\ DOMAIN table' = 1 .. Len(table') /\ DOMAIN table' \ DOMAIN table = {id}
      /\ id \in 1 .. MaxRows
  <2>1. /\ table \in Table /\ table' \in Table
        /\ Len(table) \in Nat /\ DOMAIN table = 1 .. Len(table)
        /\ Len(table') \in Nat /\ DOMAIN table' = 1 .. Len(table')
    BY <1>1, TableDomain DEF TypeOK, Table
  <2> QED BY <2>1, RegistryAssumption
<1>3. /\ p \in Paths /\ row.jid \in Jids /\ row.deleted \in BOOLEAN /\ row.stamp \in Stamps
  OBVIOUS
<1>4. ASSUME NEW m \in Namespaces
      PROVE  JidsIn(table', m) = IF m = ns THEN JidsIn(table, m) \cup {row.jid} ELSE JidsIn(table, m)
  BY <1>2, <1>3, JidsAfterSyncer
<1>5. ASSUME NEW m \in Namespaces
      PROVE  TableLatestJid(table', m) =
               IF m = ns THEN Later(TableLatestJid(table, m), row.jid) ELSE TableLatestJid(table, m)
  BY <1>1, <1>3, <1>4, CursorStep
<1>6. <<id, ViewOf(ns).row[p].id>> \in {i \in (1 .. MaxRows) \X (0 .. MaxRows) : i[1] > i[2]}
  <2>1. ViewOf(ns).row[p].id <= Len(table) /\ ViewOf(ns).row[p].id \in Nat
    <3>1. \A i \in LatestIds(table, ns) : i \in 1 .. Len(table)
      BY <1>2 DEF LatestIds
    <3> QED BY <1>2, <1>3, <3>1, ViewRow, RowFields, EmptyRow
  <2>2. Len(table) <= MaxRows /\ MaxRows \in Nat
    BY RegistryAssumption DEF TypeOK
  <2>3. PICK j \in 0 .. MaxRows : j = ViewOf(ns).row[p].id
    BY <1>2, <2>1, <2>2
  <2>4. id \in 1 .. MaxRows /\ id > j
    BY <1>2, <2>1, <2>3
  <2> QED BY <2>3, <2>4
<1> DEFINE form == [jid |-> row.jid, deleted |-> row.deleted, stamp |-> row.stamp]
<1>7. ViewOf(ns)' = InsertRemote(ViewOf(ns), p, form, id)
  <2> DEFINE rows == [q \in Paths |-> LatestRow(table', ns, q)]
             old == [q \in Paths |-> LatestRow(table, ns, q)]
  <2>1. LatestRow(table', ns, p) = RowOf(id, row)
    BY <1>1, <1>2, RowsAfterInsert
  <2>2. RowOf(id, form) = RowOf(id, row)
    BY DEF RowOf
  <2>3. ASSUME NEW q \in Paths, q # p PROVE LatestRow(table', ns, q) = LatestRow(table, ns, q)
    <3>1. \A i \in DOMAIN table' \ DOMAIN table : table'[i].path # q
      BY <1>2, <2>3
    <3> QED BY <1>1, <3>1, RowsAfterInsert
  <2>4. rows = [old EXCEPT ![p] = RowOf(id, form)]
    <3> HIDE DEF p, id, form
    <3> QED BY <1>3, <2>1, <2>2, <2>3
  <2>5. form.jid = row.jid
    OBVIOUS
  <2> HIDE DEF rows, old, form, p, id
  <2>6. ViewOf(ns) = [row |-> old, jids |-> JidsIn(table, ns), cursor |-> TableLatestJid(table, ns)]
        /\ ViewOf(ns)' = [row |-> rows, jids |-> JidsIn(table', ns), cursor |-> TableLatestJid(table', ns)]
    BY ViewIs DEF old, rows
  <2>7. /\ ViewOf(ns).row = old /\ ViewOf(ns).jids = JidsIn(table, ns)
        /\ ViewOf(ns).cursor = TableLatestJid(table, ns)
    BY <2>6
  <2>8. InsertRemote(ViewOf(ns), p, form, id) =
          [row    |-> [old EXCEPT ![p] = RowOf(id, form)],
           jids   |-> JidsIn(table, ns) \cup {row.jid},
           cursor |-> Later(TableLatestJid(table, ns), row.jid)]
    BY <2>5, <2>7 DEF InsertRemote
  <2> QED BY <1>4, <1>5, <2>4, <2>6, <2>8
<1>8. Abstract(ns)!NoteApplied
  <2>1. ViewOf(ns)' = Abstract(ns)!InsertRemote(ViewOf(ns), p, form, id)
    BY <1>7, SameOperators
  <2> QED BY <1>2, <1>3, <1>6, <2>1 DEF Abstract!NoteApplied
<1>9. ASSUME NEW m \in Namespaces \ {ns} PROVE ViewOf(m)' = ViewOf(m)
  BY <1>1, <1>4, <1>5, RowsAfterInsert, OthersUnchanged
<1> QED BY <1>8, <1>9

\* The syncer's update notes a committed row, superseded or not.
LEMMA CommitNotes ==
  ASSUME TypeOK, NewestInv, LargestInv, NEW ns \in Namespaces, SyncerCommit(ns)
  PROVE  /\ Abstract(ns)!NoteCommitted
         /\ \A m \in Namespaces \ {ns} : ViewOf(m)' = ViewOf(m)
<1>1. TypeOK' /\ [Next]_table
  BY TypeStep DEF Next
<1> PICK i \in DOMAIN table, jid \in Jids :
      table[i].ns = ns /\ Filled(table, table', i, jid)
  BY SyncerCommits
<1> DEFINE p == table[i].path
<1>2. table \in Table /\ i \in 1 .. MaxRows /\ p \in Paths /\ i # 0 /\ table[i].jid = NoJid
  <2>1. /\ table \in Table /\ Len(table) \in Nat /\ DOMAIN table = 1 .. Len(table)
        /\ Len(table) <= MaxRows /\ table[i] \in TableRow
    BY TableDomain DEF TypeOK, Table
  <2> QED BY <2>1, RegistryAssumption DEF TableRow, Filled
<1>3. ASSUME NEW m \in Namespaces
      PROVE  JidsIn(table', m) = IF m = ns THEN JidsIn(table, m) \cup {jid} ELSE JidsIn(table, m)
  BY <1>2, JidsAfterFill
<1>4. ASSUME NEW m \in Namespaces
      PROVE  TableLatestJid(table', m) =
               IF m = ns THEN Later(TableLatestJid(table, m), jid) ELSE TableLatestJid(table, m)
  BY <1>1, <1>3, CursorStep
<1>5. ViewOf(ns).row[p].id = i => ViewOf(ns).row[p].jid = NoJid
  BY <1>2, ViewRow, RowFields, EmptyRow
<1>6. ViewOf(ns)' = UpdateJid(ViewOf(ns), p, i, jid)
  <2> DEFINE rows == [q \in Paths |-> LatestRow(table', ns, q)]
             old == [q \in Paths |-> LatestRow(table, ns, q)]
  <2>1. ASSUME NEW q \in Paths
        PROVE  LatestRow(table', ns, q) =
                 IF q = p /\ LatestRow(table, ns, q).id = i
                 THEN [LatestRow(table, ns, q) EXCEPT !.jid = jid]
                 ELSE LatestRow(table, ns, q)
    BY <1>1, RowsAfterFill
  <2>2. old[p] = LatestRow(table, ns, p)
    BY <1>2
  <2>3. rows = IF old[p].id = i THEN [old EXCEPT ![p].jid = jid] ELSE old
    <3> HIDE DEF p
    <3> QED BY <1>2, <2>1
  <2> HIDE DEF rows, old, p
  <2>4. ViewOf(ns) = [row |-> old, jids |-> JidsIn(table, ns), cursor |-> TableLatestJid(table, ns)]
        /\ ViewOf(ns)' = [row |-> rows, jids |-> JidsIn(table', ns), cursor |-> TableLatestJid(table', ns)]
    BY ViewIs DEF old, rows
  <2> QED BY <1>3, <1>4, <2>3, <2>4 DEF UpdateJid
<1>7. Abstract(ns)!NoteCommitted
  <2>1. ViewOf(ns)' = Abstract(ns)!UpdateJid(ViewOf(ns), p, i, jid)
        /\ Abstract(ns)!NoJid = NoJid
    BY <1>6, SameOperators
  <2> QED BY <1>2, <1>5, <2>1 DEF Abstract!NoteCommitted
<1>8. ASSUME NEW m \in Namespaces \ {ns} PROVE ViewOf(m)' = ViewOf(m)
  BY <1>1, <1>3, <1>4, RowsAfterFill, OthersUnchanged
<1> QED BY <1>7, <1>8

\* Each namespace sees a registry of its own that moves as RegistryView says,
\* for any namespaces, paths, jids and any length of the table (registry.rs):
\* every statement is one step of one namespace's view.
THEOREM TableImplementsView == Spec => ImplementsView
<1>1. Init => \A ns \in Namespaces : Abstract(ns)!Init
  <2> SUFFICES ASSUME Init, NEW ns \in Namespaces PROVE ViewOf(ns) = EmptyView
    BY SameOperators DEF Abstract!Init
  <2>1. table \in Table /\ DOMAIN table = {}
    BY DEF Init, Table
  <2>2. JidsIn(table, ns) = {}
    BY <2>1, InJids
  <2>3. TableLatestJid(table, ns) = 0
    <3>1. IsLargest(0, JidsIn(table, ns) \cup {0})
      BY <2>2 DEF IsLargest
    <3> QED BY <2>1, <3>1, CursorIsLargest
  <2>4. \A p \in Paths : LatestRow(table, ns, p) = NoRow
    BY <2>1, NoLatest
  <2> QED BY <2>2, <2>3, <2>4, ViewIs DEF EmptyView
<1>2. TypeOK /\ NewestInv /\ LargestInv /\ [Next]_table =>
        [\A ns \in Namespaces : [Abstract(ns)!Next]_(ViewOf(ns))]_table
  <2> SUFFICES ASSUME TypeOK, NewestInv, LargestInv, Next, NEW ns \in Namespaces
               PROVE  [Abstract(ns)!Next]_(ViewOf(ns))
    OBVIOUS
  <2>1. ASSUME NEW m \in Namespaces, IndexerInsert(m) PROVE [Abstract(ns)!Next]_(ViewOf(ns))
    BY <2>1, IndexerNotes DEF Abstract!Next
  <2>2. ASSUME NEW m \in Namespaces, SyncerInsert(m) PROVE [Abstract(ns)!Next]_(ViewOf(ns))
    BY <2>2, SyncerNotes DEF Abstract!Next
  <2>3. ASSUME NEW m \in Namespaces, SyncerCommit(m) PROVE [Abstract(ns)!Next]_(ViewOf(ns))
    BY <2>3, CommitNotes DEF Abstract!Next
  <2> QED BY <2>1, <2>2, <2>3 DEF Next
<1> QED BY <1>1, <1>2, TypesOK, Invariants, PTL DEF Spec, ImplementsView

=============================================================================
