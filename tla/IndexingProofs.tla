--------------------------- MODULE IndexingProofs ---------------------------
(***************************************************************************)
(* What a pass of module Indexing may note, for any folder, any contents,  *)
(* any resolution of the clock and any number of edits, saves and faults.  *)
(*                                                                         *)
(* Both action properties follow from MatchInv: a file that nobody touched *)
(* agrees with its row, and while a pass is under way, with what the pass  *)
(* has seen of it.                                                         *)
(***************************************************************************)
EXTENDS Indexing, TLAPS

\* The walk has come to p.
Visited(p) == pass.pc # "idle" /\ p \notin pass.todo

\* The row of p is what a pass would make of the file.
Agrees(p) ==
  IF disk[p].there THEN ~ reg.row[p].deleted /\ reg.row[p].stamp = Stamp(disk[p])
                   ELSE reg.row[p].deleted

\* The pass saw of p what is there now.
SeenAsItIs(p) ==
  IF disk[p].there THEN p \in DOMAIN pass.seen /\ pass.seen[p].stamp = Stamp(disk[p])
                   ELSE p \notin DOMAIN pass.seen

\* The pass saw of p what its row says.
SeenAsNoted(p) ==
  IF p \in DOMAIN pass.seen
  THEN ~ reg.row[p].deleted /\ reg.row[p].stamp = pass.seen[p].stamp
  ELSE reg.row[p].deleted

Matches(p) ==
  /\ p \notin dirty \cup pass.changed => Agrees(p)
  /\ p \in pass.todo => p \notin DOMAIN pass.seen
  /\ Visited(p) /\ p \notin dirty => SeenAsItIs(p)
  /\ Visited(p) /\ p \notin pass.changed => SeenAsNoted(p)
  /\ Visited(p) => p \in DOMAIN pass.seen \cup pass.absent
  /\ pass.pc = "create" /\ p \notin DOMAIN pass.seen => reg.row[p].deleted
  /\ pass.pc # "idle" /\ ~ disk[p].there => p \in pass.absent

MatchInv ==
  /\ pass.pc = "idle" => pass = PassIdle
  /\ pass.pc = "create" => pass.todo = {}
  /\ \A p \in Eligible : Matches(p)

----------------------------------------------------------------------------
(* Stamps and rows.                                                        *)

LEMMA SecondIsNat == ASSUME NEW file \in File PROVE Second(file) \in Nat
BY IndexingAssumption DEF Second, File

LEMMA StampIsNat == ASSUME NEW file \in File PROVE Stamp(file) \in Nat
<1> DEFINE second == Second(file)
<1>1. second \in Nat /\ SizeOf[file.data] \in Nat
  BY SecondIsNat, IndexingAssumption DEF File
<1>2. second * (MaxSize + 1) \in Nat
  <2> HIDE DEF second
  <2> QED BY <1>1, IndexingAssumption
<1> QED BY <1>1, <1>2 DEF Stamp, StampAt

\* What the indexer inserts.
LEMMA InsertedLocal ==
  ASSUME NEW v \in View, NEW S \in SUBSET Paths,
         NEW forms \in [S -> Form], NEW w, w = InsertLocal(v, forms, OneId)
  PROVE  /\ w \in View
         /\ \A p \in S : w.row[p].deleted = forms[p].deleted /\ w.row[p].stamp = forms[p].stamp
         /\ \A p \in Paths \ S : w.row[p] = v.row[p]
<1> DEFINE row == [p \in Paths |-> IF p \in S THEN RowOf(1, forms[p]) ELSE v.row[p]]
<1>1. \A p \in S : RowOf(1, forms[p]) \in Row
  BY DEF RowOf, Form, Row
<1>2. row \in [Paths -> Row]
  BY <1>1 DEF View
<1>3. row = [p \in Paths |-> IF p \in DOMAIN forms THEN RowOf(OneId[p], forms[p]) ELSE v.row[p]]
  BY DEF OneId
<1>4. w = [v EXCEPT !.row = row]
  BY <1>3 DEF InsertLocal
<1>5. w = [row |-> row, jids |-> v.jids, cursor |-> v.cursor]
  <2> HIDE DEF row
  <2> QED BY <1>4 DEF View
<1>6. w.row = row
  BY <1>5
<1>7. w \in View
  <2> HIDE DEF row
  <2> QED BY <1>2, <1>5 DEF View
<1>8. \A p \in S : w.row[p].deleted = forms[p].deleted /\ w.row[p].stamp = forms[p].stamp
  <2> TAKE p \in S
  <2>1. w.row[p] = RowOf(1, forms[p])
    BY <1>6
  <2> HIDE DEF row
  <2> QED BY <2>1 DEF RowOf
<1>9. \A p \in Paths \ S : w.row[p] = v.row[p]
  BY <1>6
<1> QED BY <1>7, <1>8, <1>9

\* What the syncer inserts.
LEMMA InsertedRemote ==
  ASSUME NEW v \in View, NEW p \in Paths, NEW form \in Form, NEW w,
         w = InsertRemote(v, p, form, 1)
  PROVE  /\ w \in View
         /\ w.row[p].deleted = form.deleted /\ w.row[p].stamp = form.stamp
         /\ \A q \in Paths \ {p} : w.row[q] = v.row[q]
<1>1. RowOf(1, form) \in Row
  BY DEF RowOf, Form, Row
<1>2. Later(v.cursor, form.jid) \in Nat
  BY DEF Later, Form, View
<1> QED BY <1>1, <1>2 DEF InsertRemote, View, Form, RowOf

----------------------------------------------------------------------------
(* Types.                                                                  *)

LEMMA TypeInit == Init => TypeOK
<1> SUFFICES ASSUME Init PROVE TypeOK
  OBVIOUS
<1>1. reg \in View
  BY DEF Init, EmptyView, View, NoRow, Row, NoJid
<1>2. pass \in PassOver({})
  BY DEF Init, PassIdle, PassOver
<1>3. disk \in [Paths -> File]
  BY DEF Init, NoFile, File, Data
<1>4. save \in Save /\ save.path = {} /\ save.pc = "idle"
  BY DEF Init, SaveIdle, Save, Data
<1> QED BY <1>1, <1>2, <1>3, <1>4, IndexingAssumption DEF Init, TypeOK, Data

\* What a changed disk leaves behind.
LEMMA PutTyped ==
  ASSUME TypeOK, NEW p \in Paths, NEW file \in File, Put(p, file)
  PROVE  disk' \in [Paths -> File] /\ had' \in [Paths -> SUBSET [second : Nat, data : Data]]
         /\ dirty' \subseteq Paths
<1>1. [second |-> Second(file), data |-> file.data] \in [second : Nat, data : Data]
  BY SecondIsNat DEF File
<1> QED BY <1>1 DEF Put, TypeOK

LEMMA WrittenTyped == ASSUME TypeOK, NEW data \in Data PROVE Written(data) \in File
BY IndexingAssumption DEF TypeOK, Written, File

\* A save that goes on with a file that is not at its path any more.
LEMMA DetachedTyped == ASSUME save \in Save PROVE [save EXCEPT !.open = FALSE] \in Save
BY DEF Save

\* The user and the clock.
LEMMA TypeUser == ASSUME TypeOK, Tick \/ User PROVE TypeOK'
<1>1. CASE Tick
  BY <1>1, IndexingAssumption DEF TypeOK, Tick, history
<1>2. ASSUME NEW p \in Eligible, NEW data \in Contents, UserWrites(p, data) PROVE TypeOK'
  <2>1. Put(p, Written(data)) /\ p \in Paths /\ Written(data) \in File
    BY <1>2, WrittenTyped, IndexingAssumption DEF UserWrites, Data
  <2>2. save' \in Save /\ save'.path = save.path /\ save'.pc = save.pc
    BY <1>2 DEF UserWrites, TypeOK, Save
  <2> QED BY <1>2, <2>1, <2>2, PutTyped, IndexingAssumption DEF UserWrites, TypeOK
<1>3. ASSUME NEW p \in Paths PROVE TypeOK => \E found \in SUBSET Eligible : Missing(p) \in PassOver(found)
  BY DEF TypeOK, Missing, PassOver
<1>4. NoFile \in File
  BY DEF NoFile, File, Data
<1>5. ASSUME NEW p \in Eligible, UserDeletes(p) PROVE TypeOK'
  <2>1. save' \in Save /\ save'.path = save.path /\ save'.pc = save.pc
    BY <1>5 DEF UserDeletes, TypeOK, Save
  <2>2. p \in Paths /\ disk' \in [Paths -> File] /\ dirty' \subseteq Paths
    BY <1>4, <1>5, IndexingAssumption DEF UserDeletes, TypeOK
  <2>3. \E found \in SUBSET Eligible : pass' \in PassOver(found)
    BY <1>3, <1>5, <2>2 DEF UserDeletes
  <2> QED BY <1>5, <2>1, <2>2, <2>3, IndexingAssumption DEF UserDeletes, TypeOK
<1>6. ASSUME NEW p \in Eligible, NEW q \in Eligible, UserRenames(p, q) PROVE TypeOK'
  <2>1. save' \in Save /\ save'.path = save.path /\ save'.pc = save.pc
    BY <1>6 DEF UserRenames, TypeOK, Save
  <2>2. p \in Paths /\ q \in Paths /\ disk[p] \in File
    BY IndexingAssumption DEF TypeOK
  <2>3. disk' \in [Paths -> File] /\ dirty' \subseteq Paths
    BY <1>4, <1>6, <2>2 DEF UserRenames, TypeOK
  <2>4. [second |-> Second(disk[p]), data |-> disk[p].data] \in [second : Nat, data : Data]
    BY <2>2, SecondIsNat DEF File
  <2>5. had' \in [Paths -> SUBSET [second : Nat, data : Data]]
    BY <1>6, <2>2, <2>4 DEF UserRenames, TypeOK
  <2>6. \E found \in SUBSET Eligible : pass' \in PassOver(found)
    BY <1>3, <1>6, <2>2 DEF UserRenames
  <2> QED BY <1>6, <2>1, <2>3, <2>5, <2>6, IndexingAssumption DEF UserRenames, TypeOK
<1> QED BY <1>1, <1>2, <1>5, <1>6 DEF User

\* The paths a pass found are known and its stamps are numbers.
LEMMA SeenTyped ==
  ASSUME TypeOK
  PROVE  /\ DOMAIN pass.seen \subseteq Paths /\ pass.seen \in [DOMAIN pass.seen -> Found]
         /\ ToRemove(pass.seen) \subseteq Paths /\ ToAdd(pass.seen) \subseteq DOMAIN pass.seen
<1> PICK found \in SUBSET Eligible : pass \in PassOver(found)
  BY DEF TypeOK
<1>1. pass.seen \in [found -> Found]
  BY DEF PassOver
<1> QED BY <1>1, IndexingAssumption DEF ToRemove, ToAdd, NonDeleted

LEMMA IdleTyped == PassIdle \in PassOver({}) /\ {} \in SUBSET Eligible
BY DEF PassIdle, PassOver

\* What DeleteRows does to the registry.
LEMMA RowsDeleted ==
  ASSUME TypeOK, DeleteRows
  PROVE  /\ reg' \in View
         /\ \A p \in ToRemove(pass.seen) : reg'.row[p].deleted
         /\ \A p \in Paths \ ToRemove(pass.seen) : reg'.row[p] = reg.row[p]
<1> DEFINE S == ToRemove(pass.seen)
           forms == [p \in S |-> LocalForm(TRUE, reg.row[p].stamp)]
<1>1. S \in SUBSET Paths
  BY SeenTyped
<1>2. forms \in [S -> Form]
  BY <1>1 DEF LocalForm, Form, NoJid, TypeOK, View, Row
<1>3. reg \in View /\ reg' = InsertLocal(reg, forms, OneId)
  BY DEF TypeOK, DeleteRows
<1>4. \A p \in S : forms[p].deleted = TRUE
  BY DEF LocalForm
<1> HIDE DEF forms, S
<1>5. /\ reg' \in View
      /\ \A p \in S : reg'.row[p].deleted = forms[p].deleted
      /\ \A p \in Paths \ S : reg'.row[p] = reg.row[p]
  BY <1>1, <1>2, <1>3, InsertedLocal
<1> QED BY <1>4, <1>5 DEF S

\* What CreateRows does to the registry.
LEMMA RowsCreated ==
  ASSUME TypeOK, CreateRows
  PROVE  /\ reg' \in View /\ basis' \in [Paths -> Data]
         /\ \A p \in ToAdd(pass.seen) :
              ~ reg'.row[p].deleted /\ reg'.row[p].stamp = pass.seen[p].stamp
         /\ \A p \in Paths \ ToAdd(pass.seen) : reg'.row[p] = reg.row[p]
<1> DEFINE S == ToAdd(pass.seen)
           forms == [p \in S |-> LocalForm(FALSE, pass.seen[p].stamp)]
<1>1. S \in SUBSET Paths /\ \A p \in S : pass.seen[p] \in Found
  BY SeenTyped
<1>2. forms \in [S -> Form]
  BY <1>1 DEF LocalForm, Form, NoJid, Found
<1>3. reg \in View /\ reg' = InsertLocal(reg, forms, OneId)
  BY DEF TypeOK, CreateRows
<1>4. \A p \in S : forms[p].deleted = FALSE /\ forms[p].stamp = pass.seen[p].stamp
  BY DEF LocalForm
<1>5. basis' \in [Paths -> Data]
  BY <1>1 DEF CreateRows, TypeOK, Found
<1> HIDE DEF forms, S
<1>6. /\ reg' \in View
      /\ \A p \in S : reg'.row[p].deleted = forms[p].deleted /\ reg'.row[p].stamp = forms[p].stamp
      /\ \A p \in Paths \ S : reg'.row[p] = reg.row[p]
  BY <1>1, <1>2, <1>3, InsertedLocal
<1> QED BY <1>4, <1>5, <1>6 DEF S

\* The walk finds one more file.
LEMMA ExtendedTyped ==
  ASSUME TypeOK, NEW found \in SUBSET Eligible, NEW seen \in [found -> Found], NEW p \in Eligible
  PROVE  Extended(seen, p) \in [found \cup {p} -> Found]
<1>1. disk[p] \in File
  BY IndexingAssumption DEF TypeOK
<1>2. [stamp |-> Stamp(disk[p]), data |-> disk[p].data] \in Found
  BY <1>1, StampIsNat DEF Found, File
<1> QED BY <1>2 DEF Extended

\* The indexer.
LEMMA TypeIndexer == ASSUME TypeOK, Indexer PROVE TypeOK'
<1>1. CASE StartPass
  <2>1. pass' \in PassOver({})
    <3> DEFINE absent == {p \in Paths : ~ disk[p].there}
    <3>1. pass' = [PassIdle EXCEPT !.pc = "walk", !.todo = Eligible, !.absent = absent]
      BY <1>1 DEF StartPass
    <3>2. absent \in SUBSET Paths
      OBVIOUS
    <3> HIDE DEF absent
    <3> QED BY <3>1, <3>2, IdleTyped DEF PassOver
  <2> QED BY <1>1, <2>1, IdleTyped DEF StartPass, TypeOK
<1>2. ASSUME NEW p \in Paths, Visit(p) PROVE TypeOK'
  <2> PICK found \in SUBSET Eligible : pass \in PassOver(found)
    BY DEF TypeOK
  <2>1. p \in Eligible
    BY <1>2 DEF Visit, PassOver
  <2>2. pass.seen \in [found -> Found]
    BY DEF PassOver
  <2>3. CASE disk[p].there
    <3>1. Extended(pass.seen, p) \in [found \cup {p} -> Found]
      BY <2>1, <2>2, ExtendedTyped
    <3>2. pass' \in PassOver(found \cup {p})
      BY <1>2, <2>1, <2>3, <3>1 DEF Visit, PassOver
    <3>3. found \cup {p} \in SUBSET Eligible
      BY <2>1
    <3> QED BY <1>2, <3>2, <3>3 DEF Visit, TypeOK
  <2>4. CASE ~ disk[p].there
    <3>1. pass' \in PassOver(found)
      BY <1>2, <2>1, <2>4 DEF Visit, PassOver
    <3> QED BY <1>2, <3>1 DEF Visit, TypeOK
  <2> QED BY <2>3, <2>4
<1>3. CASE DeleteRows
  <2>1. \E found \in SUBSET Eligible : pass' \in PassOver(found)
    BY <1>3, IdleTyped DEF DeleteRows, TypeOK, PassOver
  <2> QED BY <1>3, <2>1, RowsDeleted DEF DeleteRows, TypeOK, history
<1>4. CASE CreateRows
  BY <1>4, RowsCreated, IdleTyped DEF CreateRows, TypeOK
<1> QED BY <1>1, <1>2, <1>3, <1>4 DEF Indexer

\* What SaveRecords does to the registry.
LEMMA RowSaved ==
  ASSUME TypeOK, NEW p \in save.path, disk[p].there,
         reg' = InsertRemote(reg, p, [jid |-> saves, deleted |-> FALSE,
                                      stamp |-> SavedStamp(disk[p])], 1)
  PROVE  /\ p \in Paths /\ disk[p] \in File /\ reg' \in View
         /\ ~ reg'.row[p].deleted /\ reg'.row[p].stamp = Stamp(disk[p])
         /\ \A q \in Paths \ {p} : reg'.row[q] = reg.row[q]
<1> DEFINE form == [jid |-> saves, deleted |-> FALSE, stamp |-> SavedStamp(disk[p])]
<1>1. p \in Paths /\ disk[p] \in File
  BY DEF TypeOK, Save
<1>2. saves \in Nat /\ Stamp(disk[p]) \in Nat
  BY <1>1, StampIsNat, IndexingAssumption DEF TypeOK
<1>3. form \in Form /\ form.deleted = FALSE /\ form.stamp = Stamp(disk[p])
  BY <1>2 DEF Form, SavedStamp
<1>4. reg \in View
  BY DEF TypeOK
<1> HIDE DEF form
<1>5. reg' = InsertRemote(reg, p, form, 1)
  BY DEF form
<1>6. /\ reg' \in View
      /\ reg'.row[p].deleted = form.deleted /\ reg'.row[p].stamp = form.stamp
      /\ \A q \in Paths \ {p} : reg'.row[q] = reg.row[q]
  <2>1. ASSUME NEW w, w = InsertRemote(reg, p, form, 1)
        PROVE  /\ w \in View
               /\ w.row[p].deleted = form.deleted /\ w.row[p].stamp = form.stamp
               /\ \A q \in Paths \ {p} : w.row[q] = reg.row[q]
    BY <1>1, <1>3, <1>4, <2>1, InsertedRemote
  <2> QED BY <1>5, <2>1
<1> QED BY <1>1, <1>3, <1>6

\* The syncer, faults.
LEMMA TypeSyncer ==
  ASSUME TypeOK, \/ Syncer \/ Fails
                 \/ \E p \in Paths : Unreadable(p)
                 \/ \E d \in Downloads : SaveCreates(d)
  PROVE  TypeOK'
<1>1. ASSUME NEW d \in Downloads, SaveCreates(d) PROVE TypeOK'
  <2>1. d.path \in Paths /\ d.data \in Data
    BY IndexingAssumption DEF Data
  <2>2. Put(d.path, Written(Empty)) /\ Written(Empty) \in File
    BY <1>1, WrittenTyped DEF SaveCreates, Data
  <2>3. save' \in Save /\ save'.pc # "idle" /\ save'.path # {}
    BY <1>1, <2>1 DEF SaveCreates, Save
  <2>4. disk' \in [Paths -> File] /\ had' \in [Paths -> SUBSET [second : Nat, data : Data]]
        /\ dirty' \subseteq Paths
    BY <2>1, <2>2, PutTyped
  <2>5. saves' \in 0 .. MaxSaves
    BY <1>1, IndexingAssumption DEF SaveCreates, TypeOK
  <2>6. UNCHANGED <<now, reg, pass, basis, edits, faults>>
    BY <1>1 DEF SaveCreates
  <2> QED BY <2>3, <2>4, <2>5, <2>6 DEF TypeOK
<1>2. ASSUME NEW p \in save.path, SaveWrites PROVE TypeOK'
  <2>1. p \in Paths /\ save.path = {p} /\ save.data \in Data
    BY DEF TypeOK, Save
  <2>2. save' \in Save /\ save'.pc # "idle" /\ save'.path # {}
    BY <1>2, <2>1 DEF SaveWrites, TypeOK, Save
  <2>3. CASE save.open
    <3>1. Put(p, Written(save.data)) /\ Written(save.data) \in File
      BY <1>2, <2>1, <2>3, WrittenTyped DEF SaveWrites
    <3>2. disk' \in [Paths -> File] /\ had' \in [Paths -> SUBSET [second : Nat, data : Data]]
          /\ dirty' \subseteq Paths
      BY <2>1, <3>1, PutTyped
    <3> QED BY <1>2, <2>2, <2>3, <3>2 DEF SaveWrites, TypeOK
  <2>4. CASE ~ save.open
    BY <1>2, <2>2, <2>4 DEF SaveWrites, TypeOK
  <2> QED BY <2>3, <2>4
<1>3. CASE SaveRecords
  <2> PICK p \in save.path :
        /\ IF disk[p].there
           THEN /\ reg' = InsertRemote(reg, p, [jid |-> saves, deleted |-> FALSE,
                                                stamp |-> SavedStamp(disk[p])], 1)
                /\ basis' = [basis EXCEPT ![p] = save.data]
                /\ had' = [had EXCEPT ![p] = @ \cup {[second |-> Second(disk[p]), data |-> save.data]}]
                /\ dirty' = dirty \ {p}
           ELSE UNCHANGED <<reg, basis, had, dirty>>
        /\ save' = SaveIdle
        /\ UNCHANGED <<now, disk, pass, edits, saves, faults>>
    BY <1>3 DEF SaveRecords
  <2>1. save' \in Save /\ save'.pc = "idle" /\ save'.path = {}
    BY DEF SaveIdle, Save, Data
  <2>2. CASE disk[p].there
    <3>1. p \in Paths /\ disk[p] \in File /\ reg' \in View
      BY <2>2, RowSaved
    <3>2. save.data \in Data /\ Second(disk[p]) \in Nat
      BY <3>1, SecondIsNat DEF TypeOK, Save
    <3>3. basis' \in [Paths -> Data] /\ had' \in [Paths -> SUBSET [second : Nat, data : Data]]
      BY <2>2, <3>1, <3>2 DEF TypeOK
    <3> QED BY <2>1, <2>2, <3>1, <3>3 DEF TypeOK
  <2>3. CASE ~ disk[p].there
    BY <2>1, <2>3 DEF TypeOK
  <2> QED BY <2>2, <2>3
<1>4. CASE Fails
  <2>1. save' \in Save /\ save'.pc = "idle" /\ save'.path = {}
    BY <1>4 DEF Fails, RunEnds, SaveIdle, Save, Data
  <2>2. dirty' \subseteq Paths
    BY <1>4, IndexingAssumption DEF Fails, RunEnds, TypeOK, PassOver
  <2>3. \E found \in SUBSET Eligible : pass' \in PassOver(found)
    BY <1>4, IdleTyped DEF Fails, RunEnds
  <2> QED BY <1>4, <2>1, <2>2, <2>3, IndexingAssumption DEF Fails, TypeOK
<1>5. ASSUME NEW p \in Paths, Unreadable(p) PROVE TypeOK'
  <2> PICK found \in SUBSET Eligible : pass \in PassOver(found)
    BY DEF TypeOK
  <2>1. pass' \in PassOver(found)
    BY <1>5 DEF Unreadable, PassOver
  <2>2. dirty' \subseteq Paths
    BY <1>5 DEF Unreadable, TypeOK
  <2>3. faults' = faults + 1 /\ faults < MaxFaults
    BY <1>5 DEF Unreadable
  <2>4. faults' \in 0 .. MaxFaults
    BY <2>3, IndexingAssumption DEF TypeOK
  <2> QED BY <1>5, <2>1, <2>2, <2>4 DEF Unreadable, TypeOK
<1>6. CASE Syncer
  BY <1>2, <1>3, <1>6 DEF Syncer, SaveWrites
<1> QED BY <1>1, <1>4, <1>5, <1>6

LEMMA TypeStep == TypeOK /\ [Next]_vars => TypeOK'
<1>1. TypeOK /\ UNCHANGED vars => TypeOK'
  BY DEF TypeOK, vars, history
<1> QED BY <1>1, TypeUser, TypeIndexer, TypeSyncer DEF Next

\* Everything the clock, the user, the indexer and the syncer do keeps the
\* types, for any folder and any bounds.
THEOREM TypesOK == Spec => []TypeOK
BY TypeInit, TypeStep, PTL DEF Spec

----------------------------------------------------------------------------
(* Rows, files and what a pass saw.                                        *)

\* Whoever touches a file leaves a mark.
LEMMA Touched ==
  ASSUME TypeOK, MatchInv, reg' = reg, dirty \subseteq dirty',
         pass' = pass \/ (\E p \in Paths : pass' = Missing(p)),
         \A p \in Eligible :
           \/ disk'[p] = disk[p]
           \/ p \in dirty' /\ (disk'[p].there \/ pass.pc = "idle" \/ p \in pass'.absent)
  PROVE  MatchInv'
<1>1. /\ pass'.pc = pass.pc /\ pass'.seen = pass.seen
      /\ pass'.todo = pass.todo /\ pass'.changed = pass.changed
      /\ pass.absent \subseteq pass'.absent
      /\ pass.pc = "idle" => pass' = pass
  BY DEF Missing, TypeOK, PassOver
<1>2. ASSUME NEW p \in Eligible PROVE Matches(p)'
  <2>1. Matches(p)
    BY <1>2 DEF MatchInv
  <2>2. CASE disk'[p] = disk[p]
    BY <1>1, <2>1, <2>2 DEF Matches, Visited, Agrees, SeenAsItIs, SeenAsNoted
  <2>3. CASE p \in dirty' /\ (disk'[p].there \/ pass.pc = "idle" \/ p \in pass'.absent)
    BY <1>1, <2>1, <2>3 DEF Matches, Visited, SeenAsNoted
  <2> QED BY <2>2, <2>3
<1> QED BY <1>1, <1>2 DEF MatchInv

\* The user and the clock.
LEMMA MatchUser == ASSUME TypeOK, MatchInv, Tick \/ User PROVE MatchInv'
<1>1. CASE Tick
  BY <1>1, Touched DEF Tick, history
<1>2. ASSUME NEW p \in Eligible, NEW data \in Contents, UserWrites(p, data) PROVE MatchInv'
  <2>1. disk' = [disk EXCEPT ![p] = Written(data)] /\ dirty' = dirty \cup {p} /\ Written(data).there
    BY <1>2 DEF UserWrites, Put, Written
  <2> QED BY <1>2, <2>1, Touched, IndexingAssumption DEF UserWrites, TypeOK
<1>3. ASSUME NEW p \in Paths PROVE pass.pc = "idle" \/ p \in Missing(p).absent
  BY DEF TypeOK, Missing, PassOver
<1>4. ASSUME NEW p \in Eligible, UserDeletes(p) PROVE MatchInv'
  BY <1>3, <1>4, Touched, IndexingAssumption DEF UserDeletes, TypeOK
<1>5. ASSUME NEW p \in Eligible, NEW q \in Eligible, UserRenames(p, q) PROVE MatchInv'
  <2>1. p \in Paths /\ q \in Paths /\ disk' = [disk EXCEPT ![p] = NoFile, ![q] = disk[p]]
        /\ dirty' = dirty \cup {p, q} /\ disk[p].there /\ pass' = Missing(p) /\ p # q
    BY <1>5, IndexingAssumption DEF UserRenames
  <2>2. disk'[q].there /\ \A r \in Paths \ {p, q} : disk'[r] = disk[r]
    BY <2>1 DEF TypeOK
  <2>3. reg' = reg /\ dirty \subseteq dirty' /\ p \in dirty' /\ q \in dirty'
    BY <1>5, <2>1 DEF UserRenames
  <2>4. ASSUME NEW r \in Eligible
        PROVE  \/ disk'[r] = disk[r]
               \/ r \in dirty' /\ (disk'[r].there \/ pass.pc = "idle" \/ r \in pass'.absent)
    BY <1>3, <2>1, <2>2, <2>3, IndexingAssumption
  <2> QED BY <2>1, <2>3, <2>4, Touched
<1> QED BY <1>1, <1>2, <1>4, <1>5 DEF User

\* A visit sees the file as it is; what was not touched, as its row says.
LEMMA MatchVisit == ASSUME TypeOK, MatchInv, NEW v \in Paths, Visit(v) PROVE MatchInv'
<1> PICK found \in SUBSET Eligible : pass \in PassOver(found)
  BY DEF TypeOK
<1>1. pass.pc = "walk" /\ v \in Eligible /\ v \notin DOMAIN pass.seen
  BY DEF Visit, MatchInv, Matches, PassIdle, PassOver
<1>2. /\ pass'.pc = pass.pc /\ pass'.todo = pass.todo \ {v} /\ pass'.absent = pass.absent
      /\ pass'.changed = pass.changed \cup ({v} \cap dirty)
      /\ pass'.seen = IF disk[v].there THEN Extended(pass.seen, v) ELSE pass.seen
      /\ dirty' = dirty \ {v} /\ reg' = reg /\ disk' = disk
  BY DEF Visit, PassOver
<1>3. disk[v].there => v \in DOMAIN pass'.seen /\ pass'.seen[v].stamp = Stamp(disk[v])
  BY <1>2 DEF Extended
<1>4. ~ disk[v].there => v \notin DOMAIN pass'.seen
  BY <1>1, <1>2
<1>5. ASSUME NEW p \in Eligible, p # v
      PROVE  /\ p \in DOMAIN pass'.seen <=> p \in DOMAIN pass.seen
             /\ p \in DOMAIN pass.seen => pass'.seen[p] = pass.seen[p]
  BY <1>2, <1>5 DEF Extended
<1>6. Matches(v)'
  <2>1. Matches(v)
    BY <1>1 DEF MatchInv
  <2>2. v \notin dirty /\ v \notin pass.changed => SeenAsNoted(v)'
    BY <1>2, <1>3, <1>4, <2>1 DEF Matches, Agrees, SeenAsNoted
  <2>3. SeenAsItIs(v)' /\ (v \in DOMAIN pass'.seen \/ v \in pass'.absent)
    BY <1>1, <1>2, <1>3, <1>4, <2>1 DEF Matches, SeenAsItIs
  <2>4. v \notin dirty /\ v \notin pass.changed => Agrees(v)'
    BY <1>2, <2>1 DEF Matches, Agrees
  <2>5. pass'.changed = IF v \in dirty THEN pass.changed \cup {v} ELSE pass.changed
    BY <1>2
  <2> QED BY <1>1, <1>2, <2>1, <2>2, <2>3, <2>4, <2>5 DEF Matches
<1>7. ASSUME NEW p \in Eligible, p # v PROVE Matches(p)'
  <2>1. Matches(p)
    BY DEF MatchInv
  <2> QED BY <1>2, <1>5, <1>7, <2>1 DEF Matches, Visited, Agrees, SeenAsItIs, SeenAsNoted
<1> QED BY <1>1, <1>2, <1>6, <1>7 DEF MatchInv

\* Rows made of what a pass saw say what it saw.
LEMMA MatchDelete == ASSUME TypeOK, MatchInv, DeleteRows PROVE MatchInv'
<1>1. /\ pass.pc = "walk" /\ pass.todo = {} /\ disk' = disk /\ dirty' = dirty
      /\ pass' = IF ToAdd(pass.seen) = {} THEN PassIdle ELSE [pass EXCEPT !.pc = "create"]
  BY DEF DeleteRows, Walked, history
<1>2. ASSUME NEW p \in Eligible
      PROVE  /\ p \notin DOMAIN pass.seen => reg'.row[p].deleted
             /\ p \in DOMAIN pass.seen => reg'.row[p] = reg.row[p]
             /\ p \in DOMAIN pass.seen /\ p \notin ToAdd(pass.seen) =>
                  ~ reg.row[p].deleted /\ reg.row[p].stamp = pass.seen[p].stamp
  <2>1. p \in Paths
    BY IndexingAssumption
  <2>2. p \in ToRemove(pass.seen) <=> ~ reg.row[p].deleted /\ p \notin DOMAIN pass.seen
    BY <2>1 DEF ToRemove, NonDeleted
  <2> QED BY <2>1, <2>2, RowsDeleted DEF ToAdd, NonDeleted
<1>3. CASE ToAdd(pass.seen) = {}
  <2>1. pass' = PassIdle
    BY <1>1, <1>3
  <2>2. ASSUME NEW p \in Eligible PROVE Matches(p)'
    <3>1. Matches(p) /\ Visited(p)
      BY <1>1 DEF MatchInv, Visited
    <3>2. p \notin dirty => Agrees(p)'
      BY <1>1, <1>2, <1>3, <3>1 DEF Matches, SeenAsItIs, Agrees
    <3> QED BY <1>1, <2>1, <3>2 DEF Matches, Visited, PassIdle
  <2> QED BY <2>1, <2>2 DEF MatchInv, PassIdle
<1>4. CASE ToAdd(pass.seen) # {}
  <2>1. /\ pass'.pc = "create" /\ pass'.todo = {} /\ pass'.seen = pass.seen
        /\ pass'.changed = pass.changed /\ pass'.absent = pass.absent
    BY <1>1, <1>4 DEF TypeOK, PassOver
  <2>2. ASSUME NEW p \in Eligible PROVE Matches(p)'
    <3>1. Matches(p) /\ Visited(p)
      BY <1>1 DEF MatchInv, Visited
    <3>2. p \notin dirty \cup pass.changed => Agrees(p)'
      BY <1>1, <1>2, <3>1 DEF Matches, SeenAsItIs, Agrees
    <3>3. p \notin pass.changed => SeenAsNoted(p)'
      BY <1>2, <2>1, <3>1 DEF Matches, SeenAsNoted
    <3> QED BY <1>1, <1>2, <2>1, <3>1, <3>2, <3>3 DEF Matches, Visited, SeenAsItIs
  <2> QED BY <2>1, <2>2 DEF MatchInv
<1> QED BY <1>3, <1>4

LEMMA MatchCreate == ASSUME TypeOK, MatchInv, CreateRows PROVE MatchInv'
<1>1. pass.pc # "idle" /\ pass.todo = {}
  BY DEF CreateRows, Walked, MatchInv
<1>2. pass' = PassIdle /\ disk' = disk /\ dirty' = dirty
  BY DEF CreateRows
<1>3. ASSUME NEW p \in Eligible, p \notin DOMAIN pass.seen PROVE reg'.row[p].deleted
  <2>1. p \in Paths \ ToAdd(pass.seen)
    BY <1>3, IndexingAssumption DEF ToAdd
  <2>2. reg'.row[p] = reg.row[p]
    BY <2>1, RowsCreated
  <2>3. reg.row[p].deleted
    BY <1>3, <2>1 DEF CreateRows, MatchInv, Matches, ToRemove, NonDeleted, Walked
  <2> QED BY <2>2, <2>3
<1>4. ASSUME NEW p \in Eligible, p \in DOMAIN pass.seen
      PROVE  ~ reg'.row[p].deleted /\ reg'.row[p].stamp = pass.seen[p].stamp
  <2>1. p \in Paths
    BY IndexingAssumption
  <2>2. CASE p \in ToAdd(pass.seen)
    BY <2>2, RowsCreated
  <2>3. CASE p \notin ToAdd(pass.seen)
    <3>1. ~ reg.row[p].deleted /\ reg.row[p].stamp = pass.seen[p].stamp
      BY <1>4, <2>1, <2>3 DEF ToAdd, NonDeleted
    <3> QED BY <2>1, <2>3, <3>1, RowsCreated
  <2> QED BY <2>2, <2>3
<1>5. ASSUME NEW p \in Eligible PROVE Matches(p)'
  <2>1. Matches(p) /\ Visited(p)
    BY <1>1 DEF MatchInv, Visited
  <2>2. p \notin dirty => Agrees(p)'
    BY <1>2, <1>3, <1>4, <2>1 DEF Matches, SeenAsItIs, Agrees
  <2> QED BY <1>2, <2>2 DEF Matches, Visited, PassIdle
<1> QED BY <1>2, <1>5 DEF MatchInv, PassIdle

\* The pass begins, or breaks off.
LEMMA MatchBounds ==
  ASSUME TypeOK, MatchInv, StartPass \/ Fails \/ \E p \in Paths : Unreadable(p)
  PROVE  MatchInv'
<1>1. CASE StartPass
  <2>1. /\ pass = PassIdle /\ reg' = reg /\ disk' = disk /\ dirty' = dirty
        /\ pass'.pc = "walk" /\ pass'.todo = Eligible /\ pass'.seen = << >> /\ pass'.changed = {}
        /\ pass'.absent = {p \in Paths : ~ disk[p].there}
    BY <1>1 DEF StartPass, MatchInv, PassIdle
  <2>2. ASSUME NEW p \in Eligible PROVE Matches(p)'
    <3>1. Matches(p) /\ p \in Paths
      BY IndexingAssumption DEF MatchInv
    <3>2. DOMAIN pass'.seen = {} /\ pass.changed = {}
      BY <2>1 DEF PassIdle
    <3> QED BY <2>1, <3>1, <3>2 DEF Matches, Visited, Agrees
  <2> QED BY <2>1, <2>2 DEF MatchInv
<1>2. CASE Fails
  <2>1. pass' = PassIdle /\ dirty' = dirty \cup pass.changed /\ reg' = reg /\ disk' = disk
    BY <1>2 DEF Fails, RunEnds
  <2>2. ASSUME NEW p \in Eligible PROVE Matches(p)'
    BY <2>1 DEF MatchInv, Matches, Visited, Agrees, PassIdle
  <2> QED BY <2>1, <2>2 DEF MatchInv, PassIdle
<1>3. ASSUME NEW u \in Paths, Unreadable(u) PROVE MatchInv'
  <2>1. pass.pc = "walk" /\ u \in pass.todo
    <3>1. u \in pass.todo
      BY <1>3 DEF Unreadable
    <3>2. pass.pc \in {"idle", "walk", "create"}
      BY DEF TypeOK, PassOver
    <3> QED BY <3>1, <3>2 DEF MatchInv, PassIdle
  <2>2. /\ pass'.pc = "walk" /\ pass'.todo = pass.todo \ {u} /\ pass'.seen = pass.seen
        /\ pass'.absent = pass.absent \cup {u} /\ pass'.changed = pass.changed \cup {u}
        /\ dirty' = dirty \cup {u} /\ reg' = reg /\ disk' = disk
    BY <1>3, <2>1 DEF Unreadable, TypeOK, PassOver
  <2>3. ASSUME NEW p \in Eligible PROVE Matches(p)'
    <3>1. Matches(p)
      BY DEF MatchInv
    <3> QED BY <2>1, <2>2, <3>1 DEF Matches, Visited, Agrees, SeenAsItIs, SeenAsNoted
  <2> QED BY <2>2, <2>3 DEF MatchInv
<1> QED BY <1>1, <1>2, <1>3

\* A saved file has a row of its own stamp.
LEMMA MatchSyncer ==
  ASSUME TypeOK, MatchInv, Syncer \/ \E d \in Downloads : SaveCreates(d)
  PROVE  MatchInv'
<1>1. ASSUME NEW d \in Downloads, SaveCreates(d) PROVE MatchInv'
  <2>1. disk' = [disk EXCEPT ![d.path] = Written(Empty)] /\ dirty' = dirty \cup {d.path}
        /\ Written(Empty).there /\ reg' = reg /\ pass' = pass
    BY <1>1 DEF SaveCreates, Put, Written
  <2> QED BY <2>1, Touched, IndexingAssumption DEF TypeOK
<1>2. ASSUME NEW p \in save.path, SaveWrites PROVE MatchInv'
  <2>1. p \in Paths /\ save.path = {p} /\ reg' = reg /\ pass' = pass
    BY <1>2 DEF TypeOK, Save, SaveWrites
  <2>2. CASE save.open
    <3>1. disk' = [disk EXCEPT ![p] = Written(save.data)] /\ dirty' = dirty \cup {p}
          /\ Written(save.data).there
      BY <1>2, <2>1, <2>2 DEF SaveWrites, Put, Written
    <3> QED BY <2>1, <3>1, Touched, IndexingAssumption DEF TypeOK
  <2>3. CASE ~ save.open
    <3>1. disk' = disk /\ dirty' = dirty
      BY <1>2, <2>3 DEF SaveWrites
    <3> QED BY <2>1, <3>1, Touched
  <2> QED BY <2>2, <2>3
<1>3. CASE SaveRecords
  <2>1. PICK p \in save.path :
          /\ IF disk[p].there
             THEN /\ reg' = InsertRemote(reg, p, [jid |-> saves, deleted |-> FALSE,
                                                  stamp |-> SavedStamp(disk[p])], 1)
                  /\ dirty' = dirty \ {p}
             ELSE UNCHANGED <<reg, dirty>>
          /\ pass.pc = "idle" /\ UNCHANGED <<disk, pass>>
    BY <1>3 DEF SaveRecords
  <2>2. pass = PassIdle
    BY <2>1 DEF MatchInv
  <2>3. CASE disk[p].there
    <3>1. /\ ~ reg'.row[p].deleted /\ reg'.row[p].stamp = Stamp(disk[p])
          /\ \A q \in Paths \ {p} : reg'.row[q] = reg.row[q]
      BY <2>1, <2>3, RowSaved
    <3>2. ASSUME NEW q \in Eligible PROVE Matches(q)'
      <4>1. Matches(q) /\ q \in Paths
        BY IndexingAssumption DEF MatchInv
      <4>2. q \notin dirty' \cup pass'.changed => Agrees(q)'
        <5>1. CASE q = p
          BY <2>1, <2>3, <3>1, <5>1 DEF Agrees
        <5>2. CASE q # p
          BY <2>1, <2>3, <3>1, <4>1, <5>2 DEF Matches, Agrees
        <5> QED BY <5>1, <5>2
      <4> QED BY <2>1, <2>2, <4>2 DEF Matches, Visited, PassIdle
    <3> QED BY <2>1, <2>2, <3>2 DEF MatchInv, PassIdle
  <2>4. CASE ~ disk[p].there
    BY <2>1, <2>4, Touched
  <2> QED BY <2>3, <2>4
<1> QED BY <1>1, <1>2, <1>3 DEF Syncer, SaveWrites

LEMMA MatchStep == TypeOK /\ MatchInv /\ [Next]_vars => MatchInv'
<1> SUFFICES ASSUME TypeOK, MatchInv, [Next]_vars PROVE MatchInv'
  OBVIOUS
<1>1. CASE UNCHANGED vars
  BY <1>1, Touched DEF vars, history
<1>2. CASE Indexer
  BY <1>2, MatchBounds, MatchVisit, MatchDelete, MatchCreate DEF Indexer
<1> QED BY <1>1, <1>2, MatchUser, MatchSyncer, MatchBounds DEF Next

\* MatchInv is inductive, given the types.
LEMMA MatchInvariant == Spec => []MatchInv
<1>1. Init => MatchInv
  <2> SUFFICES ASSUME Init PROVE MatchInv
    OBVIOUS
  <2>1. pass = PassIdle /\ \A p \in Paths : ~ disk[p].there /\ reg.row[p].deleted
    BY DEF Init, NoFile, EmptyView, NoRow
  <2>2. ASSUME NEW p \in Eligible PROVE Matches(p)
    BY <2>1, IndexingAssumption DEF Matches, Visited, Agrees, PassIdle
  <2> QED BY <2>1, <2>2 DEF MatchInv, PassIdle
<1> QED BY <1>1, MatchStep, TypesOK, PTL DEF Spec

----------------------------------------------------------------------------
(* What a pass may note.                                                   *)

\* During a pass, rows are made by its two inserts only.
LEMMA RowsOfPass ==
  ASSUME pass.pc # "idle", [Next]_vars, reg' # reg
  PROVE  DeleteRows \/ CreateRows
BY DEF Next, User, Indexer, Syncer, Tick, UserWrites, UserDeletes, UserRenames, StartPass, Visit,
       SaveWrites, SaveRecords, Fails, Unreadable, SaveCreates, vars

\* A pass notes a path only if the file was touched since it was last looked
\* at or recorded, for any folder and any resolution of the clock
\* (compare_records, truncate_to_seconds).
THEOREM NotesAreReal == Spec => NoPhantomNotes
<1>1. TypeOK /\ MatchInv /\ [Next]_vars =>
        [\A p \in Eligible :
           reg'.row[p] # reg.row[p] /\ pass.pc # "idle" => p \in pass.changed]_vars
  <2> SUFFICES ASSUME TypeOK, MatchInv, [Next]_vars, NEW p \in Eligible,
                      reg'.row[p] # reg.row[p], pass.pc # "idle", p \notin pass.changed
               PROVE  FALSE
    OBVIOUS
  <2>1. p \in Paths /\ Matches(p)
    BY IndexingAssumption DEF MatchInv
  <2>2. CASE DeleteRows
    <3>1. Visited(p)
      BY <2>2 DEF DeleteRows, Walked, Visited
    <3>2. p \notin ToRemove(pass.seen)
      BY <2>1, <3>1 DEF Matches, SeenAsNoted, ToRemove, NonDeleted
    <3> QED BY <2>1, <2>2, <3>2, RowsDeleted
  <2>3. CASE CreateRows
    <3>1. Visited(p)
      BY <2>3 DEF CreateRows, Walked, Visited, MatchInv
    <3>2. p \notin ToAdd(pass.seen)
      BY <2>1, <3>1 DEF Matches, SeenAsNoted, ToAdd, NonDeleted
    <3> QED BY <2>1, <2>3, <3>2, RowsCreated
  <2> QED BY <2>2, <2>3, RowsOfPass
<1> QED BY <1>1, TypesOK, MatchInvariant, PTL DEF Spec, NoPhantomNotes

\* A file is marked as deleted only if it was not there, or could not be read,
\* at some moment of the pass (compare_records), for any folder.
THEOREM OnlyAbsentFilesDeleted == Spec => DeletionsAreReal
<1>1. TypeOK /\ MatchInv /\ [Next]_vars =>
        [\A p \in Eligible :
           ~ reg.row[p].deleted /\ reg'.row[p].deleted => p \in pass.absent]_vars
  <2> SUFFICES ASSUME TypeOK, MatchInv, [Next]_vars, NEW p \in Eligible,
                      ~ reg.row[p].deleted, reg'.row[p].deleted
               PROVE  p \in pass.absent
    OBVIOUS
  <2>1. p \in Paths /\ Matches(p)
    BY IndexingAssumption DEF MatchInv
  <2>2. CASE DeleteRows
    <3>1. Visited(p) /\ p \in ToRemove(pass.seen)
      BY <2>1, <2>2, RowsDeleted DEF DeleteRows, Walked, Visited
    <3> QED BY <2>1, <3>1 DEF Matches, ToRemove
  <2>3. CASE CreateRows
    BY <2>1, <2>3, RowsCreated
  <2>4. CASE SaveRecords
    <3> PICK q \in save.path :
          IF disk[q].there
          THEN reg' = InsertRemote(reg, q, [jid |-> saves, deleted |-> FALSE,
                                            stamp |-> SavedStamp(disk[q])], 1)
          ELSE reg' = reg
      BY <2>4 DEF SaveRecords
    <3>1. CASE disk[q].there
      BY <2>1, <3>1, RowSaved
    <3> QED BY <3>1
  <2>5. CASE reg' = reg
    BY <2>5
  <2> QED BY <2>2, <2>3, <2>4, <2>5
        DEF Next, User, Indexer, Syncer, Tick, UserWrites, UserDeletes, UserRenames, StartPass,
            Visit, SaveWrites, Fails, Unreadable, SaveCreates, vars
<1> QED BY <1>1, TypesOK, MatchInvariant, PTL DEF Spec, DeletionsAreReal

=============================================================================
