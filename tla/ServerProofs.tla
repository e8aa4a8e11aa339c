---------------------------- MODULE ServerProofs ----------------------------
(***************************************************************************)
(* The metadata service for any clients, users, paths, chunks and any      *)
(* number of commits and polls: the handlers of commit implement module    *)
(* Journal, and a commit releases the polls of the other clients.          *)
(***************************************************************************)
EXTENDS MetadataServer, SequenceTheorems, WellFoundedInduction, TLAPS

\* A call has no id before it is decided, and owes nothing before its insert.
CallInv ==
  \A k \in Calls :
    /\ call[k].state \in {"unborn", "check", "insert", "orphaned"} => call[k].id = 0
    /\ call[k].state \notin {"notify", "answered"} => owed[k] = {}

\* A Notify is known by the number of the first poll that waited on it, and
\* belongs to that poll's uuid.
HandleInv ==
  /\ \A j \in Polls :
       poll[j].state # "unborn" =>
         /\ poll[j].handle \in Polls /\ poll[poll[j].handle].state # "unborn"
         /\ poll[poll[j].handle].uuid = poll[j].uuid
  /\ \A u \in Clients :
       clients[u] # NoHandle =>
         poll[clients[u]].state # "unborn" /\ poll[clients[u]].uuid = u

\* A waiting poll is found through the map, unless its entry was taken out;
\* what a commit owes, it owes to polls of others.
WakeInv ==
  /\ \A j \in Polls : Waiting(j) => clients[poll[j].uuid] = poll[j].handle \/ j \in displaced
  /\ \A k \in Calls, j \in Polls :
       j \in owed[k] => poll[j].state # "unborn" /\ poll[j].uuid # call[k].from
  /\ CommitReleasesPolls

----------------------------------------------------------------------------
(* Types.                                                                  *)

PollRecord == [state : PollState, live : BOOLEAN, uuid : Clients, handle : 0 .. MaxPolls]
CallRecord == [state : CallState, from : Clients, record : Record, id : Nat]

\* What a step may do to a poll and to a call.
LEMMA PollKept ==
  ASSUME poll \in [Polls -> PollRecord], NEW k \in Polls, NEW s \in PollState
  PROVE  /\ [poll EXCEPT ![k].state = s] \in [Polls -> PollRecord]
         /\ [poll EXCEPT ![k].live = FALSE] \in [Polls -> PollRecord]
         /\ [poll EXCEPT ![k].state = s, ![k].live = FALSE] \in [Polls -> PollRecord]
<1>1. poll[k] \in PollRecord
  OBVIOUS
<1>2. /\ [poll[k] EXCEPT !.state = s] \in PollRecord
      /\ [poll[k] EXCEPT !.live = FALSE] \in PollRecord
      /\ [poll[k] EXCEPT !.state = s, !.live = FALSE] \in PollRecord
  BY <1>1 DEF PollRecord
<1>3. /\ [poll EXCEPT ![k].state = s] = [poll EXCEPT ![k] = [poll[k] EXCEPT !.state = s]]
      /\ [poll EXCEPT ![k].live = FALSE] = [poll EXCEPT ![k] = [poll[k] EXCEPT !.live = FALSE]]
      /\ [poll EXCEPT ![k].state = s, ![k].live = FALSE] =
           [poll EXCEPT ![k] = [poll[k] EXCEPT !.state = s, !.live = FALSE]]
  OBVIOUS
<1> QED BY <1>2, <1>3

\* What such a step reads back as.
LEMMA PollReads ==
  ASSUME poll \in [Polls -> PollRecord], NEW k \in Polls, NEW s
  PROVE  /\ LET one == [poll EXCEPT ![k].state = s]
            IN  /\ one[k].state = s /\ one[k].live = poll[k].live
                /\ \A j \in Polls : one[j].uuid = poll[j].uuid /\ one[j].handle = poll[j].handle
                /\ \A j \in Polls \ {k} : one[j] = poll[j]
         /\ LET one == [poll EXCEPT ![k].live = FALSE]
            IN  /\ one[k].state = poll[k].state /\ ~ one[k].live
                /\ \A j \in Polls : one[j].uuid = poll[j].uuid /\ one[j].handle = poll[j].handle
                /\ \A j \in Polls \ {k} : one[j] = poll[j]
         /\ LET two == [poll EXCEPT ![k].state = s, ![k].live = FALSE]
            IN  /\ two[k].state = s
                /\ \A j \in Polls : two[j].uuid = poll[j].uuid /\ two[j].handle = poll[j].handle
                /\ \A j \in Polls \ {k} : two[j] = poll[j]
<1>1. \A j \in Polls : poll[j] \in PollRecord
  OBVIOUS
<1> QED BY <1>1 DEF PollRecord

LEMMA CallKept ==
  ASSUME call \in [Calls -> CallRecord], NEW k \in Calls, NEW s \in CallState, NEW i \in Nat
  PROVE  /\ [call EXCEPT ![k].state = s] \in [Calls -> CallRecord]
         /\ [call EXCEPT ![k].state = s, ![k].id = i] \in [Calls -> CallRecord]
<1>1. call[k] \in CallRecord
  OBVIOUS
<1>2. [call[k] EXCEPT !.state = s] \in CallRecord /\ [call[k] EXCEPT !.state = s, !.id = i] \in CallRecord
  BY <1>1 DEF CallRecord
<1>3. /\ [call EXCEPT ![k].state = s] = [call EXCEPT ![k] = [call[k] EXCEPT !.state = s]]
      /\ [call EXCEPT ![k].state = s, ![k].id = i] =
           [call EXCEPT ![k] = [call[k] EXCEPT !.state = s, !.id = i]]
  OBVIOUS
<1> QED BY <1>2, <1>3

\* What such a step reads back as.
LEMMA CallReads ==
  ASSUME call \in [Calls -> CallRecord], NEW k \in Calls, NEW s, NEW i
  PROVE  /\ LET one == [call EXCEPT ![k].state = s]
            IN  /\ one[k] = [call[k] EXCEPT !.state = s]
                /\ one[k].state = s /\ one[k].record = call[k].record
                /\ one[k].id = call[k].id /\ one[k].from = call[k].from
                /\ \A j \in Calls \ {k} : one[j] = call[j]
         /\ LET two == [call EXCEPT ![k].state = s, ![k].id = i]
            IN  /\ two[k].state = s /\ two[k].record = call[k].record
                /\ two[k].id = i /\ two[k].from = call[k].from
                /\ \A j \in Calls \ {k} : two[j] = call[j]
<1>1. call[k] \in CallRecord
  OBVIOUS
<1> QED BY <1>1 DEF CallRecord

LEMMA NatSets == Polls \subseteq Nat \ {0} /\ Calls \subseteq Nat \ {0}
BY NotificationAssumption, ServerAssumption DEF Polls, Calls

LEMMA NoRecordIsRecord == NoRecord \in Record
<1>1. PICK u \in Users, p \in Paths, c \in ChunkLists : TRUE
  BY ServerAssumption
<1>2. [user |-> u, path |-> p, chunks |-> c, deleted |-> TRUE] \in Record
  BY DEF Record
<1> QED BY <1>2 DEF NoRecord

LEMMA TypeInit == Init => TypeOK
<1> SUFFICES ASSUME Init PROVE TypeOK
  OBVIOUS
<1>1. (CHOOSE u \in Clients : TRUE) \in Clients
  BY ServerAssumption
<1>2. NotificationTypeOK
  BY <1>1, NotificationAssumption DEF Init, NotificationInit, NotificationTypeOK, PollState, NoHandle
<1>3. call \in [Calls -> [state : CallState, from : Clients, record : Record, id : Nat]]
  BY <1>1, NoRecordIsRecord DEF Init, CallState
<1> QED BY <1>2, <1>3 DEF Init, TypeOK

\* The types, conjunct by conjunct.
LEMMA TypeParts ==
  /\ NotificationTypeOK <=> /\ clients \in [Clients -> 0 .. MaxPolls]
                            /\ permit \subseteq Polls /\ displaced \subseteq Polls
                            /\ poll \in [Polls -> PollRecord]
  /\ TypeOK <=> /\ NotificationTypeOK
                /\ records \in Seq(Record) /\ present \subseteq Chunks
                /\ call \in [Calls -> CallRecord] /\ owed \in [Calls -> SUBSET Polls]
BY DEF NotificationTypeOK, TypeOK, PollRecord, CallRecord

\* The polls.
LEMMA TypePoll == ASSUME NotificationTypeOK, PollNext PROVE NotificationTypeOK'
<1>0. /\ clients \in [Clients -> 0 .. MaxPolls] /\ poll \in [Polls -> PollRecord]
      /\ permit \subseteq Polls /\ displaced \subseteq Polls
  BY TypeParts
<1>1. ASSUME NEW u \in Clients, PollStart(u) PROVE NotificationTypeOK'
  <2> PICK k \in Polls :
        LET handle == IF clients[u] = NoHandle THEN k ELSE clients[u]
        IN  /\ clients' = [clients EXCEPT ![u] = handle]
            /\ poll' = [poll EXCEPT ![k] = [state |-> "waiting", live |-> TRUE,
                                            uuid |-> u, handle |-> handle]]
    BY <1>1 DEF PollStart
  <2> DEFINE handle == IF clients[u] = NoHandle THEN k ELSE clients[u]
             new == [state |-> "waiting", live |-> TRUE, uuid |-> u, handle |-> handle]
  <2>1. handle \in 0 .. MaxPolls
    BY <1>0 DEF Polls
  <2>2. new \in PollRecord
    BY <2>1 DEF PollRecord, PollState
  <2>3. clients' = [clients EXCEPT ![u] = handle] /\ poll' = [poll EXCEPT ![k] = new]
    OBVIOUS
  <2> HIDE DEF handle, new
  <2>4. clients' \in [Clients -> 0 .. MaxPolls] /\ poll' \in [Polls -> PollRecord]
    <3>1. clients' \in [Clients -> 0 .. MaxPolls]
      BY <1>0, <2>1, <2>3
    <3>2. poll' \in [Polls -> PollRecord]
      BY <1>0, <2>2, <2>3
    <3> QED BY <3>1, <3>2
  <2> QED BY <1>0, <1>1, <2>4 DEF NotificationTypeOK, PollRecord, PollStart
<1>2. ASSUME NEW k \in Polls,
             PollWoken(k) \/ PollTimesOut(k) \/ ClientHangsUp(k) \/ PollDropped(k)
      PROVE  NotificationTypeOK'
  <2>1. poll' \in [Polls -> PollRecord]
    <3>1. "ended" \in PollState /\ "gone" \in PollState
      BY DEF PollState
    <3>2. PICK s \in PollState :
            \/ poll' = [poll EXCEPT ![k].state = s]
            \/ poll' = [poll EXCEPT ![k].live = FALSE]
      BY <1>2, <3>1 DEF PollWoken, PollTimesOut, ClientHangsUp, PollDropped
    <3>3. /\ [poll EXCEPT ![k].state = s] \in [Polls -> PollRecord]
          /\ [poll EXCEPT ![k].live = FALSE] \in [Polls -> PollRecord]
      BY <1>0, PollKept
    <3> QED BY <3>2, <3>3
  <2>2. clients' = clients /\ permit' \subseteq permit /\ displaced' = displaced
    BY <1>2 DEF PollWoken, PollTimesOut, ClientHangsUp, PollDropped
  <2> QED BY <1>0, <2>1, <2>2 DEF NotificationTypeOK, PollRecord
<1>3. ASSUME NEW k \in Polls, PollReturn(k) PROVE NotificationTypeOK'
  <2>1. poll' \in [Polls -> PollRecord]
    <3>1. "gone" \in PollState
      BY DEF PollState
    <3> QED BY <1>0, <1>3, <3>1, PollKept DEF PollReturn
  <2>2. clients' \in [Clients -> 0 .. MaxPolls]
    <3>1. NoHandle \in 0 .. MaxPolls
      BY NotificationAssumption DEF NoHandle
    <3>2. clients' = [clients EXCEPT ![poll[k].uuid] = NoHandle]
      BY <1>3 DEF PollReturn
    <3> QED BY <1>0, <3>1, <3>2
  <2>3. permit' = permit /\ displaced' \subseteq Polls
    BY <1>0, <1>3 DEF PollReturn
  <2> QED BY <1>0, <2>1, <2>2, <2>3 DEF NotificationTypeOK, PollRecord
<1> QED BY <1>1, <1>2, <1>3 DEF PollNext

LEMMA TypeStep == TypeOK /\ [Next]_vars => TypeOK'
<1> SUFFICES ASSUME TypeOK, [Next]_vars PROVE TypeOK'
  OBVIOUS
<1>0. /\ NotificationTypeOK
      /\ records \in Seq(Record) /\ present \subseteq Chunks
      /\ call \in [Calls -> CallRecord] /\ owed \in [Calls -> SUBSET Polls]
  BY TypeParts
<1>00. UNCHANGED notificationVars => NotificationTypeOK'
  BY <1>0 DEF notificationVars, NotificationTypeOK
<1>1. ASSUME NEW u \in Clients, CommitStart(u) PROVE TypeOK'
  <2> PICK k \in Calls, r \in Record :
        call' = [call EXCEPT ![k] = [state |-> IF NonLocalChunks(r) = {} THEN "check" ELSE "need",
                                     from |-> u, record |-> r, id |-> 0]]
    BY <1>1 DEF CommitStart
  <2>1. [state |-> IF NonLocalChunks(r) = {} THEN "check" ELSE "need",
         from |-> u, record |-> r, id |-> 0] \in CallRecord
    BY DEF CallRecord, CallState
  <2>2. call' \in [Calls -> CallRecord]
    BY <1>0, <2>1
  <2> QED BY <1>0, <1>00, <1>1, <2>2 DEF TypeOK, CallRecord, CommitStart
<1>2. ASSUME NEW k \in Calls, CommitCheck(k) PROVE TypeOK'
  <2>1. \A i \in DedupMatches(k) : i \in Nat
    BY <1>0, LenProperties DEF DedupMatches, LatestForPath, Latest
  <2>2. call' \in [Calls -> CallRecord]
    <3>1. "insert" \in CallState /\ "answered" \in CallState /\ 0 \in Nat
      BY DEF CallState
    <3>2. CASE call' = [call EXCEPT ![k].state = "insert"]
      BY <1>0, <3>1, <3>2, CallKept
    <3>3. ASSUME NEW i \in DedupMatches(k),
                 call' = [call EXCEPT ![k].state = "answered", ![k].id = i]
          PROVE  call' \in [Calls -> CallRecord]
      BY <1>0, <2>1, <3>1, <3>3, CallKept
    <3> QED BY <1>2, <3>2, <3>3 DEF CommitCheck
  <2> QED BY <1>0, <1>00, <1>2, <2>2 DEF TypeOK, CallRecord, CommitCheck
<1>3. ASSUME NEW k \in Calls, CommitInsert(k) PROVE TypeOK'
  <2>1. call[k] \in CallRecord /\ Len(records) + 1 \in Nat
    BY <1>0, LenProperties
  <2>2. records' \in Seq(Record)
    BY <1>0, <1>3, <2>1 DEF CommitInsert, CallRecord
  <2>3. call' \in [Calls -> CallRecord]
    <3>1. (IF call[k].state = "insert" THEN "notify" ELSE "dropped") \in CallState
      BY DEF CallState
    <3> QED BY <1>0, <1>3, <2>1, <3>1, CallKept DEF CommitInsert
  <2>4. owed' \in [Calls -> SUBSET Polls]
    BY <1>0, <1>3 DEF CommitInsert
  <2> QED BY <1>0, <1>00, <1>3, <2>2, <2>3, <2>4 DEF TypeOK, CallRecord, CommitInsert
<1>4. ASSUME NEW k \in Calls, CommitNotify(k) PROVE TypeOK'
  <2>1. permit' \subseteq Polls
    BY <1>0, <1>4, NotificationAssumption DEF CommitNotify, Notify, NotificationTypeOK, Polls, NoHandle
  <2>2. NotificationTypeOK'
    BY <1>0, <1>4, <2>1 DEF TypeOK, CallRecord, NotificationTypeOK, PollRecord, CommitNotify, Notify
  <2>3. call' \in [Calls -> CallRecord]
    <3>1. "answered" \in CallState /\ 0 \in Nat
      BY DEF CallState
    <3> QED BY <1>0, <1>4, <3>1, CallKept DEF CommitNotify
  <2> QED BY <1>0, <1>4, <2>2, <2>3 DEF TypeOK, CallRecord, CommitNotify
<1>5. ASSUME NEW k \in Calls, CommitDropped(k) PROVE TypeOK'
  <2>1. call' \in [Calls -> CallRecord]
    <3>1. "dropped" \in CallState /\ "orphaned" \in CallState /\ 0 \in Nat
      BY DEF CallState
    <3>2. PICK s \in CallState : call' = [call EXCEPT ![k].state = s]
      BY <1>5, <3>1 DEF CommitDropped
    <3>3. [call EXCEPT ![k].state = s] \in [Calls -> CallRecord]
      BY <1>0, <3>1, CallKept
    <3> QED BY <3>2, <3>3
  <2> QED BY <1>0, <1>00, <1>5, <2>1 DEF TypeOK, CallRecord, CommitDropped
<1>6. ASSUME NEW c \in Chunks, StoreChunk(c) PROVE TypeOK'
  BY <1>0, <1>00, <1>6 DEF TypeOK, CallRecord, StoreChunk
<1>7. CASE PollNext /\ UNCHANGED callVars
  BY <1>0, <1>7, TypePoll DEF TypeOK, CallRecord, callVars
<1>8. CASE UNCHANGED vars
  BY <1>0, <1>00, <1>8 DEF TypeOK, CallRecord, vars, callVars
<1> QED BY <1>1, <1>2, <1>3, <1>4, <1>5, <1>6, <1>7, <1>8 DEF Next

\* The handlers of commit and poll, interleaved and dropped at their awaits,
\* keep the types, for any number of them.
THEOREM TypesOK == Spec => []TypeOK
BY TypeInit, TypeStep, PTL DEF Spec

----------------------------------------------------------------------------
(* The handlers of commit implement the journal.                           *)

Asked == [k \in {j \in Calls : call[j].state # "unborn"} |-> call[k].record]
Decided == [k \in Calls |-> call[k].id]

\* The queries of the abstract journal are those of the database.
LEMMA SameQueries ==
  /\ \A u, p : Abstract!LatestForPath(records, u, p) = LatestForPath(records, u, p)
  /\ \A r, s : Abstract!SameContent(r, s) <=> SameContent(r, s)
BY DEF Abstract!LatestForPath, Abstract!Latest, Abstract!SameContent, LatestForPath, Latest, SameContent

LEMMA CallInvInit == Init => CallInv
BY DEF Init, CallInv

LEMMA CallInvStep == TypeOK /\ CallInv /\ [Next]_vars => CallInv'
<1> SUFFICES ASSUME TypeOK, CallInv, [Next]_vars PROVE CallInv'
  OBVIOUS
<1>0. call \in [Calls -> CallRecord] /\ owed \in [Calls -> SUBSET Polls]
  BY TypeParts
<1>1. ASSUME NEW u \in Clients, CommitStart(u) PROVE CallInv'
  <2>1. PICK k \in Calls, r \in Record :
          /\ call[k].state = "unborn"
          /\ call' = [call EXCEPT ![k] = [state |-> IF NonLocalChunks(r) = {} THEN "check" ELSE "need",
                                          from |-> u, record |-> r, id |-> 0]]
          /\ owed' = owed
    BY <1>1 DEF CommitStart
  <2>2. call'[k].id = 0 /\ owed'[k] = {}
    BY <1>0, <2>1 DEF CallInv
  <2>3. \A j \in Calls \ {k} : call'[j] = call[j] /\ owed'[j] = owed[j]
    BY <1>0, <2>1
  <2> QED BY <2>2, <2>3 DEF CallInv
<1>2. ASSUME NEW k \in Calls,
             CommitCheck(k) \/ CommitInsert(k) \/ CommitNotify(k) \/ CommitDropped(k)
      PROVE  CallInv'
  <2>1. \A j \in Calls \ {k} : call'[j] = call[j] /\ owed'[j] = owed[j]
    BY <1>0, <1>2 DEF CommitCheck, CommitInsert, CommitNotify, CommitDropped
  <2>2. /\ call'[k].state \in {"unborn", "check", "insert", "orphaned"} => call'[k].id = 0
        /\ call'[k].state \notin {"notify", "answered"} => owed'[k] = {}
    <3>1. CASE CommitCheck(k)
      <4>1. owed'[k] = {} /\ call[k].id = 0
        BY <3>1 DEF CommitCheck, CallInv
      <4>2. PICK i : \/ call' = [call EXCEPT ![k].state = "insert"]
                     \/ call' = [call EXCEPT ![k].state = "answered", ![k].id = i]
        BY <3>1 DEF CommitCheck
      <4>3. CASE call' = [call EXCEPT ![k].state = "insert"]
        <5>1. call'[k].state = "insert" /\ call'[k].id = call[k].id
          BY <1>0, <4>3, CallReads
        <5> QED BY <4>1, <5>1
      <4>4. CASE call' = [call EXCEPT ![k].state = "answered", ![k].id = i]
        <5>1. call'[k].state = "answered"
          BY <1>0, <4>4, CallReads
        <5> QED BY <5>1
      <4> QED BY <4>2, <4>3, <4>4
    <3>2. CASE CommitInsert(k)
      BY <1>0, <3>2 DEF CommitInsert, CallInv
    <3>3. CASE CommitNotify(k)
      BY <1>0, <3>3 DEF CommitNotify, CallInv
    <3>4. CASE CommitDropped(k)
      <4>1. owed'[k] = {} /\ call[k].id = 0
        BY <3>4 DEF CommitDropped, CallInv
      <4>2. PICK s : s \in {"dropped", "orphaned"} /\ call' = [call EXCEPT ![k].state = s]
        BY <3>4 DEF CommitDropped
      <4>3. call'[k].state = s /\ call'[k].id = call[k].id
        BY <1>0, <4>2, CallReads
      <4> QED BY <4>1, <4>2, <4>3
    <3> QED BY <1>2, <3>1, <3>2, <3>3, <3>4
  <2> QED BY <2>1, <2>2 DEF CallInv
<1>3. ASSUME UNCHANGED <<call, owed>> PROVE CallInv'
  BY <1>3 DEF CallInv
<1> QED BY <1>1, <1>2, <1>3 DEF Next, StoreChunk, callVars, vars

LEMMA JournalInit == Init => Abstract!Init
<1> SUFFICES ASSUME Init PROVE Abstract!Init
  OBVIOUS
<1>1. records = << >> /\ Decided = [k \in Calls |-> 0]
  BY DEF Init, Decided
<1>2. Asked = << >>
  <2>1. {j \in Calls : call[j].state # "unborn"} = {}
    BY DEF Init
  <2>2. DOMAIN Asked = 1 .. 0 /\ Asked = [k \in 1 .. 0 |-> call[k].record]
    BY <2>1 DEF Asked
  <2> QED BY <2>2
<1> QED BY <1>1, <1>2 DEF Abstract!Init, Asked, Decided

\* A step that decides no call and submits none is a stutter of the journal.
LEMMA JournalStutters ==
  ASSUME call \in [Calls -> CallRecord], call' \in [Calls -> CallRecord], records' = records,
         \A j \in Calls : /\ call'[j].record = call[j].record /\ call'[j].id = call[j].id
                          /\ call'[j].state = "unborn" <=> call[j].state = "unborn"
  PROVE  UNCHANGED Abstract!vars
BY DEF Abstract!vars

LEMMA JournalStep == TypeOK /\ TypeOK' /\ CallInv /\ [Next]_vars => [Abstract!Next]_Abstract!vars
<1> SUFFICES ASSUME TypeOK, TypeOK', CallInv, [Next]_vars PROVE [Abstract!Next]_Abstract!vars
  OBVIOUS
<1>0. /\ call \in [Calls -> CallRecord] /\ call' \in [Calls -> CallRecord]
      /\ records \in Seq(Record)
  BY DEF TypeOK, CallRecord
<1>1. ASSUME NEW u \in Clients, CommitStart(u) PROVE Abstract!Next
  <2>1. PICK k \in Calls, r \in Record :
          /\ call[k].state = "unborn"
          /\ call' = [call EXCEPT ![k] = [state |-> IF NonLocalChunks(r) = {} THEN "check" ELSE "need",
                                          from |-> u, record |-> r, id |-> 0]]
          /\ records' = records
    BY <1>1 DEF CommitStart
  <2>2. call'[k].state # "unborn" /\ call'[k].record = r /\ call'[k].id = 0 /\ call[k].id = 0
    BY <1>0, <2>1 DEF CallInv
  <2>3. \A j \in Calls \ {k} : call'[j] = call[j]
    BY <1>0, <2>1
  <2>4. Decided' = Decided
    BY <2>2, <2>3 DEF Decided
  <2>5. k \notin DOMAIN Asked
    BY <2>1 DEF Asked
  <2>6. Asked' = [j \in DOMAIN Asked \cup {k} |-> IF j = k THEN r ELSE Asked[j]]
    <3>1. {j \in Calls : call'[j].state # "unborn"} = {j \in Calls : call[j].state # "unborn"} \cup {k}
      BY <2>2, <2>3
    <3> QED BY <2>2, <2>3, <3>1 DEF Asked
  <2> QED BY <2>1, <2>4, <2>5, <2>6 DEF Abstract!Next, Abstract!Submit, Asked, Decided
<1>2. ASSUME NEW k \in Calls, CommitCheck(k) PROVE [Abstract!Next]_Abstract!vars
  <2>1. CASE call' = [call EXCEPT ![k].state = "insert"]
    <3>1. \A j \in Calls : /\ call'[j].record = call[j].record /\ call'[j].id = call[j].id
                           /\ call'[j].state = "unborn" <=> call[j].state = "unborn"
      <4>1. /\ call'[k].state = "insert" /\ call'[k].record = call[k].record
            /\ call'[k].id = call[k].id /\ \A j \in Calls \ {k} : call'[j] = call[j]
        BY <1>0, <2>1, CallReads
      <4>2. call[k].state = "check"
        BY <1>2 DEF CommitCheck
      <4> QED BY <4>1, <4>2
    <3> QED BY <1>0, <1>2, <3>1, JournalStutters DEF CommitCheck
  <2>2. ASSUME NEW i \in DedupMatches(k), call' = [call EXCEPT ![k].state = "answered", ![k].id = i]
        PROVE  Abstract!Next
    <3>1. call[k].state = "check" /\ records' = records
      BY <1>2 DEF CommitCheck
    <3>2. k \in DOMAIN Asked /\ Asked[k] = call[k].record /\ Decided[k] = 0
      BY <3>1 DEF Asked, Decided, CallInv
    <3>3. Asked' = Asked
      BY <1>0, <2>2, <3>1 DEF Asked
    <3>4. Decided' = [Decided EXCEPT ![k] = i]
      <4>1. call'[k].id = i /\ \A j \in Calls \ {k} : call'[j].id = call[j].id
        BY <1>0, <2>2, CallReads
      <4> QED BY <4>1 DEF Decided
    <3>5. /\ i \in Abstract!LatestForPath(records, Asked[k].user, Asked[k].path)
          /\ Abstract!SameContent(records[i], Asked[k])
      BY <2>2, <3>2, SameQueries DEF DedupMatches
    <3>6. Abstract!KnownRecord(k)
      BY <3>1, <3>4, <3>5 DEF Abstract!KnownRecord, Asked, Decided
    <3> QED BY <3>2, <3>3, <3>6 DEF Abstract!Next, Abstract!Decide, Asked, Decided
  <2> QED BY <1>2, <2>1, <2>2 DEF CommitCheck
<1>3. ASSUME NEW k \in Calls, CommitInsert(k) PROVE Abstract!Next
  <2>1. /\ call[k].state \in {"insert", "orphaned"} /\ records' = Append(records, call[k].record)
        /\ call' = [call EXCEPT ![k].state = IF call[k].state = "insert" THEN "notify" ELSE "dropped",
                                ![k].id = Len(records) + 1]
    BY <1>3 DEF CommitInsert
  <2>2. k \in DOMAIN Asked /\ Asked[k] = call[k].record /\ Decided[k] = 0
    BY <2>1 DEF Asked, Decided, CallInv
  <2>3. Asked' = Asked
    <3>1. \A j \in Calls : /\ call'[j].record = call[j].record
                           /\ call'[j].state = "unborn" <=> call[j].state = "unborn"
      BY <1>0, <2>1
    <3> QED BY <3>1 DEF Asked
  <2>4. Decided' = [Decided EXCEPT ![k] = Len(records) + 1]
    <3>1. call'[k].id = Len(records) + 1 /\ \A j \in Calls \ {k} : call'[j].id = call[j].id
      BY <1>0, <2>1, CallReads
    <3> QED BY <3>1 DEF Decided
  <2>5. Abstract!NewRecord(k)
    BY <2>1, <2>2, <2>4 DEF Abstract!NewRecord, Asked, Decided
  <2> QED BY <2>2, <2>3, <2>5 DEF Abstract!Next, Abstract!Decide, Asked, Decided
<1>4. ASSUME NEW k \in Calls, CommitNotify(k) \/ CommitDropped(k) PROVE UNCHANGED Abstract!vars
  <2>1. \A j \in Calls : /\ call'[j].record = call[j].record /\ call'[j].id = call[j].id
                         /\ call'[j].state = "unborn" <=> call[j].state = "unborn"
    <3>1. PICK s : call' = [call EXCEPT ![k].state = s] /\ s # "unborn" /\ call[k].state # "unborn"
      BY <1>4 DEF CommitNotify, CommitDropped
    <3> QED BY <1>0, <3>1, CallReads
  <2> QED BY <1>0, <1>4, <2>1, JournalStutters DEF CommitNotify, CommitDropped
<1>5. ASSUME UNCHANGED <<call, records>> PROVE UNCHANGED Abstract!vars
  BY <1>5 DEF Abstract!vars
<1> QED BY <1>1, <1>2, <1>3, <1>4, <1>5 DEF Next, StoreChunk, callVars, vars

\* The handlers of commit, interleaved at their awaits and dropped there,
\* implement the abstract journal: it only grows, and each call is decided
\* once, by its own record at the end or by an equal one that was the newest
\* of its path at that moment, however many clients commit at a time.
THEOREM HandlersImplementJournal == Spec => ImplementsJournal
<1>1. TypeOK /\ CallInv /\ [Next]_vars => (TypeOK /\ CallInv)'
  BY TypeStep, CallInvStep
<1>2. Spec => [](TypeOK /\ CallInv)
  BY TypeInit, CallInvInit, <1>1, PTL DEF Spec
<1> QED BY <1>2, JournalInit, JournalStep, PTL DEF Spec, ImplementsJournal, Abstract!Spec
----------------------------------------------------------------------------
(* A commit releases the polls.                                            *)

IInv == TypeOK /\ CallInv /\ HandleInv /\ WakeInv

LEMMA WakeInit == Init => HandleInv /\ WakeInv
BY DEF Init, NotificationInit, HandleInv, WakeInv, CommitReleasesPolls, Waiting, NoHandle

\* A handler of commit: the polls stand, and permits are only added.
LEMMA WakeCommit ==
  ASSUME IInv, NEW k \in Calls,
         CommitCheck(k) \/ CommitInsert(k) \/ CommitNotify(k) \/ CommitDropped(k)
  PROVE  HandleInv' /\ WakeInv'
<1>0. /\ call \in [Calls -> CallRecord] /\ poll \in [Polls -> PollRecord]
      /\ owed \in [Calls -> SUBSET Polls]
  BY TypeParts DEF IInv
<1>1. UNCHANGED <<clients, poll, displaced>> /\ permit \subseteq permit'
  BY DEF CommitCheck, CommitInsert, CommitNotify, CommitDropped, Notify, notificationVars
<1>2. HandleInv'
  BY <1>1 DEF IInv, HandleInv
<1>3. \A j \in Calls \ {k} : call'[j] = call[j] /\ owed'[j] = owed[j]
  <2>1. CASE CommitCheck(k)
    BY <1>0, <2>1 DEF CommitCheck
  <2>2. CASE CommitInsert(k)
    BY <1>0, <2>2 DEF CommitInsert
  <2>3. CASE CommitNotify(k)
    BY <1>0, <2>3 DEF CommitNotify
  <2>4. CASE CommitDropped(k)
    BY <1>0, <2>4 DEF CommitDropped
  <2> QED BY <2>1, <2>2, <2>3, <2>4
<1>4. call'[k].from = call[k].from
  <2>1. PICK s, i : call' = [call EXCEPT ![k].state = s] \/ call' = [call EXCEPT ![k].state = s, ![k].id = i]
    <3>1. CASE CommitCheck(k)
      BY <3>1 DEF CommitCheck
    <3>2. CASE CommitInsert(k)
      BY <3>2 DEF CommitInsert
    <3>3. CASE CommitNotify(k) \/ CommitDropped(k)
      BY <3>3 DEF CommitNotify, CommitDropped
    <3> QED BY <3>1, <3>2, <3>3
  <2>2. CASE call' = [call EXCEPT ![k].state = s]
    BY <1>0, <2>2, CallReads
  <2>3. CASE call' = [call EXCEPT ![k].state = s, ![k].id = i]
    BY <1>0, <2>3, CallReads
  <2> QED BY <2>1, <2>2, <2>3
<1>5. \A j \in Polls : j \in owed'[k] => poll[j].state # "unborn" /\ poll[j].uuid # call[k].from
  <2>1. CASE CommitInsert(k)
    BY <1>0, <2>1 DEF CommitInsert, Waiting
  <2>2. CASE ~ CommitInsert(k)
    BY <2>2 DEF CommitCheck, CommitNotify, CommitDropped, IInv, WakeInv
  <2> QED BY <2>1, <2>2
<1>6. \A j \in Polls : Overtaken(j) => Overtaken(j)'
  BY <1>1 DEF Overtaken
<1>7. ASSUME call'[k].state = "answered",
             NEW j \in owed'[k], Waiting(j)
      PROVE  poll[j].handle \in permit' \/ Overtaken(j)
  <2>1. CASE CommitNotify(k)
    <3>1. /\ owed'[k] = owed[k] /\ j \in Polls
          /\ permit' = permit \cup ({clients[v] : v \in Clients \ {call[k].from}} \ {NoHandle})
      BY <1>0, <1>7, <2>1 DEF CommitNotify, Notify
    <3>2. poll[j].uuid # call[k].from /\ poll[j].uuid \in Clients
      BY <1>0, <3>1 DEF IInv, WakeInv, PollRecord
    <3>3. poll[j].handle # NoHandle
      BY <1>7, <3>1, NatSets DEF IInv, HandleInv, Waiting, NoHandle
    <3>4. clients[poll[j].uuid] = poll[j].handle \/ j \in displaced
      BY <1>7, <3>1 DEF IInv, WakeInv
    <3> QED BY <3>1, <3>2, <3>3, <3>4 DEF Overtaken
  <2>2. CASE CommitCheck(k)
    <3>1. owed'[k] = {}
      BY <2>2 DEF CommitCheck, IInv, CallInv
    <3> QED BY <1>7, <3>1
  <2>3. CASE CommitInsert(k)
    <3>1. PICK s : s \in {"notify", "dropped"}
                   /\ call' = [call EXCEPT ![k].state = s, ![k].id = Len(records) + 1]
      BY <2>3 DEF CommitInsert
    <3>2. call'[k].state = s
      BY <1>0, <3>1, CallReads
    <3> QED BY <1>7, <3>1, <3>2
  <2>4. CASE CommitDropped(k)
    <3>1. PICK s : s \in {"orphaned", "dropped"} /\ call' = [call EXCEPT ![k].state = s]
      BY <2>4 DEF CommitDropped
    <3>2. call'[k].state = s
      BY <1>0, <3>1, CallReads
    <3> QED BY <1>7, <3>1, <3>2
  <2> QED BY <2>1, <2>2, <2>3, <2>4
<1>8. CommitReleasesPolls'
  <2> SUFFICES ASSUME NEW c \in Calls, call'[c].state = "answered",
                      NEW j \in owed'[c], Waiting(j)', poll'[j].live
               PROVE  poll'[j].handle \in permit' \/ Overtaken(j)'
    BY DEF CommitReleasesPolls
  <2>1. Waiting(j) /\ poll[j].live /\ j \in Polls
    <3>1. owed'[c] \subseteq Polls
      BY <1>0, <1>3 DEF CommitCheck, CommitInsert, CommitNotify, CommitDropped
    <3> QED BY <1>1, <3>1 DEF Waiting
  <2>2. CASE c = k
    BY <1>1, <1>6, <1>7, <2>1, <2>2
  <2>3. CASE c # k
    <3>1. call[c].state = "answered" /\ j \in owed[c]
      BY <1>3, <2>3
    <3>2. poll[j].handle \in permit \/ Overtaken(j)
      BY <2>1, <3>1 DEF IInv, WakeInv, CommitReleasesPolls
    <3> QED BY <1>1, <1>6, <2>1, <3>2
  <2> QED BY <2>2, <2>3
<1>9. \A j \in Polls : Waiting(j)' => clients'[poll'[j].uuid] = poll'[j].handle \/ j \in displaced'
  BY <1>1 DEF Waiting, IInv, WakeInv
<1>10. \A c \in Calls, j \in Polls :
         j \in owed'[c] => poll'[j].state # "unborn" /\ poll'[j].uuid # call'[c].from
  BY <1>1, <1>3, <1>4, <1>5 DEF IInv, WakeInv
<1> QED BY <1>2, <1>8, <1>9, <1>10 DEF WakeInv

\* A poll that arrives takes the Notify of its uuid, or brings one.
LEMMA WakePollStart ==
  ASSUME IInv, NEW u \in Clients, PollStart(u), UNCHANGED callVars
  PROVE  HandleInv' /\ WakeInv'
<1>0. /\ clients \in [Clients -> 0 .. MaxPolls] /\ poll \in [Polls -> PollRecord]
      /\ owed \in [Calls -> SUBSET Polls]
  BY TypeParts DEF IInv
<1> PICK k \in Polls :
      /\ poll[k].state = "unborn" /\ UNCHANGED <<permit, displaced>>
      /\ LET handle == IF clients[u] = NoHandle THEN k ELSE clients[u]
         IN  /\ clients' = [clients EXCEPT ![u] = handle]
             /\ poll' = [poll EXCEPT ![k] = [state |-> "waiting", live |-> TRUE,
                                             uuid |-> u, handle |-> handle]]
  BY DEF PollStart
<1> DEFINE handle == IF clients[u] = NoHandle THEN k ELSE clients[u]
<1>1. /\ clients'[u] = handle
      /\ \A v \in Clients \ {u} : clients'[v] = clients[v]
      /\ poll'[k].state = "waiting" /\ poll'[k].uuid = u /\ poll'[k].handle = handle
      /\ \A j \in Polls \ {k} : poll'[j] = poll[j]
  BY <1>0
<1>2. /\ handle \in Polls /\ handle # NoHandle
      /\ handle # k => poll[handle].state # "unborn" /\ poll[handle].uuid = u
  <2>1. CASE clients[u] = NoHandle
    BY <2>1, NatSets DEF NoHandle
  <2>2. CASE clients[u] # NoHandle
    <3>1. clients[u] \in Polls
      BY <1>0, <2>2, NotificationAssumption DEF NoHandle, Polls
    <3> QED BY <2>2, <3>1 DEF IInv, HandleInv
  <2> QED BY <2>1, <2>2
<1> HIDE DEF handle
<1>3. HandleInv'
  <2>1. ASSUME NEW j \in Polls, poll'[j].state # "unborn"
        PROVE  /\ poll'[j].handle \in Polls /\ poll'[poll'[j].handle].state # "unborn"
               /\ poll'[poll'[j].handle].uuid = poll'[j].uuid
    <3>1. CASE j = k
      BY <1>1, <1>2, <3>1
    <3>2. CASE j # k
      BY <1>1, <2>1, <3>2 DEF IInv, HandleInv
    <3> QED BY <3>1, <3>2
  <2>2. ASSUME NEW v \in Clients, clients'[v] # NoHandle
        PROVE  poll'[clients'[v]].state # "unborn" /\ poll'[clients'[v]].uuid = v
    <3>1. CASE v = u
      BY <1>1, <1>2, <3>1
    <3>2. CASE v # u
      <4>1. /\ clients'[v] = clients[v] /\ clients[v] \in Polls
            /\ poll[clients[v]].state # "unborn" /\ poll[clients[v]].uuid = v
        BY <1>0, <1>1, <2>2, <3>2, NotificationAssumption DEF IInv, HandleInv, NoHandle, Polls
      <4> QED BY <1>1, <4>1
    <3> QED BY <3>1, <3>2
  <2> QED BY <2>1, <2>2 DEF HandleInv
<1>4. ASSUME NEW j \in Polls, Waiting(j)'
      PROVE  clients'[poll'[j].uuid] = poll'[j].handle \/ j \in displaced'
  <2>1. CASE j = k
    BY <1>1, <2>1
  <2>2. CASE j # k
    <3>1. /\ poll'[j] = poll[j] /\ poll[j].uuid \in Clients /\ poll[j].handle # NoHandle
          /\ clients[poll[j].uuid] = poll[j].handle \/ j \in displaced
      BY <1>0, <1>1, <1>4, <2>2, NatSets DEF PollRecord, IInv, HandleInv, WakeInv, Waiting, NoHandle
    <3>2. CASE poll[j].uuid = u /\ j \notin displaced
      BY <1>1, <3>1, <3>2 DEF handle
    <3> QED BY <1>1, <3>1, <3>2
  <2> QED BY <2>1, <2>2
<1>5. owed' = owed /\ call' = call
  BY DEF callVars
<1>6. \A c \in Calls, j \in Polls : j \in owed[c] => j # k
  BY DEF IInv, WakeInv
<1>7. \A c \in Calls, j \in Polls :
         j \in owed'[c] => poll'[j].state # "unborn" /\ poll'[j].uuid # call'[c].from
  BY <1>1, <1>5, <1>6 DEF IInv, WakeInv
<1>8. CommitReleasesPolls'
  <2> SUFFICES ASSUME NEW c \in Calls, call[c].state = "answered",
                      NEW j \in owed[c], Waiting(j)', poll'[j].live
               PROVE  poll'[j].handle \in permit' \/ Overtaken(j)'
    BY <1>5 DEF CommitReleasesPolls
  <2>1. j \in Polls /\ j # k /\ poll'[j] = poll[j]
    BY <1>0, <1>1, <1>6
  <2>2. poll[j].handle \in permit \/ Overtaken(j)
    BY <2>1 DEF IInv, WakeInv, CommitReleasesPolls, Waiting
  <2>3. ASSUME NEW i \in Polls \ {j}, poll[i].uuid = poll[j].uuid, poll[i].state = "ended"
        PROVE  Overtaken(j)'
    <3>1. i # k /\ poll'[i] = poll[i]
      BY <1>1, <2>3
    <3> QED BY <2>1, <2>3, <3>1 DEF Overtaken
  <2> QED BY <2>1, <2>2, <2>3 DEF Overtaken
<1> QED BY <1>3, <1>4, <1>7, <1>8 DEF WakeInv

\* A poll that is over, in whatever way, or whose client gave up.
LEMMA WakePollEnd ==
  ASSUME IInv, NEW k \in Polls, UNCHANGED callVars,
         PollWoken(k) \/ PollTimesOut(k) \/ PollReturn(k) \/ ClientHangsUp(k) \/ PollDropped(k)
  PROVE  HandleInv' /\ WakeInv'
<1>0. /\ clients \in [Clients -> 0 .. MaxPolls] /\ poll \in [Polls -> PollRecord]
      /\ owed \in [Calls -> SUBSET Polls]
  BY TypeParts DEF IInv
<1>1. /\ \A j \in Polls : poll'[j].uuid = poll[j].uuid /\ poll'[j].handle = poll[j].handle
      /\ \A j \in Polls \ {k} : poll'[j] = poll[j]
      /\ poll'[k].state = "unborn" <=> poll[k].state = "unborn"
      /\ Waiting(k)' => Waiting(k)
      /\ poll'[k].live => poll[k].live
      /\ poll[k].state = "ended" /\ poll'[k].state # "ended" => PollReturn(k)
  <2>1. CASE PollWoken(k) \/ PollTimesOut(k)
    <3>1. poll' = [poll EXCEPT ![k].state = "ended"] /\ Waiting(k)
      BY <2>1 DEF PollWoken, PollTimesOut
    <3>2. /\ poll'[k].state = "ended" /\ poll'[k].live = poll[k].live
          /\ \A j \in Polls : poll'[j].uuid = poll[j].uuid /\ poll'[j].handle = poll[j].handle
          /\ \A j \in Polls \ {k} : poll'[j] = poll[j]
      BY <1>0, <3>1, PollReads
    <3> QED BY <3>1, <3>2 DEF Waiting
  <2>2. CASE PollReturn(k)
    <3>1. poll' = [poll EXCEPT ![k].state = "gone", ![k].live = FALSE] /\ poll[k].state = "ended"
      BY <2>2 DEF PollReturn
    <3>2. /\ poll'[k].state = "gone" /\ ~ poll'[k].live
          /\ \A j \in Polls : poll'[j].uuid = poll[j].uuid /\ poll'[j].handle = poll[j].handle
          /\ \A j \in Polls \ {k} : poll'[j] = poll[j]
      BY <1>0, <3>1, PollReads
    <3> QED BY <2>2, <3>1, <3>2 DEF Waiting
  <2>3. CASE ClientHangsUp(k)
    <3>1. poll' = [poll EXCEPT ![k].live = FALSE]
      BY <2>3 DEF ClientHangsUp
    <3>2. /\ poll'[k].state = poll[k].state /\ ~ poll'[k].live
          /\ \A j \in Polls : poll'[j].uuid = poll[j].uuid /\ poll'[j].handle = poll[j].handle
          /\ \A j \in Polls \ {k} : poll'[j] = poll[j]
      BY <1>0, <3>1, PollReads
    <3> QED BY <3>2 DEF Waiting
  <2>4. CASE PollDropped(k)
    <3>1. poll' = [poll EXCEPT ![k].state = "gone"] /\ Waiting(k)
      BY <2>4 DEF PollDropped
    <3>2. /\ poll'[k].state = "gone" /\ poll'[k].live = poll[k].live
          /\ \A j \in Polls : poll'[j].uuid = poll[j].uuid /\ poll'[j].handle = poll[j].handle
          /\ \A j \in Polls \ {k} : poll'[j] = poll[j]
      BY <1>0, <3>1, PollReads
    <3> QED BY <3>1, <3>2 DEF Waiting
  <2> QED BY <2>1, <2>2, <2>3, <2>4
<1>2. \A j \in Polls : Waiting(j)' => Waiting(j)
  BY <1>1 DEF Waiting
<1>3. \A j \in Polls : poll'[j].state = "unborn" <=> poll[j].state = "unborn"
  BY <1>1
<1>4. displaced \subseteq displaced' /\ owed' = owed /\ call' = call
  BY DEF PollWoken, PollTimesOut, PollReturn, ClientHangsUp, PollDropped, callVars
<1>5. CASE PollReturn(k)
  <2>1. /\ clients' = [clients EXCEPT ![poll[k].uuid] = NoHandle]
        /\ displaced' = displaced \cup {j \in Polls \ {k} : Waiting(j) /\ poll[j].uuid = poll[k].uuid}
        /\ permit' = permit
    BY <1>5 DEF PollReturn
  <2>2. \A v \in Clients : clients'[v] = IF v = poll[k].uuid THEN NoHandle ELSE clients[v]
    BY <1>0, <2>1
  <2>3. \A j \in Polls : poll[j].uuid \in Clients
    BY <1>0 DEF PollRecord
  <2>4. ~ Waiting(k)
    BY <1>5 DEF PollReturn, Waiting
  <2>5. \A j \in Polls : Waiting(j)' => clients'[poll'[j].uuid] = poll'[j].handle \/ j \in displaced'
    BY <1>1, <1>2, <2>1, <2>2, <2>3, <2>4 DEF IInv, WakeInv
  <2>6. \A j \in Polls : Waiting(j) /\ Overtaken(j) => Overtaken(j)'
    <3> SUFFICES ASSUME NEW j \in Polls, Waiting(j), Overtaken(j) PROVE Overtaken(j)'
      OBVIOUS
    <3>1. CASE j \in displaced
      BY <1>4, <3>1 DEF Overtaken
    <3>2. ASSUME NEW i \in Polls \ {j}, poll[i].uuid = poll[j].uuid, poll[i].state = "ended"
          PROVE  Overtaken(j)'
      <4>1. CASE i = k
        BY <2>1, <3>2, <4>1 DEF Overtaken
      <4>2. CASE i # k
        BY <1>1, <3>2, <4>2 DEF Overtaken
      <4> QED BY <4>1, <4>2
    <3> QED BY <3>1, <3>2 DEF Overtaken
  <2>7. \A v \in Clients :
          clients'[v] # NoHandle => poll'[clients'[v]].state # "unborn" /\ poll'[clients'[v]].uuid = v
    <3> SUFFICES ASSUME NEW v \in Clients, clients'[v] # NoHandle
                 PROVE  poll'[clients'[v]].state # "unborn" /\ poll'[clients'[v]].uuid = v
      OBVIOUS
    <3>1. clients'[v] = clients[v] /\ clients[v] \in Polls
      BY <1>0, <2>2, NotificationAssumption DEF NoHandle, Polls
    <3> QED BY <1>1, <1>3, <3>1 DEF IInv, HandleInv
  <2>8. CommitReleasesPolls'
    BY <1>0, <1>1, <1>2, <1>4, <2>1, <2>6 DEF CommitReleasesPolls, IInv, WakeInv
  <2> QED BY <1>1, <1>3, <1>4, <2>5, <2>7, <2>8 DEF IInv, HandleInv, WakeInv
<1>6. CASE ~ PollReturn(k)
  <2>1. UNCHANGED <<clients, displaced>>
    BY <1>6 DEF PollWoken, PollTimesOut, ClientHangsUp, PollDropped
  <2>2. \A j \in Polls : Overtaken(j) => Overtaken(j)'
    BY <1>1, <1>6, <2>1 DEF Overtaken
  <2>3. ASSUME NEW j \in Polls, Waiting(j)', poll[j].handle \in permit
        PROVE  poll[j].handle \in permit' \/ Overtaken(j)'
    <3>1. CASE PollWoken(k) /\ poll[j].handle = poll[k].handle
      <4>1. poll'[k].state = "ended"
        BY <1>0, <3>1, PollReads DEF PollWoken
      <4>2. j # k
        BY <2>3, <4>1 DEF Waiting
      <4>3. poll[j].uuid = poll[k].uuid
        BY <1>2, <2>3, <3>1 DEF IInv, HandleInv, PollWoken, Waiting
      <4> QED BY <1>1, <4>1, <4>2, <4>3 DEF Overtaken
    <3>2. CASE ~ (PollWoken(k) /\ poll[j].handle = poll[k].handle)
      BY <1>6, <2>3, <3>2 DEF PollWoken, PollTimesOut, ClientHangsUp, PollDropped
    <3> QED BY <3>1, <3>2
  <2>4. CommitReleasesPolls'
    <3> SUFFICES ASSUME NEW c \in Calls, call[c].state = "answered",
                        NEW j \in owed[c], Waiting(j)', poll'[j].live
                 PROVE  poll'[j].handle \in permit' \/ Overtaken(j)'
      BY <1>4 DEF CommitReleasesPolls
    <3>1. j \in Polls /\ Waiting(j) /\ poll[j].live
      BY <1>0, <1>1, <1>2
    <3>2. poll[j].handle \in permit \/ Overtaken(j)
      BY <3>1 DEF IInv, WakeInv, CommitReleasesPolls
    <3> QED BY <1>1, <2>2, <2>3, <3>1, <3>2
  <2>5. HandleInv'
    <3>1. \A v \in Clients : clients[v] # NoHandle => clients[v] \in Polls
      BY <1>0, NotificationAssumption DEF NoHandle, Polls
    <3> QED BY <1>1, <1>3, <2>1, <3>1 DEF IInv, HandleInv
  <2> QED BY <1>1, <1>2, <1>3, <1>4, <2>1, <2>4, <2>5 DEF IInv, WakeInv
<1> QED BY <1>5, <1>6

LEMMA WakeStep == IInv /\ [Next]_vars => HandleInv' /\ WakeInv'
<1> SUFFICES ASSUME IInv, [Next]_vars PROVE HandleInv' /\ WakeInv'
  OBVIOUS
<1>0. call \in [Calls -> CallRecord] /\ owed \in [Calls -> SUBSET Polls]
  BY TypeParts DEF IInv
<1>1. ASSUME NEW u \in Clients, CommitStart(u) PROVE HandleInv' /\ WakeInv'
  <2>1. PICK k \in Calls, r \in Record :
          /\ call[k].state = "unborn" /\ owed' = owed /\ UNCHANGED notificationVars
          /\ call' = [call EXCEPT ![k] = [state |-> IF NonLocalChunks(r) = {} THEN "check" ELSE "need",
                                          from |-> u, record |-> r, id |-> 0]]
    BY <1>1 DEF CommitStart
  <2>2. /\ \A c \in Calls \ {k} : call'[c] = call[c]
        /\ call'[k].state # "answered" /\ owed[k] = {}
    BY <1>0, <2>1 DEF IInv, CallInv
  <2>3. \A j \in Polls : Overtaken(j)' <=> Overtaken(j)
    BY <2>1 DEF Overtaken, notificationVars
  <2>4. CommitReleasesPolls'
    BY <1>0, <2>1, <2>2, <2>3 DEF CommitReleasesPolls, IInv, WakeInv, notificationVars, Waiting
  <2> QED BY <2>1, <2>2, <2>4 DEF IInv, HandleInv, WakeInv, notificationVars, Waiting
<1>2. CASE \E k \in Calls : CommitCheck(k) \/ CommitInsert(k) \/ CommitNotify(k) \/ CommitDropped(k)
  BY <1>2, WakeCommit
<1>3. CASE PollNext /\ UNCHANGED callVars
  BY <1>3, WakePollStart, WakePollEnd DEF PollNext
<1>4. ASSUME UNCHANGED <<call, owed, notificationVars>> PROVE HandleInv' /\ WakeInv'
  <2>1. \A j \in Polls : Overtaken(j)' <=> Overtaken(j)
    BY <1>4 DEF Overtaken, notificationVars
  <2>2. CommitReleasesPolls'
    BY <1>0, <1>4, <2>1 DEF CommitReleasesPolls, IInv, WakeInv, notificationVars, Waiting
  <2> QED BY <1>4, <2>2 DEF IInv, HandleInv, WakeInv, notificationVars, Waiting
<1> QED BY <1>1, <1>2, <1>3, <1>4 DEF Next, StoreChunk, callVars, vars

\* A commit answered as a new record has left a permit for every live poll of
\* another client that waited at its insert and still waits, unless an older
\* poll of that client was answered in between, however many devices poll.
THEOREM CommitsReleasePolls == Spec => []CommitReleasesPolls
<1>1. Init => IInv
  BY TypeInit, CallInvInit, WakeInit DEF IInv
<1>2. IInv /\ [Next]_vars => IInv'
  BY TypeStep, CallInvStep, WakeStep DEF IInv
<1>3. IInv => CommitReleasesPolls
  BY DEF IInv, WakeInv
<1> QED BY <1>1, <1>2, <1>3, PTL DEF Spec
----------------------------------------------------------------------------
(* The queries and the replay of the journal.                              *)

\* The records of user u for path p among the first n, and the last of them.
Touching(log, u, p, n) == {i \in 1 .. n : log[i].user = u /\ log[i].path = p}

LastTouching(log, u, p, n) ==
  IF Touching(log, u, p, n) = {} THEN 0
  ELSE CHOOSE i \in Touching(log, u, p, n) : \A j \in Touching(log, u, p, n) : j <= i

\* A set of naturals has a least element.
LEMMA LeastNatural ==
  ASSUME NEW S \in SUBSET Nat, S # {}
  PROVE  \E i \in S : \A j \in S : i <= j
<1> DEFINE R == OpToRel(<, Nat)
<1>1. IsWellFoundedOn(R, Nat)
  BY NatLessThanWellFounded
<1>2. \A i, j \in Nat : j < i => <<j, i>> \in R
  BY DEF OpToRel
<1> HIDE DEF R
<1>3. PICK i \in S : \A j \in S : ~ (<<j, i>> \in R)
  BY <1>1, WFMin
<1>4. ASSUME NEW j \in S PROVE i <= j
  <2>1. i \in Nat /\ j \in Nat
    OBVIOUS
  <2>2. ~ (j < i)
    BY <1>2, <1>3, <2>1
  <2> QED BY <2>1, <2>2
<1> QED BY <1>4

\* A set of naturals that is bounded has a greatest element.
LEMMA GreatestNatural ==
  ASSUME NEW S \in SUBSET Nat, S # {}, NEW n \in Nat, \A i \in S : i <= n
  PROVE  \E i \in S : \A j \in S : j <= i
<1> DEFINE bounds == {m \in Nat : \A i \in S : i <= m}
<1>1. PICK b \in bounds : \A m \in bounds : b <= m
  <2>1. bounds \subseteq Nat /\ n \in bounds
    OBVIOUS
  <2> HIDE DEF bounds
  <2> QED BY <2>1, LeastNatural
<1>2. b \in S
  <2> SUFFICES ASSUME b \notin S PROVE FALSE
    OBVIOUS
  <2>0. b \in Nat /\ S \subseteq Nat /\ \A i \in S : i <= b
    BY <1>1
  <2>1. \A i \in S : i <= b - 1
    BY <2>0
  <2>2. b - 1 \in Nat
    <3>1. PICK i \in S : TRUE
      OBVIOUS
    <3> QED BY <2>0, <2>1, <3>1
  <2>3. b - 1 \in bounds
    BY <2>1, <2>2
  <2> QED BY <1>1, <2>3
<1> QED BY <1>1, <1>2

\* What the last one is.
LEMMA LastOne ==
  ASSUME NEW log, NEW u, NEW p, NEW n \in Nat
  PROVE  /\ LastTouching(log, u, p, n) \in 0 .. n
         /\ LastTouching(log, u, p, n) # 0 =>
              LastTouching(log, u, p, n) \in Touching(log, u, p, n)
         /\ \A j \in Touching(log, u, p, n) : j <= LastTouching(log, u, p, n)
<1> DEFINE S == Touching(log, u, p, n)
<1>1. S \in SUBSET Nat /\ \A i \in S : i \in 1 .. n
  BY DEF Touching
<1>2. CASE S = {}
  BY <1>2 DEF LastTouching
<1>3. CASE S # {}
  <2>1. \E i \in S : \A j \in S : j <= i
    <3>1. \A i \in S : i <= n
      BY <1>1
    <3> HIDE DEF S
    <3> QED BY <1>1, <1>3, <3>1, GreatestNatural
  <2>2. LastTouching(log, u, p, n) = CHOOSE i \in S : \A j \in S : j <= i
    BY <1>3 DEF LastTouching
  <2>3. LastTouching(log, u, p, n) \in S /\ \A j \in S : j <= LastTouching(log, u, p, n)
    BY <2>1, <2>2
  <2> QED BY <1>1, <2>3
<1> QED BY <1>2, <1>3

\* One record more changes the last one of its path only.
LEMMA LastNext ==
  ASSUME NEW log, NEW u, NEW p, NEW n \in Nat, n # 0
  PROVE  LastTouching(log, u, p, n) =
           IF log[n].user = u /\ log[n].path = p THEN n ELSE LastTouching(log, u, p, n - 1)
<1>1. n - 1 \in Nat /\ 1 .. n = (1 .. n - 1) \cup {n}
  OBVIOUS
<1>2. CASE log[n].user = u /\ log[n].path = p
  <2>1. n \in Touching(log, u, p, n)
    BY <1>2 DEF Touching
  <2>2. n <= LastTouching(log, u, p, n) /\ LastTouching(log, u, p, n) \in 0 .. n
    BY <2>1, LastOne
  <2> QED BY <1>2, <2>2
<1>3. CASE ~ (log[n].user = u /\ log[n].path = p)
  <2>1. Touching(log, u, p, n) = Touching(log, u, p, n - 1)
    BY <1>1, <1>3 DEF Touching
  <2> QED BY <1>3, <2>1 DEF LastTouching
<1> QED BY <1>2, <1>3

\* The replay comes to the last record of each path.  (The recursion has one
\* solution: where two differ first, they do not.)
LEMMA FolderIsLast ==
  ASSUME NEW log, Len(log) \in Nat, NEW u, NEW P
  PROVE  Folder(log, u, P) = [n \in 0 .. Len(log) |-> [p \in P |-> LastTouching(log, u, p, n)]]
<1> DEFINE N == 0 .. Len(log)
           Next1(g) == [n \in N |->
             IF n = 0 THEN [p \in P |-> 0]
             ELSE [p \in P |-> IF log[n].user = u /\ log[n].path = p THEN n ELSE g[n - 1][p]]]
           last == [n \in N |-> [p \in P |-> LastTouching(log, u, p, n)]]
<1>1. last = Next1(last)
  <2>1. ASSUME NEW n \in N, n # 0, NEW p \in P
        PROVE  last[n][p] = IF log[n].user = u /\ log[n].path = p THEN n ELSE last[n - 1][p]
    <3>1. n - 1 \in N /\ n \in Nat
      BY <2>1
    <3> QED BY <2>1, <3>1, LastNext
  <2>2. ASSUME NEW p \in P PROVE LastTouching(log, u, p, 0) = 0
    <3>1. LastTouching(log, u, p, 0) \in 0 .. 0
      BY LastOne
    <3> QED BY <3>1
  <2>3. 0 \in N
    OBVIOUS
  <2>4. last[0] = [p \in P |-> 0]
    BY <2>2, <2>3
  <2>5. ASSUME NEW n \in N, n # 0
        PROVE  last[n] = [p \in P |-> IF log[n].user = u /\ log[n].path = p THEN n
                                      ELSE last[n - 1][p]]
    <3>1. last[n] = [p \in P |-> last[n][p]]
      OBVIOUS
    <3> HIDE DEF last
    <3> QED BY <2>1, <2>5, <3>1
  <2>6. \A n \in N : last[n] = Next1(last)[n]
    <3> HIDE DEF last
    <3> QED BY <2>4, <2>5
  <2>7. last = [n \in N |-> last[n]]
    OBVIOUS
  <2> HIDE DEF last
  <2> QED BY <2>6, <2>7
<1>2. ASSUME NEW g, g = Next1(g)
      PROVE  g = last
  <2> DEFINE wrong == {n \in N : g[n] # last[n]}
  <2>1. SUFFICES ASSUME wrong # {} PROVE FALSE
    BY <1>2
  <2>2. PICK m \in wrong : \A n \in wrong : m <= n
    <3>1. wrong \subseteq Nat
      OBVIOUS
    <3> HIDE DEF wrong
    <3> QED BY <2>1, <3>1, LeastNatural
  <2>3. CASE m = 0
    <3>1. 0 \in N
      OBVIOUS
    <3>2. g[0] = Next1(g)[0] /\ last[0] = Next1(last)[0]
      BY <1>1, <1>2
    <3> HIDE DEF last
    <3> QED BY <2>2, <2>3, <3>1, <3>2
  <2>4. CASE m # 0
    <3>1. m - 1 \in N /\ m - 1 \notin wrong
      BY <2>2, <2>4
    <3>2. g[m - 1] = last[m - 1] /\ m \in N /\ g[m] # last[m]
      BY <2>2, <3>1
    <3>3. g[m] = Next1(g)[m] /\ last[m] = Next1(last)[m]
      BY <1>1, <1>2
    <3> HIDE DEF last
    <3> QED BY <2>4, <3>2, <3>3
  <2> QED BY <2>3, <2>4
<1>3. Folder(log, u, P) = CHOOSE g : g = Next1(g)
  BY DEF Folder
<1> QED BY <1>1, <1>2, <1>3

\* list and has_files answer what a replay of the journal comes to, for any
\* journal, user and place in it (db.rs; ListCatchesUp).
THEOREM ListsCatchUp == Spec => []ListCatchesUp
<1>1. TypeOK => ListCatchesUp
  <2> SUFFICES ASSUME TypeOK, NEW u \in Users
               PROVE  LET folder == Folder(records, u, Paths)
                          now    == folder[Len(records)]
                          news(n, p) == {i \in ListSince(records, u, n) : records[i].path = p}
                      IN  /\ \A n \in 0 .. Len(records), p \in Paths :
                               news(n, p) = IF now[p] = folder[n][p] THEN {} ELSE {now[p]}
                          /\ HasFiles(records, u) =
                               \E p \in Paths : now[p] # 0 /\ ~ records[now[p]].deleted
    BY DEF ListCatchesUp
  <2> DEFINE L == Len(records)
             Now(p) == LastTouching(records, u, p, L)
  <2>1. /\ L \in Nat /\ DOMAIN records = 1 .. L
        /\ \A i \in 1 .. L : records[i].path \in Paths
    <3>1. records \in Seq(Record)
      BY DEF TypeOK
    <3>2. L \in Nat /\ DOMAIN records = 1 .. L /\ \A i \in 1 .. L : records[i] \in Record
      BY <3>1
    <3> QED BY <3>2 DEF Record
  <2>2. Folder(records, u, Paths) =
          [n \in 0 .. L |-> [p \in Paths |-> LastTouching(records, u, p, n)]]
    BY <2>1, FolderIsLast
  <2>3. ASSUME NEW p \in Paths, NEW i \in 1 .. L
        PROVE  i \in Latest(records, u) /\ records[i].path = p <=> i = Now(p)
    <3>1. \A j \in 1 .. L : records[j].user = u /\ records[j].path = p <=> j \in Touching(records, u, p, L)
      BY DEF Touching
    <3>2. /\ Now(p) \in 0 .. L /\ (Now(p) # 0 => Now(p) \in Touching(records, u, p, L))
          /\ \A j \in Touching(records, u, p, L) : j <= Now(p)
      BY <2>1, LastOne
    <3> HIDE DEF Now
    <3>3. ASSUME i \in Latest(records, u), records[i].path = p
          PROVE  i = Now(p)
      <4>1. i \in Touching(records, u, p, L) /\ \A j \in Touching(records, u, p, L) : j <= i
        BY <2>1, <3>1, <3>3 DEF Latest, Touching
      <4>2. Now(p) \in Touching(records, u, p, L)
        BY <3>2, <4>1
      <4> QED BY <2>1, <3>2, <4>1, <4>2
    <3>4. ASSUME i = Now(p)
          PROVE  i \in Latest(records, u) /\ records[i].path = p
      BY <2>1, <3>1, <3>2, <3>4 DEF Latest
    <3> QED BY <3>3, <3>4
  <2>4. ASSUME NEW n \in 0 .. L, NEW p \in Paths
        PROVE  {i \in ListSince(records, u, n) : records[i].path = p}
                 = IF Now(p) = LastTouching(records, u, p, n) THEN {} ELSE {Now(p)}
    <3> DEFINE old == LastTouching(records, u, p, n)
    <3>1. /\ Now(p) \in 0 .. L /\ old \in 0 .. n
          /\ Now(p) # 0 => Now(p) \in Touching(records, u, p, L)
          /\ old # 0 => old \in Touching(records, u, p, n)
          /\ \A j \in Touching(records, u, p, L) : j <= Now(p)
          /\ \A j \in Touching(records, u, p, n) : j <= old
      BY <2>1, LastOne
    <3>2. \A j \in Nat : j \in Touching(records, u, p, n) <=> j \in Touching(records, u, p, L) /\ j <= n
      BY <2>1 DEF Touching
    <3> HIDE DEF Now, old
    <3>3. \A i \in Nat : i \in ListSince(records, u, n) /\ records[i].path = p
                           <=> i = Now(p) /\ i > n
      BY <2>1, <2>3, <3>1 DEF ListSince, Latest
    <3>4. Now(p) > n <=> Now(p) # old
      BY <2>1, <3>1, <3>2
    <3>5. ListSince(records, u, n) \subseteq Nat
      BY <2>1 DEF ListSince, Latest
    <3> QED BY <3>1, <3>3, <3>4, <3>5 DEF old
  <2>5. HasFiles(records, u) = \E p \in Paths : Now(p) # 0 /\ ~ records[Now(p)].deleted
    <3>1. \A p \in Paths : Now(p) \in 0 .. L
      BY <2>1, LastOne
    <3> HIDE DEF Now
    <3> QED BY <2>1, <2>3, <3>1 DEF HasFiles, Latest
  <2> QED BY <2>1, <2>2, <2>4, <2>5
<1> QED BY <1>1, TypesOK, PTL

=============================================================================
