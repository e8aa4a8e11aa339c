---------------------------- MODULE ChunkProofs ----------------------------
(***************************************************************************)
(* Uploads of any number of clients, to any number of handlers at once:    *)
(* as long as no handler is lost, a chunk that nobody is writing is whole  *)
(* or absent, or lacks its last part because a write failed unreported.    *)
(*                                                                         *)
(* A file that is neither is still open in the handler that truncated it   *)
(* last: what that one has written since is there, and the others only add *)
(* to it.  Once that handler lets go, the last part alone may be missing:  *)
(* it is on its way, or has failed.                                        *)
(***************************************************************************)
EXTENDS ChunkStore, WellFoundedInduction, TLAPS

File == [there : BOOLEAN, parts : SUBSET Nat]

Handler == [pc : {"free", "header", "data"}, todo : Bodies, part : Nat, left : Nat,
            attached : BOOLEAN, write : {"done", "busy", "failed"}]

LateWrite == [by : Handlers, place : Places, chunk : Chunks, part : Nat]

Client == [pc : {"commit", "insert", "send", "wait", "done"},
           lacking : SUBSET Places, at : Handlers \cup {NotWaiting}]

\* A handler with a file open is in a field of its request; without one it has
\* nothing under way.
Sound(r) == IF r.pc = "data" THEN r.todo # << >> ELSE r.part = 0 /\ r.write = "done"

\* What a client has still to send are places of its file.
StateInv ==
  /\ TypeOK
  /\ \A k \in Clients : client[k].lacking \subseteq DOMAIN Needs[k]
  /\ \A h \in Handlers : Sound(handler[h])

\* h has the file of c open under its name.
Attached(h, c) == Open(h, c) /\ handler[h].attached

\* The parts that have reached the file: all that were handed over, but for the
\* last one while its write is under way or when it has failed.
Landed(r) == 1 .. (IF r.write = "done" THEN r.part ELSE r.part - 1)

\* h truncated the file of c last.
Owns(h, c) == Attached(h, c) /\ Landed(handler[h]) \subseteq file[c].parts

\* The last part of c is on its way, or has failed.
LastPartLate(c) == c \in unreported \/ \E w \in late : w.chunk = c

\* All of c is there, but perhaps for its last part.
NearlyWhole(c) == /\ file[c].there
                  /\ 1 .. Parts[c] - 1 \subseteq file[c].parts
                  /\ LastPartLate(c)

InBounds(r, c) == r.part <= Parts[c] /\ (r.write # "done" => r.part >= 1)

ChunkInv(c) ==
  /\ file[c].parts \subseteq 1 .. Parts[c]
  /\ \A h \in Handlers : Attached(h, c) => file[c].there /\ InBounds(handler[h], c)
  /\ \A w \in late : w.chunk = c => file[c].there /\ w.part = Parts[c]
  /\ \/ file[c] \in {Absent, Whole(c)}
     \/ NearlyWhole(c)
     \/ \E h \in Handlers : Owns(h, c)

FileInv == losses = 0 => \A c \in Chunks : ChunkInv(c)

IInv == StateInv /\ FileInv

----------------------------------------------------------------------------
(* Types.                                                                  *)

LEMMA Requests ==
  /\ << >> \in Bodies
  /\ \A k \in Clients : \A places \in SUBSET DOMAIN Needs[k] :
       [i \in places |-> Needs[k][i]] \in Bodies
  /\ \A body \in Bodies : \A places \in SUBSET DOMAIN body : Restrict(body, places) \in Bodies
<1>1. << >> \in Bodies
  <2>1. << >> \in [{} -> Chunks]
    OBVIOUS
  <2>2. {} \in SUBSET Places
    OBVIOUS
  <2> QED BY <2>1, <2>2 DEF Bodies
<1>2. ASSUME NEW k \in Clients, NEW places \in SUBSET DOMAIN Needs[k]
      PROVE  [i \in places |-> Needs[k][i]] \in Bodies
  <2>1. places \in SUBSET Places
    BY DEF Places
  <2>2. \A i \in places : Needs[k][i] \in Chunks
    BY ChunkStoreAssumption
  <2>3. [i \in places |-> Needs[k][i]] \in [places -> Chunks]
    BY <2>2
  <2> QED BY <2>1, <2>3 DEF Bodies
<1>3. ASSUME NEW body \in Bodies, NEW places \in SUBSET DOMAIN body
      PROVE  Restrict(body, places) \in Bodies
  <2>1. PICK all \in SUBSET Places : body \in [all -> Chunks]
    BY DEF Bodies
  <2>2. [i \in places |-> body[i]] \in [places -> Chunks] /\ places \in SUBSET Places
    BY <2>1
  <2> QED BY <2>2 DEF Bodies, Restrict
<1> QED BY <1>1, <1>2, <1>3

LEMMA Types ==
  TypeOK <=> /\ file \in [Chunks -> File]
             /\ handler \in [Handlers -> Handler]
             /\ client \in [Clients -> Client]
             /\ late \in SUBSET LateWrite /\ unreported \in SUBSET Chunks
             /\ recorded \subseteq Chunks
             /\ faults \in 0 .. MaxFaults /\ losses \in 0 .. MaxLosses
BY DEF TypeOK, File, Handler, Client, LateWrite

LEMMA FreeIsHandler == Free \in Handler
BY Requests DEF Free, Handler

LEMMA IdleIsClient == Idle \in Client
BY DEF Idle, Client

LEMMA IInit == Init => IInv
<1> SUFFICES ASSUME Init PROVE IInv
  OBVIOUS
<1>1. TypeOK
  <2>1. file \in [Chunks -> File]
    BY DEF Init, File, Absent
  <2>2. handler \in [Handlers -> Handler]
    BY FreeIsHandler DEF Init
  <2>3. client \in [Clients -> Client]
    BY IdleIsClient DEF Init
  <2> QED BY <2>1, <2>2, <2>3, ChunkStoreAssumption, Types DEF Init
<1>2. /\ \A k \in Clients : client[k].lacking \subseteq DOMAIN Needs[k]
      /\ \A h \in Handlers : Sound(handler[h])
  BY DEF Init, Idle, Free, Sound
<1>3. FileInv
  BY DEF Init, FileInv, ChunkInv, Free, Absent, Attached, Open
<1> QED BY <1>1, <1>2, <1>3 DEF IInv, StateInv

LEMMA CountersStep ==
  TypeOK /\ [Next]_vars => /\ faults' \in 0 .. MaxFaults /\ losses' \in 0 .. MaxLosses
                           /\ losses' = losses \/ losses' = losses + 1
<1> SUFFICES ASSUME TypeOK, [Next]_vars
             PROVE  /\ faults' \in 0 .. MaxFaults /\ losses' \in 0 .. MaxLosses
                    /\ losses' = losses \/ losses' = losses + 1
  OBVIOUS
<1>1. faults \in 0 .. MaxFaults /\ losses \in 0 .. MaxLosses /\ MaxFaults \in Nat /\ MaxLosses \in Nat
  <2>1. faults \in 0 .. MaxFaults /\ losses \in 0 .. MaxLosses
    BY Zenon DEF TypeOK
  <2> QED BY <2>1, ChunkStoreAssumption, Zenon
<1>2. /\ faults' = faults \/ (faults < MaxFaults /\ faults' = faults + 1)
      /\ losses' = losses \/ (losses < MaxLosses /\ losses' = losses + 1)
  BY ZenonT(60) DEF Next, Loop, Commit, Insert, Send, GiveUp, Receive, NextField, Write, WriteLands,
         WriteReported, FieldEnds, FieldCutOff, BodyEnds, CreateFails, WriteFails, LateLands, LateFails,
         Dropped, Crash, Lose, Fault, vars
<1> QED BY <1>1, <1>2

\* A set of naturals has a least element.
LEMMA LeastPlace ==
  ASSUME NEW S \in SUBSET Nat, S # {}
  PROVE  Min(S) \in S
<1> DEFINE R == OpToRel(<, Nat)
<1>1. IsWellFoundedOn(R, Nat)
  BY NatLessThanWellFounded
<1>2. \A i, j \in Nat : j < i => <<j, i>> \in R
  BY DEF OpToRel
<1> HIDE DEF R
<1>3. PICK i \in S : \A j \in S : ~ (<<j, i>> \in R)
  BY <1>1, WFMin
<1>4. ASSUME NEW j \in S PROVE i <= j
  <2>1. i \in Nat /\ j \in Nat
    OBVIOUS
  <2>2. ~ (j < i)
    BY <1>2, <1>3, <2>1
  <2> QED BY <2>1, <2>2
<1> QED BY <1>4 DEF Min

\* The chunk at hand is one of the request.
LEMMA AtHand ==
  ASSUME TypeOK, NEW h \in Handlers, handler[h].todo # << >>
  PROVE  Place(h) \in Places /\ Chunk(h) \in Chunks
<1>0. handler[h].todo \in Bodies
  BY Types DEF Handler
<1>1. PICK places \in SUBSET Places : handler[h].todo \in [places -> Chunks]
  BY <1>0 DEF Bodies
<1>2. places # {}
  <2>1. SUFFICES ASSUME places = {} PROVE handler[h].todo = << >>
    OBVIOUS
  <2>2. handler[h].todo \in [{} -> Chunks] /\ << >> \in [{} -> Chunks]
    BY <1>1, <2>1
  <2>3. \A f, g \in [{} -> Chunks] : f = g
    OBVIOUS
  <2> QED BY <2>2, <2>3, Zenon
<1>3. places \in SUBSET Nat
  BY ChunkStoreAssumption DEF Places
<1>4. Min(places) \in places
  BY <1>2, <1>3, LeastPlace
<1> QED BY <1>1, <1>4 DEF Place, Chunk

LEMMA WithIsFile ==
  ASSUME TypeOK, NEW c, NEW part \in Nat
  PROVE  With(c, part) \in [Chunks -> File]
<1>1. file \in [Chunks -> File]
  BY Types
<1>2. \A d \in Chunks : [file[d] EXCEPT !.parts = @ \cup {part}] \in File
  BY <1>1 DEF File
<1> QED BY <1>1, <1>2 DEF With

LEMMA FilesStep == TypeOK /\ [Next]_vars => file' \in [Chunks -> File]
<1> SUFFICES ASSUME TypeOK, [Next]_vars PROVE file' \in [Chunks -> File]
  OBVIOUS
<1>0. /\ file \in [Chunks -> File] /\ \A h \in Handlers : handler[h] \in Handler
      /\ late \in SUBSET LateWrite
  BY Types
<1>1. ASSUME NEW h \in Handlers, NextField(h) \/ WriteReported(h) \/ FieldCutOff(h)
      PROVE  file' \in [Chunks -> File]
  <2>1. Empty \in File /\ Absent \in File
    BY DEF Empty, Absent, File
  <2>2. file' = [file EXCEPT ![Chunk(h)] = Empty] \/ file' = [file EXCEPT ![Chunk(h)] = Absent]
    BY <1>1 DEF NextField, WriteReported, FieldCutOff, RemoveFile
  <2> QED BY <1>0, <2>1, <2>2
<1>2. ASSUME NEW h \in Handlers, WriteLands(h)
      PROVE  file' \in [Chunks -> File]
  <2>1. handler[h].part \in Nat
    BY <1>0 DEF Handler
  <2>2. With(Chunk(h), handler[h].part) \in [Chunks -> File]
    BY <2>1, WithIsFile
  <2> QED BY <1>0, <1>2, <2>2 DEF WriteLands
<1>3. ASSUME NEW w \in late, LateLands(w)
      PROVE  file' \in [Chunks -> File]
  <2>1. w.part \in Nat
    BY <1>0 DEF LateWrite
  <2> QED BY <1>3, <2>1, WithIsFile DEF LateLands
<1>4. CASE UNCHANGED file
  BY <1>0, <1>4
<1> QED BY <1>1, <1>2, <1>3, <1>4 DEF Next, Loop, Commit, Insert, Send, GiveUp, Receive, Write, FieldEnds,
           BodyEnds, CreateFails, WriteFails, LateFails, Dropped, Crash, vars

\* Late writes are of chunks, and so are the failures nobody heard of.
LEMMA WritesStep ==
  StateInv /\ [Next]_vars => late' \in SUBSET LateWrite /\ unreported' \in SUBSET Chunks
<1> SUFFICES ASSUME StateInv, [Next]_vars
             PROVE  late' \in SUBSET LateWrite /\ unreported' \in SUBSET Chunks
  OBVIOUS
<1>0. /\ TypeOK /\ late \in SUBSET LateWrite /\ unreported \in SUBSET Chunks
      /\ \A h \in Handlers : handler[h] \in Handler
  BY Types DEF StateInv
<1>1. ASSUME NEW h \in Handlers, LetGo(h)
      PROVE  late' \in SUBSET LateWrite /\ unreported' \in SUBSET Chunks
  <2> DEFINE w == [by |-> h, place |-> Place(h), chunk |-> Chunk(h), part |-> handler[h].part]
  <2>1. CASE handler[h].write = "done"
    BY <1>0, <1>1, <2>1 DEF LetGo
  <2>2. CASE handler[h].write # "done"
    <3>1. Place(h) \in Places /\ Chunk(h) \in Chunks
      BY <1>0, <2>2, AtHand DEF StateInv, Sound
    <3>2. handler[h].part \in Nat
      BY <1>0 DEF Handler
    <3>3. w \in LateWrite
      BY <3>1, <3>2 DEF LateWrite
    <3>4. late' \in {late, late \cup {w}} /\ unreported' \in {unreported, unreported \cup {Chunk(h)}}
      BY <1>1 DEF LetGo
    <3> HIDE DEF w
    <3> QED BY <1>0, <3>1, <3>3, <3>4
  <2> QED BY <2>1, <2>2
<1>2. ASSUME NEW w \in late, LateLands(w) \/ LateFails(w)
      PROVE  late' \in SUBSET LateWrite /\ unreported' \in SUBSET Chunks
  <2>1. w.chunk \in Chunks
    BY <1>0 DEF LateWrite
  <2> QED BY <1>0, <1>2, <2>1 DEF LateLands, LateFails
<1>3. CASE late' \subseteq late /\ unreported' \subseteq unreported
  BY <1>0, <1>3
<1> QED BY <1>1, <1>2, <1>3 DEF Next, Loop, Commit, Insert, Send, GiveUp, Receive, NextField, Write,
           WriteLands, WriteReported, RemoveFile, FieldEnds, FieldCutOff, BodyEnds, CreateFails, WriteFails,
           Dropped, Crash, writes, vars

\* The handlers with the record of one of them changed.
LEMMA OneHandler ==
  ASSUME NEW hs \in [Handlers -> Handler], NEW h \in Handlers, NEW r \in Handler,
         \A g \in Handlers : Sound(hs[g]),
         Sound(r)
  PROVE  /\ [hs EXCEPT ![h] = r] \in [Handlers -> Handler]
         /\ \A g \in Handlers : Sound([hs EXCEPT ![h] = r][g])
OBVIOUS

LEMMA DetachedAreHandlers ==
  ASSUME NEW hs \in [Handlers -> Handler], NEW c,
         \A g \in Handlers : Sound(hs[g])
  PROVE  /\ Detached(hs, c) \in [Handlers -> Handler]
         /\ \A g \in Handlers : Sound(Detached(hs, c)[g])
<1>1. \A h \in Handlers : /\ [hs[h] EXCEPT !.attached = FALSE] \in Handler
                          /\ [hs[h] EXCEPT !.attached = FALSE].pc = hs[h].pc
                          /\ [hs[h] EXCEPT !.attached = FALSE].write = hs[h].write
                          /\ [hs[h] EXCEPT !.attached = FALSE].todo = hs[h].todo
  BY DEF Handler
<1>2. Detached(hs, c) \in [Handlers -> Handler]
  BY <1>1 DEF Detached
<1>3. \A h \in Handlers : Detached(hs, c)[h] \in {hs[h], [hs[h] EXCEPT !.attached = FALSE]}
  BY DEF Detached
<1>4. ASSUME NEW g \in Handlers PROVE Sound(Detached(hs, c)[g])
  BY <1>1, <1>3 DEF Sound, Handler
<1> QED BY <1>2, <1>4

LEMMA HandlersStep ==
  StateInv /\ [Next]_vars => /\ handler' \in [Handlers -> Handler]
                             /\ \A h \in Handlers : Sound(handler'[h])
<1> DEFINE Good(hs) == /\ hs \in [Handlers -> Handler]
                       /\ \A h \in Handlers : Sound(hs[h])
<1> SUFFICES ASSUME StateInv, [Next]_vars PROVE Good(handler')
  OBVIOUS
<1>0. /\ handler \in [Handlers -> Handler] /\ \A h \in Handlers : handler[h] \in Handler
      /\ Free \in Handler /\ Sound(Free) /\ BodyLimit \in Nat /\ Good(handler)
  BY FreeIsHandler, ChunkStoreAssumption, Types DEF StateInv, Free, Sound
<1>1. ASSUME NEW h \in Handlers, NEW r \in Handler, Sound(r)
      PROVE  Good([handler EXCEPT ![h] = r])
  BY <1>0, <1>1, OneHandler
<1>2. ASSUME NEW k \in Clients, Send(k) PROVE Good(handler')
  <2> DEFINE body == [i \in Batch(k) |-> Needs[k][i]]
             r == [Free EXCEPT !.pc = "header", !.left = BodyLimit, !.todo = body]
  <2>1. PICK h \in Handlers : handler' = [handler EXCEPT ![h] = r]
    BY <1>2 DEF Send
  <2>2. Batch(k) \in SUBSET DOMAIN Needs[k]
    BY DEF Batch, StateInv
  <2>3. body \in Bodies
    BY <2>2, Requests
  <2> HIDE DEF body
  <2>4. r \in Handler /\ Sound(r)
    BY <1>0, <2>3 DEF Handler, Sound, Free
  <2> HIDE DEF r
  <2> QED BY <1>1, <2>1, <2>4
<1>3. ASSUME NEW h \in Handlers, CreateFails(h) \/ BodyEnds(h) \/ Dropped(h)
      PROVE  Good(handler')
  <2>1. handler' = [handler EXCEPT ![h] = Free]
    BY <1>3 DEF CreateFails, BodyEnds, AnswerOk, Dropped
  <2> QED BY <1>0, <1>1, <2>1
<1>4. ASSUME NEW h \in Handlers,
             \/ NextField(h) \/ Write(h) \/ WriteLands(h) \/ WriteFails(h) \/ FieldEnds(h)
      PROVE  Good(handler')
  <2> DEFINE r1 == [handler[h] EXCEPT !.pc = "data", !.attached = TRUE, !.left = @ - 1]
             r2 == [handler[h] EXCEPT !.part = @ + 1, !.left = @ - 1, !.write = "busy"]
             r3 == [handler[h] EXCEPT !.write = "done"]
             r4 == [handler[h] EXCEPT !.write = "failed"]
             r5 == [Free EXCEPT !.pc = "header", !.todo = Remaining(h), !.left = handler[h].left - 1]
  <2>0. /\ handler[h] \in Handler /\ handler[h].part + 1 \in Nat
        /\ Sound(handler[h])
    BY <1>0 DEF Handler
  <2>1. CASE NextField(h)
    <3>1. handler[h].left - 1 \in Nat /\ handler[h].todo # << >>
      BY <2>0, <2>1 DEF Handler, NextField, Left
    <3>2. r1 \in Handler /\ Sound(r1)
      BY <2>0, <3>1 DEF Handler, Sound
    <3>3. handler' = [handler EXCEPT ![h] = r1]
      BY <2>1 DEF NextField
    <3> HIDE DEF r1
    <3> QED BY <1>1, <3>2, <3>3
  <2>2. CASE Write(h)
    <3>1. handler[h].left - 1 \in Nat /\ handler[h].pc = "data"
      BY <2>0, <2>2 DEF Handler, Write, PartArrives, Left, Sound
    <3>2. r2 \in Handler /\ Sound(r2)
      BY <2>0, <3>1 DEF Handler, Sound
    <3>3. handler' = [handler EXCEPT ![h] = r2]
      BY <2>2 DEF Write
    <3> HIDE DEF r2
    <3> QED BY <1>1, <3>2, <3>3
  <2>3. CASE WriteLands(h) \/ WriteFails(h)
    <3>1. handler[h].pc = "data"
      BY <2>0, <2>3 DEF WriteLands, WriteFails, Sound
    <3>2. r3 \in Handler /\ Sound(r3) /\ r4 \in Handler /\ Sound(r4)
      BY <2>0, <3>1 DEF Handler, Sound
    <3>3. PICK r \in {r3, r4} : handler' = [handler EXCEPT ![h] = r]
      BY <2>3 DEF WriteLands, WriteFails
    <3> HIDE DEF r3, r4
    <3> QED BY <1>1, <3>2, <3>3
  <2>4. CASE FieldEnds(h)
    <3>1. handler[h].left - 1 \in Nat
      BY <2>0, <2>4 DEF Handler, FieldEnds, Left
    <3>2. Remaining(h) \in Bodies
      BY <1>0, Requests DEF Remaining, Handler
    <3>3. r5 \in Handler /\ Sound(r5)
      BY <3>1, <3>2, Requests DEF Handler, Free, Sound
    <3>4. handler' = [handler EXCEPT ![h] = r5]
      BY <2>4 DEF FieldEnds
    <3> HIDE DEF r5
    <3> QED BY <1>1, <3>3, <3>4
  <2> QED BY <1>4, <2>1, <2>2, <2>3, <2>4
<1>5. ASSUME NEW h \in Handlers, WriteReported(h)
      PROVE  Good(handler')
  <2> DEFINE r == [handler[h] EXCEPT !.part = @ + 1, !.left = @ - 1, !.write = "done"]
             hs == [handler EXCEPT ![h] = r]
  <2>1. /\ handler[h] \in Handler /\ handler[h].part + 1 \in Nat /\ handler[h].left - 1 \in Nat
        /\ handler[h].pc = "data" /\ Sound(handler[h])
    BY <1>0, <1>5 DEF Handler, WriteReported, PartArrives, Left, Sound
  <2>2. r \in Handler /\ Sound(r)
    BY <2>1 DEF Handler, Sound
  <2>3. handler' = Detached(hs, Chunk(h))
    BY <1>5 DEF WriteReported
  <2> HIDE DEF r
  <2>4. Good(hs)
    BY <1>1, <2>2
  <2> HIDE DEF hs
  <2> QED BY <2>3, <2>4, DetachedAreHandlers
<1>6. ASSUME NEW h \in Handlers, FieldCutOff(h)
      PROVE  Good(handler')
  <2> DEFINE hs == Detached(handler, Chunk(h))
  <2>1. Good(hs)
    BY <1>0, DetachedAreHandlers
  <2>2. handler' = [hs EXCEPT ![h] = Free]
    BY <1>6 DEF FieldCutOff
  <2> HIDE DEF hs
  <2> QED BY <1>0, <2>1, <2>2, OneHandler
<1>7. CASE Crash
  BY <1>0, <1>7 DEF Crash
<1>8. CASE UNCHANGED handler
  BY <1>0, <1>8
<1> HIDE DEF Good
<1> QED BY <1>2, <1>3, <1>4, <1>5, <1>6, <1>7, <1>8
        DEF Next, Loop, Commit, Insert, GiveUp, Receive, LateLands, LateFails, vars

\* What a client has still to send are the chunks the server said it lacked,
\* less those sent.
LEMMA ClientsStep ==
  StateInv /\ [Next]_vars => /\ client' \in [Clients -> Client]
                             /\ \A k \in Clients : client'[k].lacking \subseteq DOMAIN Needs[k]
<1> DEFINE Own(k) == {r \in Client : r.lacking \subseteq DOMAIN Needs[k]}
           Good(c) == c \in [Clients -> Client] /\ \A k \in Clients : c[k] \in Own(k)
<1> SUFFICES ASSUME StateInv, [Next]_vars PROVE Good(client')
  OBVIOUS
<1>0. /\ client \in [Clients -> Client]
      /\ \A k \in Clients : client[k] \in Own(k) /\ Idle \in Own(k) /\ RunsAgain(k) \in Own(k)
  BY IdleIsClient, Types DEF StateInv, RunsAgain, Idle
<1>1. ASSUME NEW k \in Clients, NEW r \in Own(k), client' = [client EXCEPT ![k] = r]
      PROVE  Good(client')
  BY <1>0, <1>1
<1>2. ASSUME NEW c, c = [k \in Clients |-> c[k]], \A k \in Clients : c[k] \in Own(k)
      PROVE  Good(c)
  BY <1>2
<1>3. ASSUME NEW k \in Clients, Commit(k) PROVE Good(client')
  <2> DEFINE pc == IF NonLocalChunks(k) = {} THEN "insert" ELSE "send"
             r == [client[k] EXCEPT !.pc = pc, !.lacking = NonLocalChunks(k)]
  <2>1. NonLocalChunks(k) \subseteq DOMAIN Needs[k] /\ NonLocalChunks(k) \subseteq Places
    BY DEF NonLocalChunks, Places
  <2>2. r \in Own(k)
    BY <1>0, <2>1 DEF Client
  <2>3. client' = [client EXCEPT ![k] = r]
    BY <1>3 DEF Commit
  <2> HIDE DEF r
  <2> QED BY <1>1, <2>2, <2>3
<1>4. ASSUME NEW k \in Clients, Insert(k) \/ Send(k) \/ GiveUp(k) PROVE Good(client')
  <2>1. PICK h \in Handlers \cup {NotWaiting} :
          \/ client' = [client EXCEPT ![k] = [client[k] EXCEPT !.pc = "done"]]
          \/ client' = [client EXCEPT ![k] = [client[k] EXCEPT !.pc = "wait", !.at = h]]
          \/ client' = [client EXCEPT ![k] = RunsAgain(k)]
    BY <1>4, ZenonT(60) DEF Insert, Send, GiveUp
  <2>2. [client[k] EXCEPT !.pc = "done"] \in Own(k)
    BY <1>0 DEF Client
  <2>3. [client[k] EXCEPT !.pc = "wait", !.at = h] \in Own(k)
    BY <1>0 DEF Client
  <2> QED BY <1>0, <1>1, <2>1, <2>2, <2>3
<1>5. ASSUME NEW h \in Handlers, FieldCutOff(h) \/ CreateFails(h) PROVE Good(client')
  BY <1>0, <1>2, <1>5 DEF FieldCutOff, CreateFails, Fails
<1>6. ASSUME NEW h \in Handlers, BodyEnds(h) PROVE Good(client')
  <2> DEFINE r(k) == [pc |-> "send", lacking |-> client[k].lacking \ Batch(k), at |-> NotWaiting]
  <2>1. \A k \in Clients : r(k) \in Own(k)
    BY <1>0 DEF Client
  <2>2. client' = [k \in Clients |-> IF ~ Waits(k, h) THEN client[k]
                                     ELSE IF Batch(k) = client[k].lacking THEN Idle ELSE r(k)]
    BY <1>6 DEF BodyEnds, AnswerOk
  <2> HIDE DEF r
  <2> QED BY <1>0, <1>2, <2>1, <2>2
<1>7. CASE Crash
  BY <1>0, <1>2, <1>7 DEF Crash
<1>8. CASE UNCHANGED client
  BY <1>0, <1>8
<1> HIDE DEF Good
<1> QED BY <1>3, <1>4, <1>5, <1>6, <1>7, <1>8
        DEF Next, Loop, Receive, NextField, Write, WriteLands, WriteReported, FieldEnds, WriteFails,
            LateLands, LateFails, Dropped, vars

LEMMA StateStep == StateInv /\ [Next]_vars => StateInv'
<1> SUFFICES ASSUME StateInv, [Next]_vars PROVE StateInv'
  OBVIOUS
<1>1. recorded' \subseteq Chunks
  <2>1. \A k \in Clients : ToSet(Needs[k]) \subseteq Chunks
    BY ChunkStoreAssumption DEF ToSet
  <2>2. recorded' = recorded \/ \E k \in Clients : recorded' = recorded \cup ToSet(Needs[k])
    BY DEF Next, Loop, Commit, Insert, Send, GiveUp, Receive, NextField, Write, WriteLands,
           WriteReported, FieldEnds, FieldCutOff, BodyEnds, CreateFails, WriteFails, LateLands,
           LateFails, Dropped, Crash, vars
  <2> QED BY <2>1, <2>2 DEF StateInv, TypeOK
<1>2. TypeOK'
  BY <1>1, FilesStep, HandlersStep, ClientsStep, WritesStep, CountersStep
     DEF StateInv, TypeOK, File, Handler, Client, LateWrite
<1> QED BY <1>2, HandlersStep, ClientsStep DEF StateInv

----------------------------------------------------------------------------
(* Files.                                                                  *)

\* A step that leaves the file of c alone, and the handlers that have it open,
\* keeps the invariant for c.
LEMMA OthersKept ==
  ASSUME NEW c \in Chunks, ChunkInv(c), file'[c] = file[c],
         \A h \in Handlers : /\ Attached(h, c)' <=> Attached(h, c)
                             /\ Attached(h, c) => handler'[h] = handler[h],
         \A w \in late' : w.chunk = c => w \in late,
         LastPartLate(c) => LastPartLate(c)'
  PROVE  ChunkInv(c)'
BY DEF ChunkInv, NearlyWhole, Owns

\* A step in which no handler opens or closes a file, and no file changes.
LEMMA NothingOpened ==
  ASSUME FileInv, losses = 0, UNCHANGED <<file, writes>>,
         \A h \in Handlers : \/ handler'[h] = handler[h]
                             \/ handler[h].pc # "data" /\ handler'[h].pc # "data"
  PROVE  FileInv'
<1> SUFFICES ASSUME NEW c \in Chunks PROVE ChunkInv(c)'
  BY DEF FileInv
<1>1. \A h \in Handlers : /\ Attached(h, c)' <=> Attached(h, c)
                          /\ Attached(h, c) => handler'[h] = handler[h]
  BY DEF Attached, Open, Chunk, Place
<1>2. (LastPartLate(c) => LastPartLate(c)') /\ late' = late
  BY DEF LastPartLate, writes
<1> QED BY <1>1, <1>2, OthersKept DEF FileInv

\* A part that reaches the file of c does not disturb it.
LEMMA PartLands ==
  ASSUME NEW c \in Chunks, file[c] \in File, file'[c] \in File, Parts[c] \in Nat,
         NEW p \in 1 .. Parts[c], file[c].there,
         file'[c].there, file'[c].parts = file[c].parts \cup {p},
         file[c].parts \subseteq 1 .. Parts[c]
  PROVE  /\ file'[c].parts \subseteq 1 .. Parts[c]
         /\ file[c] \in {Absent, Whole(c)} => file'[c] \in {Absent, Whole(c)}
<1>1. file'[c].parts \subseteq 1 .. Parts[c]
  OBVIOUS
<1>2. ASSUME file[c] \in {Absent, Whole(c)} PROVE file'[c] = Whole(c)
  <2>1. file[c] = Whole(c)
    BY <1>2 DEF Absent
  <2>2. file'[c].parts = 1 .. Parts[c] /\ file'[c].there = TRUE
    BY <1>1, <2>1 DEF Whole
  <2> QED BY <2>2 DEF Whole, File
<1> QED BY <1>1, <1>2

\* A file with all its parts is whole.
LEMMA AllParts ==
  ASSUME NEW c \in Chunks, file[c] \in File, file[c].there, file[c].parts = 1 .. Parts[c]
  PROVE  file[c] = Whole(c)
BY DEF Whole, File

LEMMA FileStep == IInv /\ [Next]_vars => FileInv'
<1> SUFFICES ASSUME IInv, [Next]_vars, losses = 0, losses' = 0 PROVE FileInv'
  <2>1. IInv /\ [Next]_vars /\ losses' = 0 => losses = 0
    BY CountersStep DEF IInv, StateInv, TypeOK
  <2> QED BY <2>1 DEF FileInv
<1>0. /\ handler \in [Handlers -> Handler] /\ \A h \in Handlers : handler[h] \in Handler
      /\ file \in [Chunks -> File] /\ late \in SUBSET LateWrite
      /\ \A c \in Chunks : file[c] \in File /\ Parts[c] \in Nat \ {0} /\ ChunkInv(c)
      /\ FileInv
  BY Types, ChunkStoreAssumption DEF IInv, StateInv, FileInv
<1>f. file' \in [Chunks -> File] /\ \A c \in Chunks : file'[c] \in File
  BY FilesStep DEF IInv, StateInv
<1>1. ASSUME NEW k \in Clients, Loop(k) \/ GiveUp(k) PROVE FileInv'
  <2>1. CASE Send(k)
    <3>1. PICK h \in Handlers :
            /\ handler[h] = Free
            /\ handler' = [handler EXCEPT ![h] = [Free EXCEPT !.pc = "header", !.left = BodyLimit,
                                                              !.todo = [i \in Batch(k) |-> Needs[k][i]]]]
      BY <2>1 DEF Send
    <3>2. handler[h].pc # "data" /\ handler'[h].pc # "data"
      BY <1>0, <3>1 DEF Free
    <3> QED BY <1>0, <2>1, <3>1, <3>2, NothingOpened DEF Send
  <2>2. CASE UNCHANGED handler
    BY <1>0, <1>1, <2>2, NothingOpened DEF Loop, Commit, Insert, Send, GiveUp
  <2> QED BY <1>1, <2>1, <2>2 DEF Loop, Commit, Insert, GiveUp
<1>2. ASSUME NEW h \in Handlers, CreateFails(h) \/ BodyEnds(h) PROVE FileInv'
  <2>1. handler' = [handler EXCEPT ![h] = Free] /\ handler[h].pc = "header" /\ UNCHANGED <<file, writes>>
    BY <1>2 DEF CreateFails, BodyEnds, AnswerOk
  <2>2. handler'[h].pc # "data"
    BY <1>0, <2>1 DEF Free
  <2> QED BY <1>0, <2>1, <2>2, NothingOpened
<1>3. ASSUME NEW h \in Handlers, NextField(h), NEW c \in Chunks PROVE ChunkInv(c)'
  <2>1. /\ handler'[h].pc = "data" /\ handler'[h].part = handler[h].part /\ handler'[h].attached
        /\ handler'[h].write = handler[h].write
        /\ handler'[h].todo = handler[h].todo /\ handler[h].pc = "header"
        /\ \A g \in Handlers \ {h} : handler'[g] = handler[g]
        /\ UNCHANGED late
    BY <1>0, <1>3 DEF NextField, Handler
  <2>2. CASE c = Chunk(h)
    <3>1. file'[c].there /\ file'[c].parts = {}
      BY <1>0, <1>3, <2>2 DEF NextField, Empty
    <3>2. handler[h].part = 0 /\ handler[h].write = "done"
      BY <1>3 DEF IInv, StateInv, Sound, NextField
    <3>3. Attached(h, c)' /\ Owns(h, c)'
      BY <2>1, <2>2, <3>2 DEF Owns, Attached, Open, Chunk, Place, Landed
    <3>4. InBounds(handler[h], c)'
      BY <1>0, <2>1, <3>2 DEF InBounds
    <3>5. ASSUME NEW g \in Handlers \ {h}, Attached(g, c)'
          PROVE  InBounds(handler[g], c)'
      <4>1. Attached(g, c)
        BY <2>1, <3>5 DEF Attached, Open, Chunk, Place
      <4> QED BY <1>0, <2>1, <4>1 DEF ChunkInv, InBounds
    <3>6. \A w \in late' : w.chunk = c => file'[c].there /\ w.part = Parts[c]
      BY <1>0, <2>1, <3>1 DEF ChunkInv
    <3> QED BY <3>1, <3>3, <3>4, <3>5, <3>6 DEF ChunkInv
  <2>3. CASE c # Chunk(h)
    <3>1. file'[c] = file[c]
      BY <1>0, <1>3, <2>3 DEF NextField
    <3>2. ~ Attached(h, c) /\ ~ Attached(h, c)'
      BY <2>1, <2>3 DEF Attached, Open, Chunk, Place
    <3>3. \A g \in Handlers : /\ Attached(g, c)' <=> Attached(g, c)
                              /\ Attached(g, c) => handler'[g] = handler[g]
      BY <2>1, <3>2 DEF Attached, Open, Chunk, Place
    <3>4. LastPartLate(c) => LastPartLate(c)'
      BY <1>3, <2>1, <2>3 DEF NextField, LastPartLate
    <3> QED BY <1>0, <2>1, <3>1, <3>3, <3>4, OthersKept
  <2> QED BY <2>2, <2>3
<1>4. ASSUME NEW h \in Handlers, Write(h) \/ WriteFails(h), NEW c \in Chunks PROVE ChunkInv(c)'
  <2>1. /\ handler'[h].pc = handler[h].pc /\ handler'[h].todo = handler[h].todo
        /\ handler'[h].attached = handler[h].attached
        /\ \A g \in Handlers \ {h} : handler'[g] = handler[g]
        /\ UNCHANGED <<file, late, unreported>>
    BY <1>0, <1>4 DEF Write, WriteFails, Handler, writes
  <2>2. \A g \in Handlers : Attached(g, c)' <=> Attached(g, c)
    BY <2>1 DEF Attached, Open, Chunk, Place
  <2>3. ASSUME Attached(h, c)
        PROVE  InBounds(handler'[h], c) /\ Landed(handler'[h]) = Landed(handler[h])
    <3>1. c = Chunk(h) /\ handler[h].part \in Nat
      BY <1>0, <2>3 DEF Attached, Open, Handler
    <3>2. CASE Write(h)
      <4>1. handler'[h].part = handler[h].part + 1 /\ handler'[h].write = "busy"
        BY <1>0, <3>2 DEF Write, Handler
      <4>2. handler[h].part < Parts[c] /\ handler[h].write = "done"
        BY <3>1, <3>2 DEF Write, PartArrives
      <4>3. (handler[h].part + 1) - 1 = handler[h].part
        BY <3>1
      <4> QED BY <1>0, <3>1, <4>1, <4>2, <4>3 DEF InBounds, Landed
    <3>3. CASE WriteFails(h)
      <4>1. handler'[h].part = handler[h].part /\ handler'[h].write = "failed" /\ handler[h].write = "busy"
        BY <1>0, <3>3 DEF WriteFails, Handler
      <4>2. InBounds(handler[h], c)
        BY <1>0, <2>3 DEF ChunkInv
      <4> QED BY <4>1, <4>2 DEF InBounds, Landed
    <3> QED BY <1>4, <3>2, <3>3
  <2>4. \A g \in Handlers : Attached(g, c)' => file'[c].there /\ InBounds(handler'[g], c)
    <3> TAKE g \in Handlers
    <3> HAVE Attached(g, c)'
    <3>1. file[c].there /\ InBounds(handler[g], c)
      BY <1>0, <2>2 DEF ChunkInv
    <3> QED BY <2>1, <2>2, <2>3, <3>1
  <2>5. ASSUME NEW g \in Handlers, Owns(g, c) PROVE Owns(g, c)'
    BY <2>1, <2>2, <2>3, <2>5 DEF Owns
  <2>6. NearlyWhole(c) => NearlyWhole(c)'
    BY <2>1 DEF NearlyWhole, LastPartLate
  <2> QED BY <1>0, <2>1, <2>4, <2>5, <2>6 DEF ChunkInv
<1>5. ASSUME NEW h \in Handlers, WriteLands(h), NEW c \in Chunks PROVE ChunkInv(c)'
  <2>1. /\ handler[h].write = "busy" /\ handler'[h].write = "done"
        /\ handler'[h].pc = handler[h].pc /\ handler'[h].todo = handler[h].todo
        /\ handler'[h].attached = handler[h].attached /\ handler'[h].part = handler[h].part
        /\ \A g \in Handlers \ {h} : handler'[g] = handler[g]
        /\ UNCHANGED <<late, unreported>>
    BY <1>0, <1>5 DEF WriteLands, Handler, writes
  <2>2. \A g \in Handlers : Attached(g, c)' <=> Attached(g, c)
    BY <2>1 DEF Attached, Open, Chunk, Place
  <2>3. CASE Attached(h, c)
    <3>1. c = Chunk(h) /\ handler[h].part \in 1 .. Parts[c]
      <4>1. InBounds(handler[h], c) /\ handler[h].part \in Nat
        BY <1>0, <2>3 DEF ChunkInv, Handler
      <4>2. c = Chunk(h)
        BY <2>3 DEF Attached, Open
      <4> QED BY <1>0, <2>1, <4>1, <4>2 DEF InBounds
    <3>2. /\ file'[c].parts = file[c].parts \cup {handler[h].part}
          /\ file'[c].there = file[c].there
      <4>1. file' = With(c, handler[h].part)
        BY <1>5, <2>3, <3>1 DEF WriteLands, Attached
      <4> QED BY <1>0, <4>1 DEF With, File
    <3>3. file[c].there /\ file[c].parts \subseteq 1 .. Parts[c]
      BY <1>0, <2>3 DEF ChunkInv
    <3>4. /\ file'[c].parts \subseteq 1 .. Parts[c]
          /\ file[c] \in {Absent, Whole(c)} => file'[c] \in {Absent, Whole(c)}
      <4>1. PICK p \in 1 .. Parts[c] : p = handler[h].part
        BY <3>1
      <4> QED BY <1>0, <1>f, <3>2, <3>3, <4>1, PartLands
    <3>5. ASSUME NEW g \in Handlers, Owns(g, c) PROVE Owns(g, c)'
      <4>1. CASE g = h
        <5>1. Landed(handler'[h]) = Landed(handler[h]) \cup {handler[h].part}
          BY <1>0, <2>1, <3>1 DEF Landed
        <5> QED BY <2>2, <3>2, <3>5, <4>1, <5>1 DEF Owns
      <4>2. CASE g # h
        BY <2>1, <2>2, <3>2, <3>5, <4>2 DEF Owns
      <4> QED BY <4>1, <4>2
    <3>6. NearlyWhole(c) => NearlyWhole(c)'
      BY <2>1, <3>2 DEF NearlyWhole, LastPartLate
    <3>7. \A g \in Handlers : Attached(g, c)' => file'[c].there /\ InBounds(handler'[g], c)
      BY <1>0, <2>1, <2>2, <3>2 DEF ChunkInv, InBounds
    <3> QED BY <1>0, <2>1, <3>2, <3>4, <3>5, <3>6, <3>7 DEF ChunkInv
  <2>4. CASE ~ Attached(h, c)
    <3>1. file'[c] = file[c]
      <4>1. CASE handler[h].attached
        <5>1. Chunk(h) # c
          BY <2>1, <2>4, <4>1 DEF Attached, Open, IInv, StateInv, Sound
        <5> QED BY <1>0, <1>5, <4>1, <5>1 DEF WriteLands, With
      <4>2. CASE ~ handler[h].attached
        BY <1>5, <4>2 DEF WriteLands
      <4> QED BY <4>1, <4>2
    <3>2. \A g \in Handlers : Attached(g, c) => handler'[g] = handler[g]
      BY <2>1, <2>4
    <3>3. LastPartLate(c) => LastPartLate(c)'
      BY <2>1 DEF LastPartLate
    <3> QED BY <1>0, <2>1, <2>2, <3>1, <3>2, <3>3, OthersKept
  <2> QED BY <2>3, <2>4
<1>6. ASSUME NEW h \in Handlers, WriteReported(h) \/ FieldCutOff(h), NEW c \in Chunks PROVE ChunkInv(c)'
  <2>1. /\ handler[h].pc = "data" /\ RemoveFile(Chunk(h))
        /\ \A g \in Handlers : Open(g, Chunk(h)) => ~ handler'[g].attached
        /\ \A g \in Handlers : ~ Open(g, Chunk(h)) => handler'[g] = handler[g]
    <3>1. CASE WriteReported(h)
      <4> DEFINE hs == [handler EXCEPT ![h].part = @ + 1, ![h].left = @ - 1, ![h].write = "done"]
      <4>1. Open(h, Chunk(h))
        BY <3>1 DEF WriteReported, PartArrives, Open
      <4>2. \A g \in Handlers \ {h} : hs[g] = handler[g]
        BY <1>0
      <4>3. \A g \in Handlers : ~ [hs[g] EXCEPT !.attached = FALSE].attached
        BY <1>0 DEF Handler
      <4>4. handler' = Detached(hs, Chunk(h)) /\ handler[h].pc = "data" /\ RemoveFile(Chunk(h))
        BY <3>1 DEF WriteReported, PartArrives
      <4> HIDE DEF hs
      <4> QED BY <4>1, <4>2, <4>3, <4>4 DEF Detached
    <3>2. CASE FieldCutOff(h)
      <4>1. Open(h, Chunk(h))
        BY <3>2 DEF FieldCutOff, Open
      <4>2. \A g \in Handlers : ~ [handler[g] EXCEPT !.attached = FALSE].attached
        BY <1>0 DEF Handler
      <4> QED BY <3>2, <4>1, <4>2 DEF FieldCutOff, Detached, Free
    <3> QED BY <1>6, <3>1, <3>2
  <2>2. CASE c = Chunk(h)
    <3>1. file'[c] = Absent
      BY <1>0, <2>1, <2>2 DEF RemoveFile
    <3>2. \A g \in Handlers : ~ Attached(g, c)'
      BY <2>1, <2>2 DEF Attached, Open, Chunk, Place
    <3>3. \A w \in late' : w.chunk # c
      BY <2>1, <2>2 DEF RemoveFile
    <3> QED BY <3>1, <3>2, <3>3 DEF Absent, ChunkInv
  <2>3. CASE c # Chunk(h)
    <3>1. file'[c] = file[c]
      BY <1>0, <2>1, <2>3 DEF RemoveFile
    <3>2. ASSUME NEW g \in Handlers, Open(g, Chunk(h)) PROVE ~ Attached(g, c) /\ ~ Attached(g, c)'
      BY <2>1, <2>3, <3>2 DEF Attached, Open
    <3>3. \A g \in Handlers : /\ Attached(g, c)' <=> Attached(g, c)
                              /\ Attached(g, c) => handler'[g] = handler[g]
      BY <2>1, <3>2 DEF Attached, Open, Chunk, Place
    <3>4. /\ \A w \in late' : w \in late
          /\ LastPartLate(c) => LastPartLate(c)'
      BY <2>1, <2>3 DEF RemoveFile, LastPartLate
    <3> QED BY <1>0, <3>1, <3>3, <3>4, OthersKept
  <2> QED BY <2>2, <2>3
<1>7. ASSUME NEW h \in Handlers, FieldEnds(h), NEW c \in Chunks PROVE ChunkInv(c)'
  <2> DEFINE w == [by |-> h, place |-> Place(h), chunk |-> Chunk(h), part |-> handler[h].part]
  <2>1. /\ handler[h].pc = "data" /\ handler'[h].pc = "header" /\ UNCHANGED file
        /\ \A g \in Handlers \ {h} : handler'[g] = handler[g]
        /\ handler[h].part = Parts[Chunk(h)]
    BY <1>0, <1>7 DEF FieldEnds, Handler
  <2>2. /\ late' = IF handler[h].attached /\ handler[h].write = "busy" THEN late \cup {w} ELSE late
        /\ unreported' = IF handler[h].attached /\ handler[h].write = "failed"
                         THEN unreported \cup {Chunk(h)} ELSE unreported
    BY <1>7 DEF FieldEnds, LetGo
  <2>3. w.chunk = Chunk(h) /\ w.part = handler[h].part
    OBVIOUS
  <2> HIDE DEF w
  <2>4. \A g \in Handlers : Attached(g, c)' <=> Attached(g, c) /\ g # h
    BY <2>1 DEF Attached, Open, Chunk, Place
  <2>5. \A g \in Handlers \ {h} : Owns(g, c) => Owns(g, c)'
    BY <2>1, <2>4 DEF Owns
  <2>6. LastPartLate(c) => LastPartLate(c)'
    BY <2>2 DEF LastPartLate
  <2>7. \A v \in late' : v.chunk = c => file'[c].there /\ v.part = Parts[c]
    <3>1. handler[h].attached /\ c = Chunk(h) => file[c].there
      BY <1>0, <2>1 DEF ChunkInv, Attached, Open
    <3> QED BY <1>0, <2>1, <2>2, <2>3, <3>1 DEF ChunkInv
  <2>8. \A g \in Handlers : Attached(g, c)' => file'[c].there /\ InBounds(handler'[g], c)
    BY <1>0, <2>1, <2>4 DEF ChunkInv
  <2>9. ASSUME Owns(h, c) PROVE file[c] = Whole(c) \/ NearlyWhole(c)'
    <3>1. c = Chunk(h) /\ handler[h].attached /\ file[c].there /\ handler[h].part = Parts[c]
      BY <1>0, <2>1, <2>9 DEF Owns, Attached, Open, ChunkInv
    <3>2. CASE handler[h].write = "done"
      <4>1. file[c].parts = 1 .. Parts[c]
        BY <1>0, <2>9, <3>1, <3>2 DEF Owns, Landed, ChunkInv
      <4> QED BY <1>0, <3>1, <4>1, AllParts
    <3>3. CASE handler[h].write # "done"
      <4>1. LastPartLate(c)'
        <5>1. handler[h].write \in {"busy", "failed"}
          BY <1>0, <3>3 DEF Handler
        <5> QED BY <2>2, <2>3, <3>1, <5>1 DEF LastPartLate
      <4>2. 1 .. Parts[c] - 1 \subseteq file[c].parts
        BY <2>9, <3>1, <3>3 DEF Owns, Landed
      <4> QED BY <2>1, <3>1, <4>1, <4>2 DEF NearlyWhole
    <3> QED BY <3>2, <3>3
  <2>10. NearlyWhole(c) => NearlyWhole(c)'
    BY <2>1, <2>6 DEF NearlyWhole
  <2> QED BY <1>0, <2>1, <2>5, <2>7, <2>8, <2>9, <2>10 DEF ChunkInv
<1>8. ASSUME NEW w \in late, LateLands(w) \/ LateFails(w), NEW c \in Chunks PROVE ChunkInv(c)'
  <2>1. late' = late \ {w} /\ UNCHANGED handler /\ unreported \subseteq unreported'
    BY <1>8 DEF LateLands, LateFails
  <2>2. \A g \in Handlers : (Attached(g, c)' <=> Attached(g, c)) /\ handler'[g] = handler[g]
    BY <2>1 DEF Attached, Open, Chunk, Place
  <2>3. CASE w.chunk # c
    <3>1. file'[c] = file[c]
      BY <1>0, <1>8, <2>3 DEF LateLands, LateFails, With
    <3>2. LastPartLate(c) => LastPartLate(c)'
      BY <2>1, <2>3 DEF LastPartLate
    <3> QED BY <1>0, <2>1, <2>2, <3>1, <3>2, OthersKept
  <2>4. CASE w.chunk = c /\ LateFails(w)
    <3>1. file'[c] = file[c] /\ LastPartLate(c)'
      BY <2>4 DEF LateFails, LastPartLate
    <3> QED BY <1>0, <2>1, <2>2, <3>1, OthersKept
  <2>5. CASE w.chunk = c /\ LateLands(w)
    <3>1. file[c].there /\ w.part = Parts[c] /\ file[c].parts \subseteq 1 .. Parts[c]
      BY <1>0, <2>5 DEF ChunkInv
    <3>2. /\ file'[c].parts = file[c].parts \cup {Parts[c]}
          /\ file'[c].there = file[c].there
      <4>1. file' = With(c, Parts[c])
        BY <2>5, <3>1 DEF LateLands
      <4> QED BY <1>0, <4>1 DEF With, File
    <3>3. /\ file'[c].parts \subseteq 1 .. Parts[c]
          /\ file[c] \in {Absent, Whole(c)} => file'[c] \in {Absent, Whole(c)}
      <4>1. PICK p \in 1 .. Parts[c] : p = Parts[c]
        BY <1>0
      <4> QED BY <1>0, <1>f, <3>1, <3>2, <4>1, PartLands
    <3>4. NearlyWhole(c) => file'[c] = Whole(c)
      <4>1. ASSUME NearlyWhole(c) PROVE file'[c].parts = 1 .. Parts[c]
        <5>1. 1 .. Parts[c] = (1 .. Parts[c] - 1) \cup {Parts[c]}
          BY <1>0
        <5> QED BY <3>2, <3>3, <4>1, <5>1 DEF NearlyWhole
      <4> QED BY <1>f, <3>1, <3>2, <4>1 DEF Whole, File
    <3>5. \A g \in Handlers : Owns(g, c) => Owns(g, c)'
      BY <2>2, <3>2 DEF Owns
    <3> QED BY <1>0, <2>1, <2>2, <3>1, <3>2, <3>3, <3>4, <3>5 DEF ChunkInv
  <2> QED BY <1>8, <2>3, <2>4, <2>5
<1>9. CASE UNCHANGED vars
  BY <1>0, <1>9, NothingOpened DEF vars, writes
<1>10. (\A c \in Chunks : ChunkInv(c)') => FileInv'
  BY DEF FileInv
<1>11. ~ Crash /\ \A h \in Handlers : ~ Dropped(h)
  BY DEF Crash, Dropped, Lose
<1> QED BY <1>1, <1>2, <1>3, <1>4, <1>5, <1>6, <1>7, <1>8, <1>9, <1>10, <1>11 DEF Next, Receive

LEMMA IStep == IInv /\ [Next]_vars => IInv'
BY StateStep, FileStep DEF IInv

\* A handler is never past the end of its request or of the body it may read,
\* and a client has only places of files to send (upload_chunks,
\* check_upload_once).
THEOREM UploadTypes == Spec => []TypeOK
<1>1. IInv => TypeOK
  BY DEF IInv, StateInv
<1> QED BY IInit, IStep, <1>1, PTL DEF Spec

\* However many uploads of the same chunks overlap, truncate each other's
\* files and remove them, be their bodies cut off and their writes late or
\* failed: a chunk that nobody is writing is whole or absent, or lacks its last
\* part, which failed and nobody was told, unless a handler was lost between two
\* steps (upload_chunks).
THEOREM UploadsLeaveNothingHalfDone == Spec => []WholeOrAbsent
<1>1. ASSUME IInv PROVE WholeOrAbsent
  <2> SUFFICES ASSUME losses = 0, NEW c \in Chunks, AtRest(c)
               PROVE  \/ file[c] \in {Absent, Whole(c)}
                      \/ c \in unreported /\ file[c] = WithoutLastPart(c)
    BY DEF WholeOrAbsent
  <2>0. file[c] \in File /\ Parts[c] \in Nat \ {0} /\ ChunkInv(c)
    BY <1>1, Types, ChunkStoreAssumption DEF IInv, StateInv, FileInv
  <2>1. CASE file[c] \in {Absent, Whole(c)}
    BY <2>1
  <2>2. CASE NearlyWhole(c)
    <3>1. c \in unreported /\ file[c].there
      BY <2>2 DEF AtRest, NearlyWhole, LastPartLate
    <3>2. 1 .. Parts[c] = (1 .. Parts[c] - 1) \cup {Parts[c]}
      BY <2>0
    <3>3. file[c].parts = 1 .. Parts[c] - 1 \/ file[c].parts = 1 .. Parts[c]
      BY <2>0, <2>2, <3>2 DEF ChunkInv, NearlyWhole
    <3> QED BY <2>0, <3>1, <3>3, AllParts DEF WithoutLastPart, File
  <2> QED BY <2>0, <2>1, <2>2 DEF ChunkInv, AtRest, Owns, Attached
<1> QED BY IInit, IStep, <1>1, PTL DEF Spec
=============================================================================
