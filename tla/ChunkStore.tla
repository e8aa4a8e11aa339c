----------------------------- MODULE ChunkStore -----------------------------
(***************************************************************************)
(* The chunk files under UPLOAD_DIR (server/src/chunks/mod.rs,             *)
(* server/src/chunk_id.rs) and the clients that fill them: a client        *)
(* commits a file, uploads the chunks the server says it lacks, in         *)
(* batches, and commits again (client/src/syncer.rs, check_upload_once).   *)
(*                                                                         *)
(* upload_chunks streams a multipart body to disk.  A body is, for each    *)
(* chunk, a delimiter, the rest of its header, and the parts of the chunk, *)
(* and a last delimiter.  The server reads BodyLimit of these units at     *)
(* most; a client that goes away cuts the body anywhere.  A file is        *)
(* created, or truncated if it is there, when its header has been read,    *)
(* and grows part by part; it has its name all the while.                  *)
(*                                                                         *)
(* A handler holds on to the file it opened: once the name is removed, its *)
(* writes go to a file nobody can find, and it is detached.                *)
(*                                                                         *)
(* tokio's File takes a part over and writes it in another thread; the     *)
(* next write_all waits for it, and is the one that returns its error.     *)
(* Nothing waits for the last part of a file, and nobody hears how it      *)
(* went.                                                                   *)
(***************************************************************************)
EXTENDS Naturals, SequencesExt, FiniteSetsExt

CONSTANTS Clients, Chunks,
          Needs,        \* Needs[k]: the chunk_ids of the file client k commits
          Parts,        \* Parts[c]: the size of chunk c
          Handlers,     \* upload handlers that can be at work at once
          NotWaiting,   \* no handler
          BatchLimit,   \* MAX_UPLOAD_SIZE, which counts the chunks only
          BodyLimit,    \* DATA_FORM_LIMIT, which counts the whole body
          MaxFaults, MaxLosses     \* bounds

ASSUME ChunkStoreAssumption ==
  /\ Needs \in [Clients -> Seq(Chunks)]
  /\ Parts \in [Chunks -> Nat \ {0}]
  /\ NotWaiting \notin Handlers
  /\ BatchLimit \in Nat /\ BodyLimit \in Nat
  /\ MaxFaults \in Nat /\ MaxLosses \in Nat

VARIABLES file,     \* file[c]: what is found under the name of chunk c
          handler,  \* the handlers of POST /chunks/upload
          client,   \* the upload loop of each client
          late,     \* writes under way to files their handlers have let go
          unreported, \* chunks whose last part failed, with nobody to tell
          recorded, \* chunks that records of the journal name
          faults,   \* I/O errors and clients that gave up, so far
          losses    \* crashes and dropped handlers, so far

vars == <<file, handler, client, late, unreported, recorded, faults, losses>>
writes == <<late, unreported>>

Absent == [there |-> FALSE, parts |-> {}]
Empty == [there |-> TRUE, parts |-> {}]
Whole(c) == [there |-> TRUE, parts |-> 1 .. Parts[c]]

\* free: no request; header: in next_field; data: in field.chunk(), after
\* part "part" of the chunk at hand was handed over; "write": what became of it.
Free == [pc |-> "free", todo |-> << >>, part |-> 0, left |-> 0, attached |-> FALSE,
         write |-> "done"]

\* commit, insert (in the handler of commit, all chunks found), send the next
\* batch, wait for the response, done.
Idle == [pc |-> "commit", lacking |-> {}, at |-> NotWaiting]

\* Requests, or what is left of them: chunks by their places in a file.
Places == UNION {DOMAIN Needs[k] : k \in Clients}
Bodies == UNION {[places -> Chunks] : places \in SUBSET Places}

TypeOK ==
  /\ file \in [Chunks -> [there : BOOLEAN, parts : SUBSET Nat]]
  /\ handler \in [Handlers -> [pc : {"free", "header", "data"}, todo : Bodies,
                               part : Nat, left : Nat, attached : BOOLEAN,
                               write : {"done", "busy", "failed"}]]
  /\ client \in [Clients -> [pc : {"commit", "insert", "send", "wait", "done"},
                             lacking : SUBSET Places, at : Handlers \cup {NotWaiting}]]
  /\ late \subseteq [by : Handlers, place : Places, chunk : Chunks, part : Nat]
  /\ unreported \subseteq Chunks
  /\ recorded \subseteq Chunks
  /\ faults \in 0 .. MaxFaults /\ losses \in 0 .. MaxLosses

Init ==
  /\ file = [c \in Chunks |-> Absent]
  /\ handler = [h \in Handlers |-> Free]
  /\ client = [k \in Clients |-> Idle]
  /\ late = {} /\ unreported = {} /\ recorded = {}
  /\ faults = 0 /\ losses = 0

Fault == faults < MaxFaults /\ faults' = faults + 1

----------------------------------------------------------------------------
(* The client.                                                             *)

\* non_local_chunks: the places of the chunks without a file.
NonLocalChunks(k) == {i \in DOMAIN Needs[k] : ~ file[Needs[k][i]].there}

\* The next batch of the upload queue: a batch is closed once it has grown over
\* the limit.
Batch(k) ==
  LET Size(places) == MapThenSumSet(LAMBDA i : Parts[Needs[k][i]], places)
  IN  {i \in client[k].lacking : Size({j \in client[k].lacking : j < i}) <= BatchLimit}

\* commit looks for the chunks: the answer is NeedChunks if one lacks.
Commit(k) ==
  /\ client[k].pc = "commit"
  /\ client' = [client EXCEPT
       ![k].pc = IF NonLocalChunks(k) = {} THEN "insert" ELSE "send",
       ![k].lacking = NonLocalChunks(k)]
  /\ UNCHANGED <<file, handler, writes, recorded, faults, losses>>

\* If none lacks it inserts the record, after an await, and answers Success.
Insert(k) ==
  /\ client[k].pc = "insert"
  /\ client' = [client EXCEPT ![k].pc = "done"]
  /\ recorded' = recorded \cup ToSet(Needs[k])
  /\ UNCHANGED <<file, handler, writes, faults, losses>>

\* upload_batch: a handler starts on the next batch.  (A handler here is the
\* slot of a request, which is taken until its writes have ended.)
Send(k) ==
  \E h \in Handlers :
    /\ client[k].pc = "send"
    /\ handler[h] = Free /\ \A w \in late : w.by # h
    /\ handler' = [handler EXCEPT ![h] = [Free EXCEPT !.pc = "header", !.left = BodyLimit,
                                                      !.todo = [i \in Batch(k) |-> Needs[k][i]]]]
    /\ client' = [client EXCEPT ![k].pc = "wait", ![k].at = h]
    /\ UNCHANGED <<file, writes, recorded, faults, losses>>

\* Mutant: a client whose upload failed sends the same batches again.
Resends(k) == IF client[k].pc = "wait"
              THEN [client[k] EXCEPT !.pc = "send", !.at = NotWaiting]
              ELSE Idle

\* The run of the client ends with the error, and the next run commits again.
RunsAgain(k) == Idle

\* The client's run ends while it waits, and the next run commits again.  The
\* handler is not told.
GiveUp(k) ==
  /\ client[k].pc = "wait"
  /\ Fault
  /\ client' = [client EXCEPT ![k] = RunsAgain(k)]
  /\ UNCHANGED <<file, handler, writes, recorded, losses>>

----------------------------------------------------------------------------
(* The handler upload_chunks.                                              *)

Waits(k, h) == client[k].pc = "wait" /\ client[k].at = h
HangsUp(h) == \A k \in Clients : ~ Waits(k, h)

\* 200: the client goes on with its next batch, or commits again.
AnswerOk(h) ==
  /\ handler' = [handler EXCEPT ![h] = Free]
  /\ client' = [k \in Clients |->
       IF ~ Waits(k, h) THEN client[k]
       ELSE IF Batch(k) = client[k].lacking THEN Idle
       ELSE [pc |-> "send", lacking |-> client[k].lacking \ Batch(k), at |-> NotWaiting]]

\* 500, or no answer at all.
Fails(h) == client' = [k \in Clients |-> IF Waits(k, h) THEN RunsAgain(k) ELSE client[k]]

\* The chunk at hand, and those after it.
Place(h) == Min(DOMAIN handler[h].todo)
Chunk(h) == handler[h].todo[Place(h)]
Remaining(h) == Restrict(handler[h].todo, DOMAIN handler[h].todo \ {Place(h)})

Open(h, c) == handler[h].pc = "data" /\ Chunk(h) = c

\* Mutant: the last unit is read twice.
LeftOrNone(h) == handler[h].left >= 0

\* Is there another unit of the body to read?  Is there none?
Left(h) == handler[h].left > 0
CutOff(h) == handler[h].left = 0 \/ HangsUp(h)

\* create_dir_all, File::create: a file that is there is truncated.
NextField(h) ==
  /\ handler[h].pc = "header" /\ handler[h].todo # << >> /\ Left(h)
  /\ file' = [file EXCEPT ![Chunk(h)] = Empty]
  /\ handler' = [handler EXCEPT ![h].pc = "data", ![h].attached = TRUE, ![h].left = @ - 1]
  /\ unreported' = unreported \ {Chunk(h)}
  /\ UNCHANGED <<client, late, recorded, faults, losses>>

\* The file cannot be created: the handler returns the error.
CreateFails(h) ==
  /\ handler[h].pc = "header" /\ handler[h].todo # << >> /\ Left(h)
  /\ Fault
  /\ handler' = [handler EXCEPT ![h] = Free]
  /\ Fails(h)
  /\ UNCHANGED <<file, writes, recorded, losses>>

PartArrives(h) == handler[h].pc = "data" /\ handler[h].part < Parts[Chunk(h)] /\ Left(h)

\* A part of the chunk arrives, and the file takes it over: write_all returns
\* once the part before it has been written.
Write(h) ==
  /\ PartArrives(h) /\ handler[h].write = "done"
  /\ handler' = [handler EXCEPT ![h].part = @ + 1, ![h].left = @ - 1, ![h].write = "busy"]
  /\ UNCHANGED <<file, client, writes, recorded, faults, losses>>

With(c, part) == [file EXCEPT ![c].parts = @ \cup {part}]

\* The part has been written, in another thread; or it could not be.
WriteLands(h) ==
  /\ handler[h].write = "busy"
  /\ handler' = [handler EXCEPT ![h].write = "done"]
  /\ file' = IF handler[h].attached THEN With(Chunk(h), handler[h].part) ELSE file
  /\ UNCHANGED <<client, writes, recorded, faults, losses>>

WriteFails(h) ==
  /\ handler[h].write = "busy"
  /\ Fault
  /\ handler' = [handler EXCEPT ![h].write = "failed"]
  /\ UNCHANGED <<file, client, writes, recorded, losses>>

\* The name of a chunk is removed: whoever writes to its file is detached.
RemoveFile(c) ==
  /\ file' = [file EXCEPT ![c] = Absent]
  /\ late' = {w \in late : w.chunk # c}
  /\ unreported' = unreported \ {c}

Detached(hs, c) == [h \in Handlers |-> IF Open(h, c) THEN [hs[h] EXCEPT !.attached = FALSE]
                                                     ELSE hs[h]]

\* The next part arrives: write_all returns the error and leaves the part
\* unwritten, the file is removed, and the handler goes on.
WriteReported(h) ==
  /\ PartArrives(h) /\ handler[h].write = "failed"
  /\ RemoveFile(Chunk(h))
  /\ handler' = Detached([handler EXCEPT ![h].part = @ + 1, ![h].left = @ - 1,
                                         ![h].write = "done"], Chunk(h))
  /\ UNCHANGED <<client, recorded, faults, losses>>

\* The handler lets go of its file: nobody hears of its last write any more.
LetGo(h) ==
  LET w == [by |-> h, place |-> Place(h), chunk |-> Chunk(h), part |-> handler[h].part]
      lastWrite(outcome) == handler[h].attached /\ handler[h].write = outcome
  IN  /\ late' = IF lastWrite("busy") THEN late \cup {w} ELSE late
      /\ unreported' = IF lastWrite("failed") THEN unreported \cup {Chunk(h)} ELSE unreported

\* The delimiter after the last part ends the field.
FieldEnds(h) ==
  /\ handler[h].pc = "data" /\ handler[h].part = Parts[Chunk(h)] /\ Left(h)
  /\ LetGo(h)
  /\ handler' = [handler EXCEPT ![h] = [Free EXCEPT !.pc = "header", !.todo = Remaining(h),
                                                    !.left = handler[h].left - 1]]
  /\ UNCHANGED <<file, client, recorded, faults, losses>>

LateLands(w) ==
  /\ w \in late
  /\ late' = late \ {w}
  /\ file' = With(w.chunk, w.part)
  /\ UNCHANGED <<handler, client, unreported, recorded, faults, losses>>

LateFails(w) ==
  /\ w \in late
  /\ Fault
  /\ late' = late \ {w}
  /\ unreported' = unreported \cup {w.chunk}
  /\ UNCHANGED <<file, handler, client, recorded, losses>>

\* Mutant: the file of a field that was cut off stays.
FieldLeft(h) ==
  /\ handler[h].pc = "data" /\ CutOff(h)
  /\ handler' = [handler EXCEPT ![h] = Free]
  /\ Fails(h)
  /\ UNCHANGED <<file, writes, recorded, faults, losses>>

\* The body is cut off in a field: its file is removed, the handler panics.
FieldCutOff(h) ==
  /\ handler[h].pc = "data" /\ CutOff(h)
  /\ RemoveFile(Chunk(h))
  /\ handler' = [Detached(handler, Chunk(h)) EXCEPT ![h] = Free]
  /\ Fails(h)
  /\ UNCHANGED <<recorded, faults, losses>>

\* next_field returns None, or an error because the body is cut off in a
\* header: either way the handler is done, and says so.
BodyEnds(h) ==
  /\ handler[h].pc = "header"
  /\ handler[h].todo = << >> \/ CutOff(h)
  /\ AnswerOk(h)
  /\ UNCHANGED <<file, writes, recorded, faults, losses>>

Lose == losses < MaxLosses /\ losses' = losses + 1

\* A client that went away after it had sent all of the body is noticed while
\* the handler waits for the disk: the handler is dropped where it stands.  The
\* disk goes on with its write.
Dropped(h) ==
  /\ handler[h].pc # "free" /\ HangsUp(h)
  /\ Lose
  /\ LetGo(h)
  /\ handler' = [handler EXCEPT ![h] = Free]
  /\ UNCHANGED <<file, client, recorded, faults>>

\* The server goes down and comes up again.
Crash ==
  /\ Lose
  /\ handler' = [h \in Handlers |-> Free]
  /\ client' = [k \in Clients |->
       IF client[k].pc \in {"insert", "wait"} THEN RunsAgain(k) ELSE client[k]]
  /\ late' = {}
  /\ UNCHANGED <<file, unreported, recorded, faults>>

Loop(k) == Commit(k) \/ Insert(k) \/ Send(k)

Receive(h) ==
  \/ NextField(h) \/ Write(h) \/ WriteLands(h) \/ WriteReported(h)
  \/ FieldEnds(h) \/ FieldCutOff(h) \/ BodyEnds(h)

Next ==
  \/ \E k \in Clients : Loop(k) \/ GiveUp(k)
  \/ \E h \in Handlers : Receive(h) \/ CreateFails(h) \/ WriteFails(h) \/ Dropped(h)
  \/ \E w \in late : LateLands(w) \/ LateFails(w)
  \/ Crash

Spec == Init /\ [][Next]_vars

\* Clients retry, handlers read on or find out that nothing more comes, and the
\* disk gets to each write.
FairSpec ==
  /\ Spec
  /\ \A k \in Clients : WF_vars(Loop(k))
  /\ \A h \in Handlers : WF_vars(Receive(h))
  /\ WF_vars(\E w \in late : LateLands(w))

----------------------------------------------------------------------------
(* What should hold.                                                       *)

AtRest(c) == /\ \A h \in Handlers : ~ Open(h, c)
             /\ \A w \in late : w.chunk # c

WithoutLastPart(c) == [there |-> TRUE, parts |-> 1 .. Parts[c] - 1]

\* As long as no handler is lost between two steps, a chunk that nobody is
\* writing is whole or absent, or lacks its last part alone, and that only after
\* a failed write that nobody was told of: handlers that overlap, truncate each
\* other's file or remove it, and other failed writes, leave nothing half-done
\* behind (upload_chunks).
WholeOrAbsent ==
  losses = 0 =>
    \A c \in Chunks : AtRest(c) =>
      \/ file[c] \in {Absent, Whole(c)}
      \/ c \in unreported /\ file[c] = WithoutLastPart(c)

\* A client's file is committed in the end: a batch may be too large for the
\* body limit, bodies may be cut off and answered as complete, but what has
\* been stored is not asked for again (check_upload_once, non_local_chunks).
\* This is said of files whose copies of one chunk in one batch fit in a body:
\* of more, the copy that is cut off removes what the first has stored.
UploadsConverge == \A k \in Clients : <>(client[k].pc = "done")

\* The chunks that records name are there to be downloaded: the download
\* handler counts on it (chunks/response.rs:45, expect("file present")).
\* But a commit takes a file for present that another upload has just
\* created, and that upload removes it again when its body is cut off.
RecordedChunksPresent == \A c \in recorded : file[c].there
=============================================================================
