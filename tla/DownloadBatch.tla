--------------------------- MODULE DownloadBatch ---------------------------
(***************************************************************************)
(* A batch of chunks on its way from the server to a client: the request   *)
(* (client/src/remote.rs, download_batch), the multipart answer the server *)
(* streams from the chunks' files (server/src/chunks), its fragments on    *)
(* the wire, and the client's search for boundaries in what has arrived.   *)
(* Meanwhile an upload of somebody else's may rewrite a chunk, the         *)
(* connection may break, and the client's application runs it again.       *)
(*                                                                         *)
(* Bytes are tokens: CR, LF, "--", the random part of the boundary, the    *)
(* header texts, a chunk's name, and what chunks contain.  The boundary    *)
(* takes two tokens, so a fragment can end inside it; it is random, and    *)
(* its second token is in no chunk and is no chunk's name.                 *)
(***************************************************************************)
EXTENDS Entitlement, Sequences, SequencesExt, FiniteSetsExt

CONSTANTS Chunks, Whole,    \* Whole[c]: the content c is the hash of
          Requests,         \* sequences of chunks a client may lack
          FormLimit,        \* the longest list the server takes (1 MiB of form)
          Tokens,           \* JWTs
          MaxTime, MaxRewrites, MaxBreaks, MaxDeploys  \* bounds

ASSUME DownloadAssumption ==
  /\ Requests \subseteq Seq(Chunks) \ {<< >>}
  /\ FormLimit \in Nat
  /\ \A t \in Tokens : t.exp \in Nat /\ t.sync_until.time \in Nat
  /\ MaxTime \in Nat /\ MaxRewrites \in Nat /\ MaxBreaks \in Nat /\ MaxDeploys \in Nat
  /\ Whole \in [Chunks -> Seq({"CR", "LF", "--", "x"})]
  /\ "boundary" \notin Chunks

VARIABLES
  now, mode, token,     \* the clock, SYNC_ENFORCEMENT, the client's token
  request,              \* the chunks the client asks for
  file,                 \* chunk -> its file
  writer,               \* chunks an upload handler has open
  srv,                  \* the handler that streams the answer
  wire,                 \* what is on its way
  buffer, got,          \* the client: bytes not parsed yet; the parts it has
  client,               \* where download_batch is
  sent,                 \* history: the parts the server has streamed
  torn,                 \* history: chunks that were not whole during the answer
  refused,              \* history: a refusal since the last deployment
  rewrites, breaks, deploys

answer == <<srv, wire, buffer, got, sent, torn>>
store == <<file, writer, rewrites>>
setting == <<now, mode, token, request, deploys>>
vars == <<setting, store, answer, client, refused, breaks>>

File == [there : BOOLEAN, data : Seq({"CR", "LF", "--", "x"})]
Part == [id : Chunks, content : Seq({"CR", "LF", "--", "x"})]

\* idle; open: File::open of the part `part`; read: its file is being read;
\* done: the closing boundary is out; cut: the handler panicked or broke off.
SrvIdle == [pc |-> "idle", part |-> 0, offset |-> 0]

TypeOK ==
  /\ now \in 0 .. MaxTime /\ mode \in Modes /\ token \in Tokens /\ request \in Requests
  /\ file \in [Chunks -> File] /\ writer \subseteq Chunks
  /\ srv.pc \in {"idle", "open", "read", "done", "cut"} /\ srv.part \in 0 .. Len(request)
  /\ got \in Seq(Part) /\ sent \in Seq(Part) /\ torn \subseteq Chunks
  /\ client \in {"idle", "stream", "ok", "failed"}
  /\ refused \in BOOLEAN

Init ==
  /\ now = 0 /\ mode \in Modes /\ token \in Tokens /\ request \in Requests
  /\ file = [c \in Chunks |-> [there |-> TRUE, data |-> Whole[c]]]
  /\ writer = {}
  /\ srv = SrvIdle /\ wire = << >> /\ buffer = << >> /\ got = << >> /\ sent = << >>
  /\ torn = {}
  /\ client = "idle" /\ refused = FALSE
  /\ rewrites = 0 /\ breaks = 0 /\ deploys = 0

----------------------------------------------------------------------------
(* The server.                                                             *)

Boundary == <<"--", "boundary">>

SectionHeader(c) ==
  <<"CR", "LF", "--", "boundary", "CR", "LF", "Content-Type", "CR", "LF", "X-Chunk-ID:", c,
    "CR", "LF", "CR", "LF">>

Closing == <<"CR", "LF", "--", "boundary", "--", "CR", "LF">>

NotWhole == {c \in Chunks : file[c] # [there |-> TRUE, data |-> Whole[c]]}

\* DefaultBodyLimit on the extractor that reads the list; EntitledUser is an
\* extractor before it.
Answer ==
  IF EntitledStatus(mode, token, now) # 200 THEN EntitledStatus(mode, token, now)
  ELSE IF Len(request) > FormLimit THEN 413 ELSE 200

\* The request, and the server's status: on 200 the stream begins, anything else
\* is an error of the run.
Ask ==
  /\ client = "idle"
  /\ client' = IF Answer = 200 THEN "stream" ELSE "failed"
  /\ refused' = (refused \/ Answer \in {401, 402})
  /\ srv' = IF Answer = 200 THEN [pc |-> "open", part |-> 1, offset |-> 0] ELSE SrvIdle
  /\ wire' = << >> /\ buffer' = << >> /\ got' = << >> /\ sent' = << >>
  /\ torn' = NotWhole
  /\ UNCHANGED <<setting, store, breaks>>

Chunk == request[srv.part]

\* File::open(..).expect("file present"), and the header of the section.
OpenPart ==
  /\ srv.pc = "open"
  /\ IF file[Chunk].there
     THEN /\ wire' = wire \o SectionHeader(Chunk)
          /\ sent' = Append(sent, [id |-> Chunk, content |-> << >>])
          /\ srv' = [srv EXCEPT !.pc = "read", !.offset = 0]
     ELSE srv' = [srv EXCEPT !.pc = "cut"] /\ UNCHANGED <<wire, sent>>
  /\ UNCHANGED <<setting, store, buffer, got, torn, client, refused, breaks>>

\* Mutant: ReaderStream skips what it has read ahead.
NextOffset(n) == n + 2

\* How far a read of one token gets.
ReadTo(n) == n + 1

\* ReaderStream: a piece of the file, as it is now.
ReadPart ==
  /\ srv.pc = "read" /\ srv.offset < Len(file[Chunk].data)
  /\ LET piece == file[Chunk].data[srv.offset + 1]
     IN  /\ wire' = Append(wire, piece)
         /\ sent' = [sent EXCEPT ![srv.part].content = Append(@, piece)]
  /\ srv' = [srv EXCEPT !.offset = ReadTo(@)]
  /\ UNCHANGED <<setting, store, buffer, got, torn, client, refused, breaks>>

\* Mutant: one section too many.
EndPartLate ==
  /\ srv.pc = "read" /\ srv.offset >= Len(file[Chunk].data)
  /\ IF srv.part <= Len(request)
     THEN srv' = [pc |-> "open", part |-> srv.part + 1, offset |-> 0] /\ UNCHANGED wire
     ELSE srv' = [srv EXCEPT !.pc = "done"] /\ wire' = wire \o Closing
  /\ UNCHANGED <<setting, store, buffer, got, sent, torn, client, refused, breaks>>

\* The end of the file: the next section, or the closing boundary.
EndPart ==
  /\ srv.pc = "read" /\ srv.offset >= Len(file[Chunk].data)
  /\ IF srv.part < Len(request)
     THEN srv' = [pc |-> "open", part |-> srv.part + 1, offset |-> 0] /\ UNCHANGED wire
     ELSE srv' = [srv EXCEPT !.pc = "done"] /\ wire' = wire \o Closing
  /\ UNCHANGED <<setting, store, buffer, got, sent, torn, client, refused, breaks>>

\* The connection is lost, and with it what was on its way.
Breaks ==
  /\ srv.pc \in {"open", "read", "done"} /\ client = "stream" /\ breaks < MaxBreaks
  /\ srv' = [srv EXCEPT !.pc = "cut"]
  /\ wire' = << >>
  /\ breaks' = breaks + 1
  /\ UNCHANGED <<setting, store, buffer, got, sent, torn, client, refused>>

----------------------------------------------------------------------------
(* An upload of a chunk the server has, or had: upload_chunks.             *)

Rewritten(c, data) ==
  /\ file' = [file EXCEPT ![c] = data]
  /\ torn' = torn \cup (IF data = [there |-> TRUE, data |-> Whole[c]] THEN {} ELSE {c})
  /\ UNCHANGED <<setting, srv, wire, buffer, got, sent, client, refused, breaks>>

UploadCreates(c) ==
  /\ c \notin writer /\ rewrites < MaxRewrites
  /\ Rewritten(c, [there |-> TRUE, data |-> << >>])
  /\ writer' = writer \cup {c} /\ rewrites' = rewrites + 1

UploadWrites(c) ==
  /\ c \in writer
  /\ Rewritten(c, [there |-> TRUE, data |-> Whole[c]])
  /\ writer' = writer \ {c} /\ UNCHANGED rewrites

\* Its body is cut off.
UploadFails(c) ==
  /\ c \in writer
  /\ Rewritten(c, [there |-> FALSE, data |-> << >>])
  /\ writer' = writer \ {c} /\ UNCHANGED rewrites

\* The last write fails after write_all has taken it: the file is not flushed,
\* nobody learns of it, and the file stays as File::create left it.
UploadLosesWrite(c) ==
  /\ c \in writer
  /\ writer' = writer \ {c}
  /\ UNCHANGED <<setting, file, rewrites, answer, client, refused, breaks>>

----------------------------------------------------------------------------
(* The client: download_batch, which looks for whole parts after each      *)
(* fragment it receives.                                                   *)

\* Where pattern begins in data.
Places(data, pattern) ==
  {i \in 1 .. Len(data) - Len(pattern) + 1 :
     SubSeq(data, i, i + Len(pattern) - 1) = pattern}

DoubleCRLF == <<"CR", "LF", "CR", "LF">>

\* find_double_crlf
HeadersEnd(part) == Min(Places(part, DoubleCRLF))

\* extract_next_part has one: there are two boundaries in the buffer.
HasPart(data) == Cardinality(Places(data, Boundary)) > 1

\* The first boundary, and the one after it.
Start(data) == Min(Places(data, Boundary))
Stop(data) == Min(Places(data, Boundary) \ {Start(data)})

NextPart(data) == SubSeq(data, Start(data) + Len(Boundary), Stop(data) - 1)

\* Mutant: the second boundary is passed over too.
RestAfterBoundary(data) == SubSeq(data, Stop(data) + Len(Boundary), Len(data))

Rest(data) == SubSeq(data, Stop(data), Len(data))

\* The token after "X-Chunk-ID:".
ChunkId(part) == part[Min(Places(part, <<"X-Chunk-ID:">>)) + 1]

Content(part) == SubSeq(part, HeadersEnd(part) + 4, Len(part) - 2)

\* process_part, and the part yielded.
Parsed(part) ==
  IF Places(part, DoubleCRLF) = {} THEN << >>
  ELSE <<[id |-> ChunkId(part), content |-> Content(part)]>>

\* Mutant: a buffer with no boundary in it is an error.
ReceiveWithBoundary ==
  /\ client = "stream" /\ wire # << >> /\ ~ HasPart(buffer)
  /\ \E n \in 1 .. Len(wire) :
       /\ buffer' = buffer \o SubSeq(wire, 1, n)
       /\ wire' = SubSeq(wire, n + 1, Len(wire))
       /\ client' = IF Places(buffer', Boundary) = {} THEN "failed" ELSE client
  /\ srv' = IF client' = "failed" THEN SrvIdle ELSE srv
  /\ UNCHANGED <<setting, store, got, sent, torn, refused, breaks>>

\* stream.next(): a fragment of any length.
Receive ==
  /\ client = "stream" /\ wire # << >> /\ ~ HasPart(buffer)
  /\ \E n \in 1 .. Len(wire) :
       /\ buffer' = buffer \o SubSeq(wire, 1, n)
       /\ wire' = SubSeq(wire, n + 1, Len(wire))
  /\ UNCHANGED <<setting, store, srv, got, sent, torn, client, refused, breaks>>

\* The inner loop; what is yielded goes into the cache.
Extract ==
  /\ client = "stream" /\ HasPart(buffer)
  /\ \E part \in {NextPart(buffer)} : got' = got \o Parsed(part)
  /\ buffer' = Rest(buffer)
  /\ UNCHANGED <<setting, store, srv, wire, sent, torn, client, refused, breaks>>

\* The stream is over, or fails.
StreamEnds ==
  /\ client = "stream" /\ wire = << >> /\ ~ HasPart(buffer)
  /\ srv.pc \in {"done", "cut"}
  /\ client' = IF srv.pc = "done" THEN "ok" ELSE "failed"
  /\ srv' = SrvIdle
  /\ UNCHANGED <<setting, store, wire, buffer, got, sent, torn, refused, breaks>>

\* The error has ended the run; the application starts another.
RunsAgain ==
  /\ client = "failed"
  /\ client' = "idle"
  /\ srv' = SrvIdle /\ wire' = << >> /\ buffer' = << >> /\ got' = << >> /\ sent' = << >>
  /\ torn' = {}
  /\ UNCHANGED <<setting, store, refused, breaks>>

----------------------------------------------------------------------------

\* Time only matters to a request.
Tick ==
  /\ now < MaxTime /\ client = "idle"
  /\ now' = now + 1
  /\ UNCHANGED <<mode, token, request, deploys, store, answer, client, refused, breaks>>

Deploy ==
  /\ deploys < MaxDeploys /\ client = "idle"
  /\ mode' \in Modes \ {mode}
  /\ deploys' = deploys + 1
  /\ refused' = (refused /\ UserStatus(token, now) = 401)
  /\ UNCHANGED <<now, token, request, store, answer, client, breaks>>

Server == OpenPart \/ ReadPart \/ EndPart

Client == Ask \/ Receive \/ Extract \/ StreamEnds \/ RunsAgain

Uploads ==
  \E c \in Chunks : UploadWrites(c) \/ UploadFails(c) \/ UploadLosesWrite(c)

Next ==
  \/ Server \/ Client \/ Uploads \/ Breaks \/ Tick \/ Deploy
  \/ \E c \in Chunks : UploadCreates(c)

Spec == Init /\ [][Next]_vars

FairSpec == Spec /\ WF_vars(Server) /\ WF_vars(Client) /\ WF_vars(Uploads)

----------------------------------------------------------------------------
(* What should hold.                                                       *)

\* However the answer is cut into fragments, the client makes of it the parts
\* the server streamed, byte for byte and in order, and all that it asked for
\* once the stream has ended without an error: the scan "for `--<boundary>`
\* and an `X-Chunk-ID:` line" (chunks/response.rs:13) loses and adds nothing.
PartsAsStreamed ==
  /\ IsPrefix(got, sent)
  /\ client = "ok" => got = sent /\ [i \in DOMAIN got |-> got[i].id] = request

\* What the client caches under a hash is the content of that hash, unless an
\* upload was rewriting the chunk's file during the answer, or an earlier one
\* lost its last write unreported (upload_chunks truncates a file that is there
\* and never flushes it; neither side checks the hash).
WholeUnlessRewritten ==
  \A i \in DOMAIN got : got[i].content = Whole[got[i].id] \/ got[i].id \in torn

\* A refused token is not served later: time only takes rights away.  A
\* deployment in another mode may give them back, but not to a token that is
\* not valid.
RefusalsStand == client = "stream" => ~ refused

\* The batch arrives in the end if from some time on the server has every
\* chunk of it, takes the token, and the list is no longer than its limit:
\* neither a broken connection nor a rewritten chunk leaves the client stuck.
Servable == Answer = 200 /\ \A i \in DOMAIN request : file[request[i]].there

BatchArrives == <>[]Servable => <>(client = "ok")
=============================================================================
