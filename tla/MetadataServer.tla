--------------------------- MODULE MetadataServer ---------------------------
(***************************************************************************)
(* The metadata service (server/src/metadata/mod.rs): commit handlers that *)
(* run concurrently over one database, list and has_files, and the long    *)
(* polls of module Notification that a commit releases.                    *)
(*                                                                         *)
(* A commit handler awaits twice, for the dedup query and for the insert;  *)
(* the two are separate database calls with no transaction around them.    *)
(* Its client can go away at either await, and the handler is dropped; a   *)
(* database call that has been handed to the blocking pool still runs.     *)
(*                                                                         *)
(* list and has_files are one database call each: they are the operators   *)
(* ListSince and HasFiles of JournalOps, read in any state.                *)
(***************************************************************************)
EXTENDS JournalOps, Notification

CONSTANTS Users, UserOf,    \* UserOf[u]: the user the client u logs in as
          Paths, Chunks,
          ChunkLists,       \* the chunk_ids clients send: sets of chunks, {} for ""
          MaxCalls          \* bound on the number of commit calls

ASSUME ServerAssumption ==
  /\ Clients # {} /\ UserOf \in [Clients -> Users]
  /\ Paths # {} /\ ChunkLists # {} /\ ChunkLists \subseteq SUBSET Chunks
  /\ MaxCalls \in Nat

Calls == 1 .. MaxCalls
Record == [user : Users, path : Paths, chunks : ChunkLists, deleted : BOOLEAN]

VARIABLES records,  \* the table file_records
          present,  \* chunks whose file exists under UPLOAD_DIR
          call,     \* the commit handlers
          owed      \* history: call -> polls it owes a wake-up

callVars == <<records, present, call, owed>>
vars == <<callVars, notificationVars>>

\* check: the dedup query runs; insert: the insert runs; notify: the row is
\* in, clients.notify is next; orphaned: the insert runs, its handler was
\* dropped; answered, need, dropped: over.
CallState == {"unborn", "check", "insert", "notify", "orphaned",
              "answered", "need", "dropped"}

NoRecord == CHOOSE r \in Record : TRUE

TypeOK ==
  /\ NotificationTypeOK
  /\ records \in Seq(Record)
  /\ present \subseteq Chunks
  /\ call \in [Calls -> [state : CallState, from : Clients, record : Record, id : Nat]]
  /\ owed \in [Calls -> SUBSET Polls]

Init ==
  /\ NotificationInit
  /\ records = << >>
  /\ present = {}
  /\ call = [k \in Calls |-> [state |-> "unborn", from |-> CHOOSE u \in Clients : TRUE,
                              record |-> NoRecord, id |-> 0]]
  /\ owed = [k \in Calls |-> {}]

----------------------------------------------------------------------------
(* The handler commit.                                                     *)

\* The upload loop of a client commits one file at a time.
CommittingClient(u) ==
  \E k \in Calls : call[k].from = u /\ call[k].state \in {"check", "insert", "notify"}

\* non_local_chunks: the chunks of the commit the server does not have.
NonLocalChunks(r) == r.chunks \ present

CommitStart(u) ==
  \E k \in Calls, r \in Record :
    /\ call[k].state = "unborn"
    /\ \A j \in Calls : j < k => call[j].state # "unborn"
    /\ ~ CommittingClient(u)
    /\ r.user = UserOf[u]
    /\ call' = [call EXCEPT ![k] =
         [state |-> IF NonLocalChunks(r) = {} THEN "check" ELSE "need",
          from |-> u, record |-> r, id |-> 0]]
    /\ UNCHANGED <<records, present, owed, notificationVars>>

\* Mutant: the deleted flag is not compared.
DedupOnChunks(k) ==
  {i \in LatestForPath(records, call[k].record.user, call[k].record.path) :
     records[i].chunks = call[k].record.chunks}

\* The dedup query.
DedupMatches(k) ==
  {i \in LatestForPath(records, call[k].record.user, call[k].record.path) :
     SameContent(records[i], call[k].record)}

CommitCheck(k) ==
  /\ call[k].state = "check"
  /\ \/ /\ DedupMatches(k) = {}
        /\ call' = [call EXCEPT ![k].state = "insert"]
     \/ \E i \in DedupMatches(k) :
          call' = [call EXCEPT ![k].state = "answered", ![k].id = i]
  /\ UNCHANGED <<records, present, owed, notificationVars>>

\* insert_new_record
CommitInsert(k) ==
  /\ call[k].state \in {"insert", "orphaned"}
  /\ records' = Append(records, call[k].record)
  /\ call' = [call EXCEPT
       ![k].state = IF call[k].state = "insert" THEN "notify" ELSE "dropped",
       ![k].id = Len(records) + 1]
  /\ owed' = [owed EXCEPT ![k] = IF call[k].state = "insert"
                                 THEN {j \in Polls : Waiting(j) /\ poll[j].live
                                                     /\ poll[j].uuid # call[k].from}
                                 ELSE {}]
  /\ UNCHANGED <<present, notificationVars>>

\* clients.lock().unwrap().notify(&query.uuid), and the response.
CommitNotify(k) ==
  /\ call[k].state = "notify"
  /\ Notify(call[k].from)
  /\ call' = [call EXCEPT ![k].state = "answered"]
  /\ UNCHANGED <<records, present, owed>>

\* The connection closes while the handler awaits the database.
CommitDropped(k) ==
  /\ \/ /\ call[k].state = "check"
        /\ call' = [call EXCEPT ![k].state = "dropped"]
     \/ /\ call[k].state = "insert"
        /\ call' = [call EXCEPT ![k].state = "orphaned"]
  /\ UNCHANGED <<records, present, owed, notificationVars>>

\* The chunk server stores a chunk: its file appears.
StoreChunk(c) ==
  /\ c \notin present
  /\ present' = present \cup {c}
  /\ UNCHANGED <<records, call, owed, notificationVars>>

Next ==
  \/ \E u \in Clients : CommitStart(u)
  \/ \E k \in Calls : CommitCheck(k) \/ CommitInsert(k) \/ CommitNotify(k) \/ CommitDropped(k)
  \/ \E c \in Chunks : StoreChunk(c)
  \/ PollNext /\ UNCHANGED callVars

Spec == Init /\ [][Next]_vars

----------------------------------------------------------------------------
(* What the service promises.                                              *)

Abstract == INSTANCE Journal
              WITH Records <- Record, log <- records,
                   asked   <- [k \in {j \in Calls : call[j].state # "unborn"} |-> call[k].record],
                   decided <- [k \in Calls |-> call[k].id]

\* The handlers of commit, interleaved at their awaits and dropped there,
\* implement the abstract journal: it only grows, and each call is decided at
\* one moment, by the record it carries at the end of the journal, or by the
\* record that was then the newest of its path and had the same content
\* (mod.rs, commit).
ImplementsJournal == Abstract!Spec

\* list answers exactly what a client that stood at journal id n is missing:
\* overlaying it on the folder as of n gives the folder now, with one record
\* per path; and has_files is true exactly when that folder holds a file
\* (db.rs, list and has_files against a replay of the journal).
ListCatchesUp ==
  \A u \in Users :
    LET folder == Folder(records, u, Paths)
        now    == folder[Len(records)]
        news(n, p) == {i \in ListSince(records, u, n) : records[i].path = p}
    IN  /\ \A n \in 0 .. Len(records), p \in Paths :
             news(n, p) = IF now[p] = folder[n][p] THEN {} ELSE {now[p]}
        /\ HasFiles(records, u) =
             \E p \in Paths : now[p] # 0 /\ ~ records[now[p]].deleted

\* Once a commit is answered as a new record, every poll of another client
\* that waited when the record was inserted has a permit, or is over: the
\* poll is "woken by the commit, not by its own timeout"
\* (server/tests/metadata_sync_test.rs:282).  A poll dropped and replaced
\* keeps its Notify, so the permit is not lost in between.  Only a poll whose
\* client had given up on an older one that the server answers afterwards may
\* be left to its timeout: that answer takes its entry, or its permit, away.
CommitReleasesPolls ==
  \A k \in Calls :
    call[k].state = "answered" =>
      \A j \in owed[k] :
        Waiting(j) /\ poll[j].live => poll[j].handle \in permit \/ Overtaken(j)
=============================================================================
