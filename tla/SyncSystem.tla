----------------------------- MODULE SyncSystem -----------------------------
(***************************************************************************)
(* The clients of one account and the server's journal, synchronising a    *)
(* folder (client/src/syncer.rs, client/src/indexer.rs, with the server of *)
(* module MetadataServer reduced to what these clients see of it).         *)
(*                                                                         *)
(* A client runs three loops in one task: the indexer notes what differs   *)
(* between the disk and the registry, the download loop applies what the   *)
(* server lists since the client's cursor, the upload loop commits what    *)
(* the registry holds without a jid.  They interleave at their awaits.     *)
(* What an await separates is a separate action here; check_index_once has *)
(* none and is one action.  The mutex around the chunker is held by the    *)
(* upload loop from reading a file to recording its commit, and by the     *)
(* download loop while it writes or removes a file.                        *)
(*                                                                         *)
(* The content of a file, the chunk_ids that name it and the chunks        *)
(* themselves are one value: chunk_ids are hashes of the content.  A save  *)
(* truncates the file first; Torn is any content between that and the last *)
(* write.  The stamp of a file, its (size, modified_at), changes with each *)
(* write, so the indexer sees every one of them.                           *)
(*                                                                         *)
(* Stamps and row ids are only ever compared for equality, with what the   *)
(* registry and the upload loop still hold: a new one is the least number  *)
(* that none of them holds, instead of one that was never used.            *)
(***************************************************************************)
EXTENDS JournalOps, RegistryOps, FiniteSets

CONSTANTS Clients,
          Writers,       \* clients that upload: run with download_only = false
          Editors,       \* clients whose user changes files
          Unreliable,    \* clients whose run may end at any await
          Account,       \* the user all of them log in as
          Contents,
          Torn,          \* a file caught in the middle of a save
          Gone,          \* no file; also the chunk_ids "" of a deletion
          ListIsOrdered, \* the database answers list in the order of ids
          MaxEdits, MaxRestarts, MaxRecords  \* bounds

ASSUME SyncAssumption ==
  /\ Writers \subseteq Clients /\ Editors \subseteq Clients /\ Unreliable \subseteq Clients
  /\ Torn \notin Contents /\ Gone \notin Contents /\ Torn # Gone
  /\ ListIsOrdered \in BOOLEAN
  /\ MaxEdits \in Nat /\ MaxRestarts \in Nat /\ MaxRecords \in Nat

Data == Contents \cup {Torn, Gone}

VARIABLES
  journal,    \* the server's records of the account
  stored,     \* contents whose chunks the server has
  orphan,     \* commit handlers whose client is gone: the records they hold
  disk,       \* disk[c][p]: the file and its stamp
  reg,        \* reg[c]: the client's registry, a View
  dl,         \* the download loop of each client
  up,         \* the upload loop of each client
  answered,   \* history: the largest jid a commit of c was answered with
  edits, restarts

serverVars == <<journal, stored, orphan>>
counters == <<answered, edits, restarts>>
vars == <<serverVars, disk, reg, dl, up, counters>>

Entry == [user : {Account}, path : Paths, chunks : Data, deleted : BOOLEAN]

\* A row of updated_locally that the upload loop works on.
Pending == [path : Paths, id : Nat, deleted : BOOLEAN]

\* What a client has on its disk, and where its two loops can be.
Files == [Paths -> [data : Data, stamp : Nat]]

DlState == [pc : {"idle", "list", "fetch", "apply", "write", "record", "remove"},
            since : Nat, todo : SUBSET Nat, item : Nat]

UpState == [pc : {"idle", "next", "commit", "insert", "need", "reply"},
            queue : SUBSET Pending, row : SUBSET Pending, data : Data,
            jid : Nat, send : SUBSET Data]

DlIdle == [pc |-> "idle", since |-> 0, todo |-> {}, item |-> 0]

UpIdle == [pc |-> "idle", queue |-> {}, row |-> {}, data |-> Gone, jid |-> 0, send |-> {}]

TypeOK ==
  /\ journal \in Seq(Entry)
  /\ stored \subseteq Data
  /\ orphan \subseteq [stage : {"commit", "insert"}, entry : Entry]
  /\ disk \in [Clients -> Files]
  /\ reg \in [Clients -> View]
  /\ dl \in [Clients -> DlState]
  /\ up \in [Clients -> UpState]
  /\ answered \in [Clients -> Nat]
  /\ edits \in Nat /\ restarts \in Nat

Init ==
  /\ journal = << >>
  /\ stored = {}
  /\ orphan = {}
  /\ disk = [c \in Clients |-> [p \in Paths |-> [data |-> Gone, stamp |-> 0]]]
  /\ reg = [c \in Clients |-> EmptyView]
  /\ dl = [c \in Clients |-> DlIdle]
  /\ up = [c \in Clients |-> UpIdle]
  /\ answered = [c \in Clients |-> 0]
  /\ edits = 0
  /\ restarts = 0

\* Mutant: the download loop does not hold the mutex over a save.
LockedByUpload(c) == up[c].pc \in {"commit", "insert", "need", "reply"}

\* The chunker's mutex.
Locked(c) ==
  \/ dl[c].pc \in {"write", "record", "remove"}
  \/ up[c].pc \in {"commit", "insert", "need", "reply"}

OnDisk(c, p) == disk[c][p].data # Gone

\* A write to a file: new content, new stamp.
NewStamp(c, p) == IF reg[c].row[p].stamp = 0 THEN 1 ELSE 0

Written(c, p, data) == [disk EXCEPT ![c][p] = [data |-> data, stamp |-> NewStamp(c, p)]]

Removed(c, p) == [disk EXCEPT ![c][p].data = Gone]

\* The run of client c ends at an await: its loops are lost, the disk, the
\* registry and the server's handlers are not.  The application runs it again.
RunEnds(c) ==
  /\ dl' = [dl EXCEPT ![c] = DlIdle]
  /\ up' = [up EXCEPT ![c] = UpIdle]

----------------------------------------------------------------------------
(* The user.                                                               *)

Edit(c, p, data) ==
  /\ edits < MaxEdits
  /\ data # disk[c][p].data
  /\ disk' = Written(c, p, data)
  /\ edits' = edits + 1
  /\ UNCHANGED <<serverVars, reg, dl, up, answered, restarts>>

Delete(c, p) ==
  /\ edits < MaxEdits
  /\ OnDisk(c, p)
  /\ disk' = Removed(c, p)
  /\ edits' = edits + 1
  /\ UNCHANGED <<serverVars, reg, dl, up, answered, restarts>>

----------------------------------------------------------------------------
(* The indexer: check_index_once.                                          *)

\* db_file != disk_file, or not in the registry at all.
ToAdd(c) ==
  {p \in Paths : OnDisk(c, p) /\ (p \in NonDeleted(reg[c])
                                  => reg[c].row[p].stamp # disk[c][p].stamp)}

ToRemove(c) == {p \in NonDeleted(reg[c]) : ~ OnDisk(c, p)}

LocalForms(c) ==
  [p \in ToAdd(c) \cup ToRemove(c) |->
     IF p \in ToAdd(c)
     THEN [jid |-> NoJid, deleted |-> FALSE, stamp |-> disk[c][p].stamp]
     ELSE [jid |-> NoJid, deleted |-> TRUE, stamp |-> reg[c].row[p].stamp]]

\* The id of a new row of each path.
HeldIds(c, p) ==
  {0, reg[c].row[p].id} \cup {f.id : f \in {q \in up[c].queue : q.path = p}}

NextIds(c) == [p \in Paths |-> CHOOSE i \in 1 .. 3 : i \notin HeldIds(c, p)]

Index(c) ==
  /\ ToAdd(c) \cup ToRemove(c) # {}
  /\ reg' = [reg EXCEPT ![c] = InsertLocal(@, LocalForms(c), NextIds(c))]
  /\ UNCHANGED <<serverVars, disk, dl, up, counters>>

----------------------------------------------------------------------------
(* The download loop: check_download_once.                                 *)

\* The poll is over; latest_jid is read.
DlStart(c) ==
  /\ dl[c].pc = "idle"
  /\ dl' = [dl EXCEPT ![c].pc = "list", ![c].since = LatestJid(reg[c])]
  /\ UNCHANGED <<disk, reg, up, serverVars, counters>>

\* The server answers list.
DlList(c) ==
  /\ dl[c].pc = "list"
  /\ LET todo == ListSince(journal, Account, dl[c].since)
     IN  dl' = [dl EXCEPT ![c] =
                  IF todo = {} THEN DlIdle
                  ELSE [DlIdle EXCEPT !.pc = "fetch", !.todo = todo]]
  /\ UNCHANGED <<disk, reg, up, serverVars, counters>>

\* Missing chunks of files are fetched into the cache, under the mutex.
DlFetch(c) ==
  /\ dl[c].pc = "fetch"
  /\ Locked(c) => \A i \in dl[c].todo : journal[i].deleted
  /\ dl' = [dl EXCEPT ![c].pc = "apply"]
  /\ UNCHANGED <<disk, reg, up, serverVars, counters>>

\* Mutant: all of them at once.
InAnyOrder(i, todo) == i \in todo

\* The records are applied in the order of the answer.
IsNext(i, todo) == i \in todo /\ (ListIsOrdered => \A j \in todo : i <= j)

\* Record i is done with.
Advance(c, i) ==
  dl' = [dl EXCEPT ![c] = IF dl[c].todo = {i} THEN DlIdle
                          ELSE [DlIdle EXCEPT !.pc = "apply", !.todo = dl[c].todo \ {i}]]

RemoteForm(i, deleted, stamp) == [jid |-> i, deleted |-> deleted, stamp |-> stamp]

Recorded(c, i, deleted, stamp) ==
  LET p == journal[i].path
  IN  [reg EXCEPT ![c] = InsertRemote(@, p, RemoteForm(i, deleted, stamp), NextIds(c)[p])]

\* A deletion: the tombstone goes into the registry first ...
DlTombstone(c) ==
  \E i \in dl[c].todo :
    /\ dl[c].pc = "apply" /\ IsNext(i, dl[c].todo) /\ ~ Locked(c)
    /\ journal[i].deleted
    /\ reg' = Recorded(c, i, TRUE, 0)
    /\ IF OnDisk(c, journal[i].path)
       THEN dl' = [dl EXCEPT ![c].pc = "remove", ![c].item = i]
       ELSE Advance(c, i)
    /\ UNCHANGED <<disk, up, serverVars, counters>>

\* ... then the file is removed.  If it is gone, remove_file fails.
DlRemove(c) ==
  LET p == journal[dl[c].item].path
  IN  /\ dl[c].pc = "remove"
      /\ IF OnDisk(c, p)
         THEN disk' = Removed(c, p) /\ Advance(c, dl[c].item) /\ UNCHANGED up
         ELSE RunEnds(c) /\ UNCHANGED disk
      /\ UNCHANGED <<reg, serverVars, counters>>

\* Mutant: the bytes are not on the disk yet when the row is made.
DlTruncateUnflushed(c) ==
  \E i \in dl[c].todo :
    /\ dl[c].pc = "apply" /\ IsNext(i, dl[c].todo) /\ ~ Locked(c)
    /\ ~ journal[i].deleted
    /\ disk' = Written(c, journal[i].path, Torn)
    /\ dl' = [dl EXCEPT ![c].pc = "record", ![c].item = i]
    /\ UNCHANGED <<reg, up, serverVars, counters>>

\* Mutant: the row is made before the file, as a tombstone is.
DlTruncateNoted(c) ==
  \E i \in dl[c].todo :
    /\ dl[c].pc = "apply" /\ IsNext(i, dl[c].todo) /\ ~ Locked(c)
    /\ ~ journal[i].deleted
    /\ disk' = Written(c, journal[i].path, Torn)
    /\ reg' = Recorded(c, i, FALSE, NewStamp(c, journal[i].path))
    /\ dl' = [dl EXCEPT ![c].pc = "write", ![c].item = i]
    /\ UNCHANGED <<up, serverVars, counters>>

\* A file: chunker.save creates or truncates it ...
DlTruncate(c) ==
  \E i \in dl[c].todo :
    /\ dl[c].pc = "apply" /\ IsNext(i, dl[c].todo) /\ ~ Locked(c)
    /\ ~ journal[i].deleted
    /\ disk' = Written(c, journal[i].path, Torn)
    /\ dl' = [dl EXCEPT ![c].pc = "write", ![c].item = i]
    /\ UNCHANGED <<reg, up, serverVars, counters>>

\* ... and writes its chunks.  Bytes written after the user replaced the file
\* go to the old one; written after an edit in place, they win.
DlWrite(c) ==
  LET p == journal[dl[c].item].path
  IN  /\ dl[c].pc = "write"
      /\ \/ disk[c][p].data # Gone /\ disk' = Written(c, p, journal[dl[c].item].chunks)
         \/ disk[c][p].data # Torn /\ UNCHANGED disk
      /\ dl' = [dl EXCEPT ![c].pc = "record"]
      /\ UNCHANGED <<reg, up, serverVars, counters>>

\* build_file_record takes the metadata of whatever is there now.
DlRecord(c) ==
  LET i == dl[c].item
      p == journal[i].path
  IN  /\ dl[c].pc = "record"
      /\ IF OnDisk(c, p)
         THEN reg' = Recorded(c, i, FALSE, disk[c][p].stamp) /\ Advance(c, i) /\ UNCHANGED up
         ELSE RunEnds(c) /\ UNCHANGED reg
      /\ UNCHANGED <<disk, serverVars, counters>>
----------------------------------------------------------------------------
(* The upload loop: check_upload_once, and the server's commit.            *)

\* updated_locally is read.  An empty result is a pass that does nothing.
UpStart(c) ==
  /\ up[c].pc = "idle"
  /\ UpdatedLocally(reg[c]) # {}
  /\ up' = [up EXCEPT ![c].pc = "next", ![c].queue =
       {[path |-> p, id |-> reg[c].row[p].id, deleted |-> reg[c].row[p].deleted] :
          p \in UpdatedLocally(reg[c])}]
  /\ UNCHANGED <<disk, reg, dl, serverVars, counters>>

\* Bound: the records there are or may be, once every commit is through.
RoomForCommit ==
  Len(journal) + Cardinality({c \in Clients : up[c].pc \in {"commit", "insert"}})
               + Cardinality(orphan) < MaxRecords

\* The mutex is taken, the file is read and the commit is sent.  (The rows
\* come in the order of their ids; any order is allowed here.)  A file that
\* is gone cannot be read.
UpHash(c) ==
  \E f \in up[c].queue :
    /\ up[c].pc = "next" /\ ~ Locked(c) /\ RoomForCommit
    /\ IF f.deleted \/ OnDisk(c, f.path)
       THEN /\ up' = [up EXCEPT ![c].pc = "commit", ![c].row = {f},
                        ![c].data = IF f.deleted THEN Gone ELSE disk[c][f.path].data]
            /\ UNCHANGED dl
       ELSE RunEnds(c)
    /\ UNCHANGED <<disk, reg, serverVars, counters>>

\* What the commit of client c says.
EntryOf(c, f) ==
  [user |-> Account, path |-> f.path, chunks |-> up[c].data,
   deleted |-> f.deleted]

\* Chunks the server lacks: none for a deletion; perhaps none for a torn
\* file, whose lines may all be known.
MayBePresent(data) == data \in stored \cup {Gone, Torn}
MayBeMissing(data) == data \notin stored \cup {Gone}

Known(entry) ==
  {i \in LatestForPath(journal, Account, entry.path) : SameContent(journal[i], entry)}

\* The server's commit, up to the insert: NeedChunks, or the dedup query.
SrvCheck(c) ==
  \E f \in up[c].row :
    LET entry == EntryOf(c, f)
    IN  /\ up[c].pc = "commit"
        /\ \/ /\ MayBeMissing(entry.chunks)
              /\ up' = [up EXCEPT ![c].pc = "need"]
           \/ /\ MayBePresent(entry.chunks)
              /\ Known(entry) = {}
              /\ up' = [up EXCEPT ![c].pc = "insert"]
           \/ /\ MayBePresent(entry.chunks)
              /\ \E i \in Known(entry) : up' = [up EXCEPT ![c].pc = "reply", ![c].jid = i]
        /\ UNCHANGED <<disk, reg, dl, serverVars, counters>>

\* The insert.
SrvInsert(c) ==
  \E f \in up[c].row :
    /\ up[c].pc = "insert"
    /\ journal' = Append(journal, EntryOf(c, f))
    /\ up' = [up EXCEPT ![c].pc = "reply", ![c].jid = Len(journal) + 1]
    /\ UNCHANGED <<stored, orphan, disk, reg, dl, counters>>

\* The pass goes on after row f; it is over when nothing is left to do.
NextRow(c, f, send) ==
  LET rest == up[c].queue \ {f}
  IN  up' = [up EXCEPT ![c] = IF rest = {} /\ send = {} THEN UpIdle
                              ELSE [UpIdle EXCEPT !.pc = "next", !.queue = rest, !.send = send]]

\* Success(jid)
UpCommitted(c) ==
  \E f \in up[c].row :
    /\ up[c].pc = "reply"
    /\ reg' = [reg EXCEPT ![c] = UpdateJid(@, f.path, f.id, up[c].jid)]
    /\ answered' = [answered EXCEPT ![c] = Later(@, up[c].jid)]
    /\ NextRow(c, f, up[c].send)
    /\ UNCHANGED <<disk, dl, serverVars, edits, restarts>>

\* NeedChunks: they are read from the cache, which the hashing filled.
UpNeeds(c) ==
  \E f \in up[c].row :
    /\ up[c].pc = "need"
    /\ NextRow(c, f, up[c].send \cup {up[c].data})
    /\ UNCHANGED <<disk, reg, dl, serverVars, counters>>

\* Mutant: the last batch is not sent.
UpSendAllButLast(c) ==
  /\ up[c].pc = "next" /\ up[c].queue = {}
  /\ \E batch \in (SUBSET up[c].send) \ {{}} :
       /\ stored' = IF batch = up[c].send THEN stored ELSE stored \cup batch
       /\ up' = [up EXCEPT ![c] = IF batch = up[c].send THEN UpIdle
                                  ELSE [up[c] EXCEPT !.send = @ \ batch]]
  /\ UNCHANGED <<journal, orphan, disk, reg, dl, counters>>

\* upload_batch, one batch after the other.  Then the loop starts over.
UpSend(c) ==
  /\ up[c].pc = "next" /\ up[c].queue = {}
  /\ \E batch \in (SUBSET up[c].send) \ {{}} :
       /\ stored' = stored \cup batch
       /\ up' = [up EXCEPT ![c] = IF batch = up[c].send THEN UpIdle
                                  ELSE [up[c] EXCEPT !.send = @ \ batch]]
  /\ UNCHANGED <<journal, orphan, disk, reg, dl, counters>>

----------------------------------------------------------------------------
(* Crashes, cancelled runs, network errors: any of them ends the run.  A   *)
(* commit that was under way may still reach the database.                 *)

Restart(c) ==
  /\ restarts < MaxRestarts
  /\ RunEnds(c)
  /\ orphan' = orphan \cup
       {[stage |-> up[c].pc, entry |-> EntryOf(c, f)] :
          f \in IF up[c].pc \in {"commit", "insert"} THEN up[c].row ELSE {}}
  /\ restarts' = restarts + 1
  /\ UNCHANGED <<journal, stored, disk, reg, answered, edits>>

OrphanCheck(o) ==
  /\ o.stage = "commit" /\ MayBePresent(o.entry.chunks) /\ Known(o.entry) = {}
  /\ orphan' = (orphan \ {o}) \cup {[o EXCEPT !.stage = "insert"]}
  /\ UNCHANGED <<journal, stored, disk, reg, dl, up, counters>>

OrphanInsert(o) ==
  /\ o.stage = "insert"
  /\ journal' = Append(journal, o.entry)
  /\ orphan' = orphan \ {o}
  /\ UNCHANGED <<stored, disk, reg, dl, up, counters>>

----------------------------------------------------------------------------

User(c) == \E p \in Paths : Delete(c, p) \/ \E data \in Contents : Edit(c, p, data)

Download(c) ==
  \/ DlStart(c) \/ DlList(c) \/ DlFetch(c)
  \/ DlTombstone(c) \/ DlRemove(c)
  \/ DlTruncate(c) \/ DlWrite(c) \/ DlRecord(c)

Upload(c) ==
  \/ UpStart(c) \/ UpHash(c) \/ SrvCheck(c) \/ SrvInsert(c)
  \/ UpCommitted(c) \/ UpNeeds(c) \/ UpSend(c)

Next ==
  \/ \E c \in Editors : User(c)
  \/ \E c \in Clients : Index(c) \/ Download(c)
  \/ \E c \in Unreliable : Restart(c)
  \/ \E c \in Writers : Upload(c)
  \/ \E o \in orphan : OrphanCheck(o) \/ OrphanInsert(o)

Spec == Init /\ [][Next]_vars

\* Each loop of a client keeps running while its run lasts: the indexer and
\* the download loop wake up by a timer at the latest, the upload loop too;
\* calls to the server are answered or end the run.  Users owe nothing.
Fairness ==
  /\ \A c \in Clients : WF_vars(Index(c)) /\ WF_vars(Download(c))
  /\ \A c \in Writers : WF_vars(Upload(c))

FairSpec == Spec /\ Fairness

----------------------------------------------------------------------------
(* What should hold.                                                       *)

Readers == Clients \ (Writers \cup Editors)

\* The newest record of a path that client c will never be sent: its cursor
\* is past it, and no row of its registry is about it.
Skipped(c) ==
  {i \in Latest(journal, Account) : i <= reg[c].cursor /\ i \notin reg[c].jids}

\* The download side loses nothing (check_download_once): whatever the loops
\* interleave and wherever a run ends, a newest record that the cursor of a
\* client has passed without being recorded was passed by the answer to one
\* of the client's own commits, never by a downloaded record.  A client that
\* does not upload misses nothing up to its cursor.
OnlyOwnCommitsSkip ==
  \A c \in Clients : \A i \in Skipped(c) : i < answered[c]

\* What the documentation has all clients do: whatever the journal has past the
\* client's own latest jid is downloaded ("if latest jid remotely bigger sync
\* dowload from remote", client/README.md:57), so that a client at a jid has
\* nothing below it left to fetch (server/tests/metadata_sync_test.rs:243).
\* The jid of an own commit is the exception: update_jid in check_upload_once
\* makes it the cursor, over records of other clients not yet downloaded.
WritersSkipNothing == \A c \in Clients : Skipped(c) = {}

\* Without a crash, no half-written file is ever committed: the chunker's
\* mutex covers a save from the truncation to the registry row, and hashing
\* (syncer.rs, the mutex in check_upload_once and check_download_once).
TornNeverCommitted ==
  restarts = 0 => \A i \in DOMAIN journal : journal[i].chunks # Torn

\* Where nobody edits files, a registry row that names a record vouches for
\* the disk: a file with the row's stamp has the record's content, also after
\* a run that ended in the middle of a save (the row is made after the save).
RowsVouchForFiles ==
  \A c \in Clients \ Editors, p \in Paths :
    LET row == reg[c].row[p]
    IN  row.jid # NoJid /\ ~ row.deleted /\ row.stamp = disk[c][p].stamp
        => disk[c][p].data \in {journal[row.jid].chunks, Gone}

\* A registry row that carries a jid is about that record of the journal: the
\* jid of a commit never ends up on a row that was made while the commit was
\* under way, for the same path (update_jid goes by the row's id).
RowsNameRecords ==
  \A c \in Clients, p \in Paths :
    LET row == reg[c].row[p]
    IN  row.jid # NoJid =>
          /\ row.jid \in DOMAIN journal
          /\ journal[row.jid].path = p
          /\ journal[row.jid].deleted = row.deleted

\* What a client has recorded for a path never goes back to an older record,
\* if it does not upload: list is sent in the order of ids, and a record is
\* noted before the next list is asked for.
ReadersNeverGoBack ==
  [][\A c \in Clients \ Writers, p \in Paths :
       LET old == reg[c].row[p].jid
           new == reg'[c].row[p].jid
       IN  new # NoJid => new >= old]_vars

\* A client that only reads has on its disk every newest record its cursor has
\* passed: what the cursor vouches for is there, at whatever await a run ended
\* and however lists, saves, removals and the indexer interleave with other
\* clients' commits (check_download_once).  A file that is just being removed,
\* or whose removal a run that ended has left out, is the exception
\* (syncer.rs:315, "TODO atomic?").
HasContent(c, p, data) == disk[c][p].data = data

Applied(c, i) ==
  IF journal[i].deleted
  THEN \/ HasContent(c, journal[i].path, Gone)
       \/ restarts > 0
       \/ dl[c].pc = "remove" /\ dl[c].item = i
  ELSE HasContent(c, journal[i].path, journal[i].chunks)

PassedMeansApplied ==
  \A c \in Readers : \A i \in Latest(journal, Account) : i <= reg[c].cursor => Applied(c, i)

\* Once users stop, a client that only reads ends up with the folder of the
\* server.  A deletion that a run ending between tombstone and removal left
\* behind is the exception (syncer.rs:315, "TODO atomic?").
ReaderIsCurrent(c) ==
  \A i \in Latest(journal, Account) :
    IF journal[i].deleted
    THEN restarts > 0 \/ HasContent(c, journal[i].path, Gone)
    ELSE HasContent(c, journal[i].path, journal[i].chunks)

ReadersCatchUp == <>[](\A c \in Readers : ReaderIsCurrent(c))

\* Once users stop, the upload loop runs dry: NeedChunks is followed by the
\* chunks and a commit that succeeds, a failing pass by a run that does not.
UploadsDrain == <>[](\A c \in Writers : UpdatedLocally(reg[c]) = {} /\ up[c] = UpIdle)
=============================================================================
