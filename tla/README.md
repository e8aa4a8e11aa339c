# A verification of cooklang-sync

TLA+ models of cooklang-sync, checked with TLC on small instances, and proofs of
their central properties, checked with TLAPS for any number of clients, paths
and records. Paths below are relative to the repository.

- [The system](#the-system): components, state, interactions, hard behaviours
- [The modules](#the-modules): what models what
- [What the runs show](#what-the-runs-show): bounds, fairness, counterexamples
- [What is proved](#what-is-proved)
- [Limits](#limits)
- [Plan](#plan)

## The system

Clients keep a folder of recipes in sync through a server. The server stores
content as *chunks* (files named by a hash) and a *journal* per user: a table of
records (id, path, chunk_ids, deleted). A record's id is its *jid*. A client
keeps a *registry*, a table that knows of each file which record it stands for.

| Component | Source | State | Operations |
|---|---|---|---|
| registry | `client/src/registry.rs`, `models.rs` | SQLite table `file_records` (id, path, namespace, size, modified_at, jid, deleted), insert-only but for `jid` | `create`, `delete`, `update_jid`, `non_deleted`, `updated_locally`, `latest_jid` |
| indexer | `client/src/indexer.rs` | locals of a pass: what the walk has seen | `check_index_once` walks the folder, compares it with the registry, inserts rows without a jid |
| syncer | `client/src/syncer.rs` | locals of two loops | `check_download_once` (list, fetch, apply), `check_upload_once` (commit, upload) |
| chunker, cache | `client/src/chunker.rs` | files on disk, chunks in memory, behind one mutex | `hashify`, `save`, `delete`, `exists`, `read_chunk` |
| remote | `client/src/remote.rs` | the buffer of an answer being parsed | `commit`, `list`, `poll`, `upload_batch`, `download_batch` |
| lifecycle | `client/src/lib.rs`, `context.rs`, `main.rs`, `errors.rs` | cancellation token, two channels, the listener's last status | `run_async` joins the loops; the first error ends the run |
| file watcher | `client/src/file_watcher.rs` | a bounded channel | reports changes to the indexer; its thread blocks when the channel is full |
| metadata service | `server/src/metadata/` | table `file_records` of all users | `commit`, `list`, `has_files` |
| long polls | `server/src/metadata/notification.rs` | map uuid -> `Notify` | `register`, `notify`, `remove`, handler `poll` |
| chunk server | `server/src/chunks/`, `chunk_id.rs` | files under `UPLOAD_DIR` | `upload_chunks`, `retrieve`, `download_chunks`; `is_present` |
| auth | `server/src/auth/` | `SYNC_ENFORCEMENT`, the clock | decides on a token: 200, 401, 402 |

How they interact. One client run is one task with three loops: the indexer, the
download loop and the upload loop interleave at their awaits. They share the
disk, the registry, and the chunker behind a mutex that is taken and released
once per file. The indexer wakes the upload loop through a channel of events, a
file watcher or a timer of 61 s wakes the indexer, a long poll wakes the download
loop. The server's handlers run concurrently; commit makes two database calls
and notifies the polls of the other clients. It is tied to the chunk server only
by the file system: chunks are present if their file exists.

What is hard here, and what would make it correct:

- *The cursor.* A client asks for records past the largest jid in its registry.
  Downloads, and its own commits, move it. It must never pass a record the
  client has not applied; it must never fall.
- *Saves and the indexer.* `save` truncates, writes, and only then is the row
  made. The indexer can see the file in between, a run can end in between, the
  user can edit or delete in between.
- *Late answers.* `update_jid` and the application of a list come after network
  calls; the rows they are about may have been superseded.
- *Crashes.* A run ends at the first error, anywhere, also while a commit is in
  the server; the next starts from disk and registry.
- *Concurrent commits* of several devices, and handlers dropped at an await.
- *Polls* that time out on both sides, with the same uuid used again.
- *The indexer against the folder.* A pass reads file after file while the user
  goes on; what it saw is compared with rows made at other times; modified_at is
  cut to seconds; its two inserts are not one transaction.
- *Wake-ups and endings.* Three loops in one task, two bounded channels and one
  listener; a cancellation or a refused call may come at any await.
- *Answers in fragments*: a multipart body is parsed while it arrives, and its
  chunks may be rewritten, or its connection break, meanwhile.
- *Chunk files* that exist before they are complete, are written by several
  handlers, and are removed again on errors; request bodies cut at a limit that
  does not match the client's.

`PROJECT.json` lists the hazards one by one, each at its line.

## The modules

| Module | What it models |
|---|---|
| `RegistryOps` | The registry as its callers see it: per path the newest row, all jids seen, the cursor. |
| `RegistryView` | Abstract specification: how that view may change. Both `Registry` and the registries of `SyncSystem` implement it. |
| `Registry` | The table, its statements and its grouped queries; implements `RegistryView` for each namespace. |
| `JournalOps` | The journal's queries: `list`, `latest_for_path`, `has_files`. |
| `Journal` | Abstract specification of the metadata service: calls submitted and decided, a log that grows. |
| `Notification` | The map of active clients and the poll handlers. |
| `MetadataServer` | The handlers of `commit`, await by await, composed with `Notification`; implements `Journal`. |
| `ChunkStore` | `upload_chunks`, part by part, and the clients' loop of commit, batches, upload, retry. |
| `Entitlement` | What a token is good for, by time and mode: `User` and `EntitledUser`. |
| `DownloadBatch` | One batch of chunks on its way: request, answer as a stream of tokens, fragments, the client's parser; rewrites, breaks, expiring tokens. |
| `Indexing` | `check_index_once` file by file, with a user, a clock finer than seconds, a save in progress and crashes. |
| `Lifecycle` | `run_async`: the three loops as their wake-ups, statuses and ends see them, two channels, cancellation, the watcher. |
| `SyncSystem` | The composition: clients (disk, `RegistryOps` view, indexer, download loop, upload loop) and the server's journal (`JournalOps`). |
| `SyncProofs`, `RegistryProofs`, `ServerProofs`, `ChunkProofs`, `DownloadProofs`, `IndexingProofs`, `LifecycleProofs` | Theorems about `SyncSystem`, `Registry`, `MetadataServer`, `ChunkStore`, `DownloadBatch`, `Indexing`, `Lifecycle`. |
| `ReaderProofs` | Theorems about `SyncSystem` that are about a client's own folder; builds on `SyncProofs`. |
| `MCRegistry`, `MCMetadataServer`, `MCChunkStore`, `MCDownloadBatch`, `MCIndexing`, `MCSyncSystem` | Instances for TLC. `Lifecycle` needs none. |

`SyncSystem` uses the registry's *view* rather than its table (`ImplementsView` of the
run `registry` and the theorem `RegistriesMoveAsViews` justify that), and a commit of one check and one insert, as `MetadataServer`
has it. It takes a pass of the indexer for one step, which `Indexing` takes
apart, and has no wake-ups, which are `Lifecycle`'s. Operators whose comment begins with "Mutant" are not part of any
specification: each is a wrong version of the definition after it, and shows
that a property can tell the two apart.

### Correspondence

`PROJECT.json` maps every definition to its lines. The main choices:

- *One action per stretch between awaits.* `check_index_once` has no await and is
  one action, `Index`. `check_download_once` is `DlStart` (cursor read), `DlList`,
  `DlFetch`, then per record `DlTombstone`, `DlRemove` (deletion) or `DlTruncate`,
  `DlWrite`, `DlRecord` (file). `check_upload_once` is `UpStart`, per row `UpHash`
  (mutex, read, send), the server's `SrvCheck` and `SrvInsert`, `UpCommitted` or
  `UpNeeds`; then `UpSend` per batch.
- *The mutex* (`Locked`) is a function of the two loops' program counters.
- *Content* is one value: a file's bytes, its chunk_ids and its chunks. `Torn`
  stands for any content between truncation and the last write; it may or may
  not have all its chunks on the server.
- *A file's stamp* is (size, modified_at). Each write gives it a new one; stamps
  and row ids are only compared for equality with those still held, so numbers
  are used again once nothing holds them. That keeps the model finite.
- *An error anywhere* ends the run: `RunEnds`. `Restart` may happen at any await;
  a commit it leaves in the server goes on as an `orphan` and is decided later
  or never. File-system races that the code turns into errors (a file that is
  gone when it is hashed, removed or looked at) are guards that lead to `RunEnds`.
- *Commit* in `MetadataServer`: `CommitStart` (chunks are looked for),
  `CommitCheck` (dedup query), `CommitInsert`, `CommitNotify`; `CommitDropped` at
  either await, where a database call already handed over still runs.
- *Polls*: `PollStart` (register), `PollWoken`, `PollTimesOut`, `PollReturn`
  (remove), `ClientHangsUp`, `PollDropped`. The numbers of `Notify` objects are
  handles that outlive their map entry.
- *A pass of the indexer*: `StartPass` (the registry is read), `Visit` or
  `Unreadable` per directory entry, `DeleteRows`, `CreateRows`; `Fails` and
  `RunEnds` break it off anywhere. A download being saved is `SaveCreates`,
  `SaveWrites`, `SaveRecords`. The history variables (`had`, `basis`, `dirty`,
  `pass.changed`, `pass.absent`) say what the properties need to know about the
  user's side; no action depends on them.
- *A run*: the loops stand at the labels of their awaits (`idx.pc`, `dl`, `up.pc`).
  `check_index_once` never awaits, so nothing of the task moves during it
  (`TaskIsFree`), while user, watcher and canceller do. A pass of the syncer is one
  call that succeeds or fails with 401, 402 or another error. A send into the
  channel is accepted before it is awaited, so a loop may hold one event more than
  the channel (`events <= ChannelSize + 1`).
- *An answer to download_batch*: `OpenPart`, `ReadPart`, `EndPart` stream tokens; the
  client receives any prefix of what is on the wire (`Receive`) and extracts parts
  as `remote.rs` does (`Extract`). The boundary has two tokens, so that a fragment
  can end inside it.
- *Uploads*: what a client has still to send is a set of places in its file
  (`lacking`); each batch is computed from it when it is sent, which gives the
  batches that `check_upload_once` cuts in advance. A body is read unit by unit:
  header, parts, delimiter. `left` counts
  down the body limit; a body can be cut off at any unit if the client is gone.
  A cut inside a header ends the loop with 200, inside a field it removes the
  file and panics, as the code does. tokio's `File` takes a part over (`Write`) and
  writes it in another thread, sooner or later (`WriteLands`, `WriteFails`); the
  next `write_all` waits for it and returns its error, and then the handler removes
  the file and goes on, writing to a file without a name (`WriteReported`,
  `attached = FALSE`). The file is never flushed, so nothing waits for the last
  part: it is `late` when its handler has let go of the file, and if it fails
  nobody is told (`unreported`).
- *The listener*: the statuses of the loops are reported in the model; `on_complete`
  is not: `run_async` calls it in the one place where a run ends (`lib.rs:231-241`).

## What the runs show

All passing runs explore their state space completely.

| Run | Instance | States | Shows |
|---|---|---|---|
| `registry` | 2 namespaces, 2 paths, 3 rows, jids 1..2 | 14 k | `TypeOK`, `ImplementsView`, `QueriesMatchView`, `CursorNeverFalls` |
| `metadata_commits` | 3 clients of 2 users, 2 paths, 3 commits | 713 k | `ImplementsJournal`, `ListCatchesUp` |
| `metadata_polls` | 2 clients, 2 commits, 3 polls | 8.1 M | `TypeOK`, `CommitReleasesPolls` |
| `chunk_store` | 2 clients, 2 handlers, 2 chunks, 1 fault, 1 loss | 304 k | `TypeOK`, `WholeOrAbsent`, `UploadsConverge` |
| `download_batch` | batches of 2 and 3 chunks, 4 tokens, 1 rewrite, 1 break, 1 deployment | 347 k | `TypeOK`, `PartsAsStreamed`, `WholeUnlessRewritten`, `RefusalsStand`, `BatchArrives` |
| `indexer` | 2 indexed paths and another, 2 contents, 2 edits, 1 save, 1 fault, 2 ticks per second | 870 k | `TypeOK`, `EditsNoted`, `NoPhantomNotes`, `DeletionsAreReal` |
| `lifecycle` | channels of 1 and 0, 3 changes, 2 runs | 185 k | `TypeOK`, `NoLostWakeUps`, `OnlyFailedCallsFailRuns`, `RefusalsStayTyped`, `StatusNamesAnActivity`, `CancelledRunsEnd`, `ChangesAreNoted` |
| `sync_reader` | a writer and a reader, 2 paths, 2 edits, 1 restart | 3.1 M | `TypeOK`, `OnlyOwnCommitsSkip`, `RowsVouchForFiles`, `PassedMeansApplied`, `ReadersNeverGoBack`, `RowsNameRecords`, `TornNeverCommitted` |
| `sync_live` | a writer and a reader, 1 path, 2 contents, 2 edits | 176 k | `ReadersCatchUp`, `UploadsDrain` |
| `sync_skips` | 2 writers | | violates `WritersSkipNothing` |
| `chunk_records` | as `chunk_store`, no loss | | violates `RecordedChunksPresent` |
| `lifecycle_idle` | as `lifecycle`, 1 change, 1 run | | violates `IdleMeansNotSyncing` |

### Bounds

- *Registry*: three rows are what it takes for a superseded row, its newer row,
  and a row of another path or namespace. The jids are chosen in any order, more
  than the syncer ever does.
- *Metadata*: three commits allow a commit between the dedup query and the
  insert of another, on the same or another path, and a foreign user's record
  between two of one's own. Three polls of two clients are a poll, its successor
  under the same uuid, and a bystander.
- *Chunks*: a's file is one batch for `BatchLimit`, but one unit longer than
  `BodyLimit`, so that its body is cut in a field without any fault. b's makes two
  batches; the first is cut in a header, answered 200, and followed by the second,
  which rewrites a chunk of the first. A fault is a client that gives up, a write
  that fails (at once or late) or a file that cannot be created; a loss is a crash or a
  dropped handler. One of each, with two handlers on the same chunk, is every
  pair of hazards listed; the theorem has any number. `UploadsConverge` needs the copies of one chunk in one batch to fit
  in a body: the copy that is cut off removes what the first has stored. Real
  batches close at 3 MB and bodies at 5 MB, so this takes over 2 MB of one repeated line.
- *Batches*: one chunk is empty, the other begins like the end of a header block
  and ends like the beginning of a boundary; together, in every order of
  fragments, they are what a parser can trip over. One batch is over `FormLimit`.
  The tokens are a plan that ends, a malformed claim, a token that expires and a
  forged one.
- *Indexer*: both contents have one size, so that only the clock tells them
  apart, and the clock ticks twice a second, so that it may fail to. Two edits
  are two writes, a write and a deletion, or a rename and a write. One save
  brings a file the client indexes, or one it does not. One fault is a crash, a
  failed call or an entry that cannot be read.
- *Lifecycle*: a channel of one and a third change make a send block; three
  changes are one noted, one being scanned and one not yet reported. Two runs
  show what is left of the first in the second. Channels of one and zero stand
  for those of 100 and 1000 (`lib.rs:17`, `file_watcher.rs:9`): they fill up sooner.
- *Sync*: two edits by one or two users give two commits in conflict, or an edit
  and a deletion. `MaxRecords` bounds the commits that may be made
  (`RoomForCommit`); in `sync_live` it is out of reach, so that liveness is not
  an effect of the bound. Downloads that come back as commits (see below) are why
  a bound is needed at all where two clients upload. One restart in
  `sync_reader` is a run of either client ending at any await. Only one of its
  clients uploads; `sync_skips` has two that do, and the theorems about
  `RowsNameRecords` and `TornNeverCommitted` any number.
- Deadlock is not checked where calls, polls, rows, faults or runs are used up
  or clients are done (`registry`, `metadata_*`, `chunk_*`, `download_batch`,
  `lifecycle`): there the models stop when the bound is reached. It is checked
  in all `sync_*` runs and in `indexer`, where a loop can always go round.

### Fairness

`sync_live`: weak fairness of each loop. The indexer and both transfer loops
wake up by a timer at the latest (`indexer.rs:67-74`, `syncer.rs:77-185`), requests
have timeouts, and tokio's mutex is first-come first-served, so a loop that can
move does. Users owe nothing. The run has no crashes: with them, a deletion
whose run ends between tombstone and removal leaves the file behind, as the
code's `TODO atomic?` says (`syncer.rs:315`).

`chunk_store`: weak fairness of the clients' loops, of each handler's
reading, and of the thread that writes: the disk gets to each part. A client whose run ended is assumed to be run again by its application;
an I/O error, a client that gives up and a lost handler are bounded. Clients that
never stop failing converge to nothing.

`download_batch`: weak fairness of the handler, of the client with its
application, and of uploads, which end. `BatchArrives` has as its condition that
from some time on the server has the chunks and takes token and list; breaks
and rewrites are bounded.

`indexer`: weak fairness of the pass and of the save. The user owes nothing.

`lifecycle`: weak fairness of `try_join!` and of each loop: timers fire, and
requests are answered or time out after 60 s. Strong fairness of `UpTakes`, since
`select!` picks at random among the branches that are ready, and of
`UpCommitted`: a pass does not end with `NeedChunks` for ever, since it then
sends what was missing (that is `UploadsConverge`). Nobody is made to cancel,
and the watcher need not report.

### Counterexamples

Each is what the code does, against what the repository says. The quotations
are in `PROJECT.json`.

1. **A client's own commit moves its cursor over records it does not have**
   (`sync_skips`; `syncer.rs:220`). a's commit is record 1, b's is record 2 before
   b has listed record 1: b's cursor is 2, record 1 is never listed for it until
   its path is committed again. `OnlyOwnCommitsSkip`, checked and proved, says
   that this is the only way to lose a record.
2. **A record can name a chunk that is removed again** (`chunk_records`;
   `chunks/mod.rs:184`): a chunk counts as present from `File::create` on, and is
   removed if the body breaks off. Downloads then panic at `expect("file present")`.
3. **`Idle` is reported while a client is syncing** (`lifecycle_idle`; `indexer.rs:64`).
   `models.rs:94` calls it "No sync activity is currently happening", the client's
   README "Not syncing"; but each loop reports it at the end of its own pass. The
   indexer ends while the download loop is in a pass, and the listener's last
   status is `Idle`. `StatusNamesAnActivity` holds, for the activities.

### What the passing properties except

Some properties hold with an exception that is named in them. Each is a behaviour
of the code that a reader should know of.

- `CommitReleasesPolls` excepts `Overtaken`: a client gives up after 60 s of a
  70 s poll; if the server does not notice, the old handler removes the map entry
  of its successor (`metadata/mod.rs:158`), which then waits for its timeout.
- `EditsNoted` excepts `Ambiguous`: two contents of one size within a second, which
  also happens when a user writes between a save and its row
  (`syncer.rs:329`): the row has the stamp of the one and the jid of the other.
- `DeletionsAreReal` excepts paths the client does not index: once downloaded, the
  next pass marks them as deleted, for all clients (`indexer.rs:134`).
- `WholeOrAbsent` excepts a chunk whose last part could not be written: the file
  is not flushed, so the error is lost, the handler answers 200 and the chunk stays
  without that part, present for every commit (`chunks/mod.rs:190-194`). A write that
  is merely slow ends after the answer; until then the chunk is not at rest.
  Lost handlers are excepted too: they leave a partial file.
- `WholeUnlessRewritten` excepts chunks that were being rewritten, or were left partial by
  such an upload before: the client caches the torn content under the chunk's
  hash, which neither side checks.
- `BatchArrives` excepts lists over the form limit: they are answered 413 in every
  run (`chunks/mod.rs:261`; `syncer.rs:264` has batches as a TODO).
- `ChangesAreNoted` excepts `download_only`: nobody receives the indexer's events,
  so it stops in the send that overfills the channel (`indexer.rs:59`).
- `StatusNamesAnActivity` is about activities, and not about `Idle`: see counterexample 3.
- `RefusalsStand` says nothing about the boundary itself, `sync_until < now`
  (`entitlement.rs:93`): with `<=` it would hold as well.
- `ImplementsJournal` allows a record that repeats the newest of its path: dedup
  query and insert are not one transaction (`metadata/mod.rs:82`), so of two
  concurrent commits that `mod.rs:77` calls a no-op each may insert.
- `PassedMeansApplied` excepts deletions whose removal is under way, or was left out
  by a run that ended between tombstone and `remove_file` (`syncer.rs:315`).
- `RowsVouchForFiles` and `PassedMeansApplied` speak of clients whose user edits
  nothing, since a user may write between a save and its row.
- `TornNeverCommitted` speaks of runs that were not cut off in a save. And nothing
  forbids a download from coming back as a commit: the
  indexer, which does not take the mutex, sees a file before its row is made
  (`syncer.rs:322`); if the upload loop reads the indexer's row before the
  syncer's supersedes it, the downloaded content is committed again.

## What is proved

The theorems hold for all values of the constants: any clients, users, paths,
contents, channel sizes and bounds. They rest on the named assumption of each
module (`SyncAssumption`, `RegistryAssumption` and so on), which TLC evaluates in the
runs, and on nothing else except where said. What TLC checks on the small
instance of a run, the theorem of that property says for every instance.

| Module | Theorem | Says |
|---|---|---|
| `SyncProofs` | `TypesOK` | `Spec => []TypeOK` |
| | `RowsNameTheirRecords` | `Spec => []RowsNameRecords` |
| | `OnlyCommitsSkip` | `ListIsOrdered => (Spec => []OnlyOwnCommitsSkip)` |
| | `NoTornCommit` | `Spec => []TornNeverCommitted` |
| | `JidsStay` | `Spec => JidsAreFinal` |
| `ReaderProofs` | `NeverGoesBack` | `Spec => ReadersNeverGoBack` |
| | `RowsTellTheTruth` | `Spec => []RowsVouchForFiles` |
| | `PassedIsApplied` | `ListIsOrdered => (Spec => []PassedMeansApplied)` |
| | `QuietIsCurrent` | `ListIsOrdered => (Spec => []QuietReadersAreCurrent)` |
| | `ReadersHoldWhatTheyRecorded` | `Spec => []ReadersHoldRecords` |
| | `RegistriesMoveAsViews` | `Spec => RegistriesAreViews` |
| `RegistryProofs` | `TypesOK` | `Spec => []TypeOK` |
| | `CursorGrows` | `Spec => CursorNeverFalls` |
| | `QueriesAreRight` | `Spec => []QueriesMatchView` |
| | `TableImplementsView` | `Spec => ImplementsView` |
| `ServerProofs` | `TypesOK` | `Spec => []TypeOK` |
| | `HandlersImplementJournal` | `Spec => ImplementsJournal` |
| | `CommitsReleasePolls` | `Spec => []CommitReleasesPolls` |
| | `ListsCatchUp` | `Spec => []ListCatchesUp` |
| `ChunkProofs` | `UploadTypes` | `Spec => []TypeOK` |
| | `UploadsLeaveNothingHalfDone` | `Spec => []WholeOrAbsent` |
| `DownloadProofs` | `RefusalsAreFinal` | `Spec => []RefusalsStand` |
| | `BatchTypes` | `Spec => []TypeOK` |
| | `PartsArriveAsStreamed` | `Spec => []PartsAsStreamed` |
| | `PartsAreWhole` | `Spec => []WholeUnlessRewritten` |
| `IndexingProofs` | `TypesOK` | `Spec => []TypeOK` |
| | `NotesAreReal` | `Spec => NoPhantomNotes` |
| | `OnlyAbsentFilesDeleted` | `Spec => DeletionsAreReal` |
| `LifecycleProofs` | `TypesOK` | `Spec => []TypeOK` |
| | `ShuttingDownIsNoError` | `Spec => []OnlyFailedCallsFailRuns` |
| | `RefusalsReachTheCaller` | `Spec => []RefusalsStayTyped` |
| | `NoWakeUpIsLost` | `Spec => []NoLostWakeUps` |
| | `ActivitiesAreTrue` | `Spec => []StatusNamesAnActivity` |

The inductive invariants of `SyncProofs`, each relative to the ones before it:

- `TypeInv` = `TypeOK`, plus: an upload queue names a path once and
  the row being committed is on it (`QueueOK`), and what a download loop works on
  are records of the journal (`TodoOK`). The last needs `ListSince` to return ids of the journal
  and the journal to grow only.
- `RowsInv` adds to `RowsNameRecords` what holds while a commit is under way: a
  queued row that is still the newest of its path has not changed its deleted
  flag, and an answer names a record of the queued row's path and flag. Without
  it, `update_jid` could put any jid on a row.
- `SkipInv`, per client: its cursor is 0 or one of its jids; a list was asked for
  from its cursor or below; the list is worked on from its least id upwards; and
  a newest record that the client does not know and that lies below something
  on its list was skipped before the list was made. The order of the answer
  (`ListIsOrdered`) is what gives the third part: if a larger id were applied
  first and the run ended, the smaller would be lost. `list` has no `ORDER BY`
  (`db.rs:114`); SQLite answers in the order of the primary key.
- `TornInv`: as long as no run was cut off, a file is torn only while its own
  save is under way; the save holds the mutex, so the upload loop is not
  reading, and no torn content is in its hands, in an orphan or in the journal.
- `PendingInv`: a row that waits to be committed, if it is still the newest of its path,
  has no jid, and new rows take ids that no waiting row has. So `update_jid`
  (`registry.rs:23`), which would overwrite any jid, only fills rows without one:
  `JidsStay`. `Registry` has this as the guard of `SyncerCommit`; the theorem shows
  that the caller keeps it. `JidsAreFinal` is defined beside its proof and is not a
  property of a run.

`ReaderProofs` goes on from there, with four invariants about one client each. What other
clients do leaves a client alone but for the journal, which grows at its end
(`JournalGrows`), so only the client's own steps need proofs.

- `OrderInv`, for clients that do not upload: what is still on its list is newer than
  everything it has recorded of the same path, with one exception: a deletion is
  recorded before its file is removed. A list is asked for from the cursor, which
  such a client has at its largest jid, and has one record per path, so
  `ReadersNeverGoBack` needs no order of the answer.
- `VouchInv`, for clients whose user edits nothing: `RowsVouchForFiles`, plus what the
  loops are in the middle of. The file being saved is torn before the write and
  has the record's content after it; a commit is not under way while a file is
  saved; and the row being committed vouches for the content that was hashed,
  so that it may get the jid of the record with that content. A client that
  uploads without editing does occur: it uploads what it has downloaded.
- `ReaderInv`, for clients that do neither: a newest record that is recorded is on the
  disk. A save or a removal could spoil that only for a path with something on
  the list, and `OrderInv` says that the list then has a newer record.

`PassedMeansApplied` is the three together with `OnlyOwnCommitsSkip`: what the cursor has
passed is recorded, since a reader makes no commits of its own, and what is
recorded is on the disk. This is the promise a cursor stands for. It needs
`ListIsOrdered`, as `OnlyCommitsSkip` does and nothing else in these modules but its
corollary `QuietIsCurrent`: a reader whose cursor `list` answers with no record has
the server's folder. That is the safety half of `ReadersCatchUp`; what is left to TLC is
that such a moment comes.

- `SettledInv`, for clients that do neither and runs that were not cut off: where the
  download loop is not at a path, the indexer finds its file as the registry has
  it. So `ReadersHoldRecords`, with `VouchInv`: whatever half-written files the
  indexer met and marked, since it does not take the mutex, in the end the reader
  has whole files of records and none of those marks on them. A run that ends in the
  middle of a save leaves a mark, hence the condition.

`RegistriesAreViews` joins the two models of the registry. `Registry` shows that the table
does no more than `RegistryView` allows; this theorem, that the clients of `SyncSystem`
do no more either, each step being one change of one client's view or none. The
constant `Newer` of `RegistryView` says which row ids may supersede which: larger ones
for the table, different ones for `SyncSystem`, which recycles ids since callers only
compare them. `NoteCommitted` has the guard that a row with a jid is not overwritten,
which is `PendingInv`.

`QuietReadersAreCurrent`, `ReadersHoldRecords` and `RegistriesAreViews` are defined beside their
proofs and are not properties of a run.

`RegistryProofs`. `QueriesMatchView` compares the grouped query, which selects a row by
looking at every other of its path (`LatestIds`), with a reference that looks up one path
at a time and takes the largest of its ids (`LatestRow`). The two agree only if the rows of
a path have a newest one. `NewestInv` and
`LargestInv` say that they do, and that the jids of a namespace have a largest;
every statement keeps them, so no theorem about finite sets is needed. A subquery
that forgot the namespace would change the query and leave the reference alone. The
refinement then goes statement by statement: an insert is `NoteChanges`,
`NoteApplied` or a stutter of each namespace's view, an update of a row without a
jid is `NoteCommitted`.

`ServerProofs`. `CallInv`: a call has no id before it is decided and owes no poll
before its insert. With it each step of a handler is `Submit` (`CommitStart`),
`KnownRecord` (`CommitCheck`, a match), `NewRecord` (`CommitInsert`) or a stutter of
the journal. `HandleInv`: a `Notify` belongs to one uuid, that of the poll that
brought it, so that a poll which takes a permit from another overtakes it.
`WakeInv`: a waiting poll is found through the map unless another poll of its uuid
took the entry out, and what a commit owes, it owes to other uuids; so `notify`
reaches every poll it owes. `ListCatchesUp` compares two queries with a replay of the
journal, a recursive function. `FolderIsLast` says what the replay comes to: for
each path the last record that touches it (`LastTouching`). It is proved without
induction over the journal: that function solves the recursion, and where
another solution differed first, it would not (`LeastNatural`, from the
well-foundedness of the naturals).

`ChunkProofs`. `FileInv`: a file that is neither absent nor whole has an owner, the
handler that truncated it last. What the owner has written since is there,
because every other handler that has the file open only adds to it, and one that
truncates or removes it becomes the owner or leaves the file absent. Its last part
may still be under way, or have failed without the handler knowing. So when the
owner lets go the file is whole, or the last part alone is missing and is late or
unreported (`NearlyWhole`); a late part that lands makes it whole. `StateInv` is the types, plus: what a client has still to send are
places of its own file. Without it a request might name a chunk that is not there.

`DownloadProofs`. `RefusedInv`: what was refused would still be refused. For an
expired token and an ended plan this is `TimeTakesRightsAway`, over all modes and
times; for a deployment, `InvalidIsRefused`: no mode serves a token that is not
valid, which is all that `refused` remembers across one.

What the client parses is proved in two layers. The first is about sequences of
tokens: `rest[i]` is the answer from its section i on, so that each section is
followed by the next, by the closing boundary, or by nothing yet. If what has
arrived is a prefix of that, less what is parsed already, then the client's
search finds a second boundary exactly when a whole section and the boundary
after it have arrived, and what it extracts is that section's part. The content of a chunk
may contain anything but the random part of the boundary: it may end in line
ends and dashes, like the beginning of one. `DownloadAssumption` says that this
random part (`response.rs:26-36`, 15 random characters) is not a chunk's name
either, so that no header contains a boundary.
The client keeps the last boundary it has found less its line end, so between
two extractions it stands two tokens into the line before a section (`Resume`).

The second layer is `BatchInv`, over the state. While the client is in the stream, what is
in its buffer, on the wire, and was on the wire when the connection broke (`lost`)
is the rest of the answer from where the client stands (`Coming`); the parts it
has are the first of those the server streamed (`Ledger`), which go by the order
of the request (`Named`); a chunk nobody has seen torn has its own content on disk
(`AtRest`), and the part the server is reading agrees with it as far as it has got
(`AsFar`). A part is passed on only when its closing boundary has arrived, so it
is complete, and complete means whole unless the chunk was being rewritten.

`IndexingProofs`. `MatchInv` relates, for each indexed path, three things that
change independently: the disk, the row, and what the walk has seen. A path the user did
not touch since it was recorded agrees with its row (`Agrees`); one the walk has
visited and nobody touched since was seen as it is (`SeenAsItIs`); one not touched
since the pass began was seen as its row says (`SeenAsNoted`). Without the last the
comparison of a map of the disk with a map of the registry, read at different
times, could not be justified.

`LifecycleProofs`. `RunInv`: a run that is on has met no error, a loop is over only
after the cancellation, and no loop ends while the indexer scans. `EventsFit`:
the indexer is past its send only if the event found room. `WakeInv`: what the
watcher reported is noted, or in its channel, or will be seen by a scan that is due
or under way, and the same from the indexer to the upload loop. `StatusInv`: an
activity that was reported last is going on. No such thing holds of `Idle`.

The proofs go action by action; lemmas group the actions of a loop or a handler
where they disturb the same conjuncts.

Only model-checked: liveness, that is `ReadersCatchUp` (but for its safety half, above), `UploadsDrain`, `UploadsConverge`,
`BatchArrives`, `EditsNoted`, `CancelledRunsEnd` and `ChangesAreNoted`. Every other
property of a passing run is a theorem. Liveness under fairness and `ENABLED` are beyond the
prover, and so are induction principles that take an operator as a parameter; where
a recursive function had to be reasoned about (`Folder`), the principle that a set
of naturals has a least element took their place. Deadlock freedom of the `sync_*`
runs and of `indexer` is model-checked too.

## Limits

- In `SyncSystem` a pass of the indexer is one step that inserts all its rows, and
  every write changes a file's stamp. `Indexing` has the walk, the two inserts
  and the seconds, for one client without a server.
- In `SyncSystem` a failed fetch of chunks ends the run like any other error
  (`Restart`); a chunk a record names is always there for `DlFetch`
  (counterexample 2 shows when it is not).
- The cache never evicts in `SyncSystem` (it may hold 100 GB, `lib.rs:19`), and
  the hash of a content is the content.
- A record's id is drawn and becomes visible in one step, as with SQLite. With
  Postgres they are two.
- Handlers of `MetadataServer` are not interrupted by a server crash; its state
  apart from the polls is the database.
- In `ChunkStore` a client commits one file, and the record's dedup is left out.
- In `Lifecycle` a pass of the syncer is one call; which files it is about is a set
  of numbered changes. `Entitlement` does not model signatures: a token is signed
  or not.

### Not modelled

- `run`, `run_download_once`, `run_upload_once` and `wait_remote_update`: each calls
  a pass or a poll that is modelled, once, and adds no state.
- `retrieve` and the single `upload` and `download` of `remote.rs`: no state, and
  no client calls them.
- The cache's eviction, the removal of empty directories after `delete`, and the
  rules for names and kinds of files (a constant, `Eligible`).
- Postgres' order of ids and commits.
- Server plumbing (routing, error pages, migrations, start-up), database
  connections, generated bindings, scripts and CI: no protocol state.

## Plan

Done: `Registry` with its view, `MetadataServer` with `Journal` and `Notification`,
`SyncSystem`, `ChunkStore`, `Indexing`, `Lifecycle`, `Entitlement`, `DownloadBatch`, and
proofs of all their safety properties, with the registries of `SyncSystem` as
implementations of `RegistryView`.

Next, in this order:

1. *Postgres* as a parameter of the journal: ids drawn before they are visible.
2. *ChunkStore composed with SyncSystem*, so that a fetch can fail for a chunk
   that was removed.
3. *The cache with eviction*, and the one-shot functions of `lib.rs`.
