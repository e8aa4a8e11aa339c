------------------------------ MODULE Indexing ------------------------------
(***************************************************************************)
(* What the indexer notices (client/src/indexer.rs): one folder, a clock,  *)
(* a user, the indexer's pass step by step, and the syncer's save of a     *)
(* downloaded file beside it.                                              *)
(*                                                                         *)
(* Module SyncSystem gives every write of a file a stamp of its own and    *)
(* takes a pass for one step.  Here a stamp is what the code has: the size *)
(* and modified_at cut to seconds; and a pass reads the registry, visits   *)
(* the files one by one while the user goes on working, compares, and      *)
(* makes its two inserts, with a crash possible before each.  The syncer   *)
(* runs in the same task: its file operations finish during a pass, its    *)
(* own statements do not.                                                  *)
(***************************************************************************)
EXTENDS RegistryOps

CONSTANTS Eligible,        \* paths the client indexes (file names, no symbolic links)
          Contents, Empty, \* what files hold; Empty: truncated, nothing written yet
          SizeOf, MaxSize, \* of what files hold
          Downloads,       \* the files the server may list, of the form [path, data]
          TicksPerSecond,  \* the file system's clock is finer than a second
          MaxTicks, MaxEdits, MaxSaves, MaxFaults  \* bounds

Data == Contents \cup {Empty}

ASSUME IndexingAssumption ==
  /\ Eligible \subseteq Paths
  /\ Downloads \subseteq [path : Paths, data : Contents]
  /\ MaxSize \in Nat
  /\ SizeOf \in [Data -> 0 .. MaxSize] /\ SizeOf[Empty] = 0
  /\ TicksPerSecond \in Nat \ {0}
  /\ MaxTicks \in Nat /\ MaxEdits \in Nat /\ MaxSaves \in Nat /\ MaxFaults \in Nat

VARIABLES
  now,     \* the clock, in ticks
  disk,    \* path -> the file
  reg,     \* the registry, a View
  pass,    \* the indexer's pass
  save,    \* the syncer's save
  basis,   \* history: the content each path's newest row stands for
  had,     \* history: every (second, content) each path had
  dirty,   \* history: paths changed since they were last visited or recorded
  edits, saves, faults

history == <<basis, had, dirty>>
vars == <<now, disk, reg, pass, save, history, edits, saves, faults>>

File == [there : BOOLEAN, data : Data, mtime : Nat]
NoFile == [there |-> FALSE, data |-> Empty, mtime |-> 0]

\* seen: what the walk found; todo: what it has not come to; changed: history,
\* the visited paths that were dirty.
Found == [stamp : Nat, data : Data]
PassOver(found) ==
  [pc : {"idle", "walk", "create"}, seen : [found -> Found],
   todo : SUBSET Eligible, absent : SUBSET Paths, changed : SUBSET Eligible]
PassIdle == [pc |-> "idle", seen |-> << >>, todo |-> {},
             absent |-> {}, changed |-> {}]

\* open: the file being written is still the one at the path.
Save == [pc : {"idle", "write", "record"}, path : {{}} \cup {{p} : p \in Paths},
         data : Data, open : BOOLEAN]
SaveIdle == [pc |-> "idle", path |-> {}, data |-> Empty, open |-> FALSE]

TypeOK ==
  /\ now \in 0 .. MaxTicks
  /\ disk \in [Paths -> File]
  /\ reg \in View
  /\ \E found \in SUBSET Eligible : pass \in PassOver(found)
  /\ save \in Save /\ (save.pc = "idle" <=> save.path = {})
  /\ basis \in [Paths -> Data]
  /\ had \in [Paths -> SUBSET [second : Nat, data : Data]]
  /\ dirty \subseteq Paths
  /\ edits \in 0 .. MaxEdits /\ saves \in 0 .. MaxSaves /\ faults \in 0 .. MaxFaults

Init ==
  /\ now = 0
  /\ disk = [p \in Paths |-> NoFile]
  /\ reg = EmptyView
  /\ pass = PassIdle /\ save = SaveIdle
  /\ basis = [p \in Paths |-> Empty]
  /\ had = [p \in Paths |-> {}]
  /\ dirty = {}
  /\ edits = 0 /\ saves = 0 /\ faults = 0

----------------------------------------------------------------------------
(* Stamps.  Two rows are equal if size and modified_at are.                *)

\* Mutant: the size only.
SizeStamp(file) == SizeOf[file.data]

StampAt(time, file) == time * (MaxSize + 1) + SizeOf[file.data]

\* Mutant: modified_at as the file system has it.
FineStamp(file) == StampAt(file.mtime, file)

Second(file) == file.mtime \div TicksPerSecond

\* build_file_record: truncate_to_seconds
Stamp(file) == StampAt(Second(file), file)

\* build_file_record of the syncer, which truncates as well.
SavedStamp(file) == Stamp(file)

----------------------------------------------------------------------------
(* The disk.                                                               *)

\* The file at p becomes file, and everything that remembers disks does.
Put(p, file) ==
  /\ disk' = [disk EXCEPT ![p] = file]
  /\ had' = [had EXCEPT ![p] = @ \cup {[second |-> Second(file), data |-> file.data]}]
  /\ dirty' = dirty \cup {p}

Written(data) == [there |-> TRUE, data |-> data, mtime |-> now]

Tick ==
  /\ now < MaxTicks
  /\ now' = now + 1
  /\ UNCHANGED <<disk, reg, pass, save, history, edits, saves, faults>>

\* An editor either writes into the file or puts another one in its place.
UserWrites(p, data) ==
  /\ edits < MaxEdits
  /\ Put(p, Written(data))
  /\ \E replaces \in BOOLEAN :
       save' = IF p \in save.path /\ replaces THEN [save EXCEPT !.open = FALSE] ELSE save
  /\ edits' = edits + 1
  /\ UNCHANGED <<now, reg, pass, basis, saves, faults>>

\* A pass that is under way may come to p too late.
Missing(p) == IF pass.pc = "idle" THEN pass ELSE [pass EXCEPT !.absent = @ \cup {p}]

UserDeletes(p) ==
  /\ edits < MaxEdits /\ disk[p].there
  /\ disk' = [disk EXCEPT ![p] = NoFile]
  /\ save' = IF p \in save.path THEN [save EXCEPT !.open = FALSE] ELSE save
  /\ pass' = Missing(p) /\ dirty' = dirty \cup {p}
  /\ edits' = edits + 1
  /\ UNCHANGED <<now, reg, basis, had, saves, faults>>

\* A rename keeps the time of the file.  (A file that is being saved stays.)
UserRenames(p, q) ==
  /\ edits < MaxEdits /\ disk[p].there /\ p # q /\ p \notin save.path
  /\ disk' = [disk EXCEPT ![p] = NoFile, ![q] = disk[p]]
  /\ had' = [had EXCEPT ![q] = @ \cup {[second |-> Second(disk[p]), data |-> disk[p].data]}]
  /\ save' = IF q \in save.path THEN [save EXCEPT !.open = FALSE] ELSE save
  /\ pass' = Missing(p) /\ dirty' = dirty \cup {p, q}
  /\ edits' = edits + 1
  /\ UNCHANGED <<now, reg, basis, saves, faults>>

----------------------------------------------------------------------------
(* The indexer: check_index_once.  Its statements are not interleaved with *)
(* the syncer's, so the registry stays as it was when the pass began.      *)

RunEnds ==
  /\ pass' = PassIdle /\ save' = SaveIdle
  /\ dirty' = dirty \cup pass.changed

StartPass ==
  /\ pass.pc = "idle"
  /\ pass' = [PassIdle EXCEPT !.pc = "walk", !.todo = Eligible,
                                !.absent = {p \in Paths : ~ disk[p].there}]
  /\ UNCHANGED <<now, disk, reg, save, basis, had, dirty, edits, saves, faults>>

\* The map of the files found so far, with p in it.
Extended(seen, p) ==
  [q \in DOMAIN seen \cup {p} |->
     IF q = p THEN [stamp |-> Stamp(disk[p]), data |-> disk[p].data] ELSE seen[q]]

\* The walk comes to p, and finds what is there at that moment.
Visit(p) ==
  /\ p \in pass.todo
  /\ pass' = [pass EXCEPT
       !.todo = @ \ {p},
       !.changed = @ \cup ({p} \cap dirty),
       !.seen = IF disk[p].there THEN Extended(@, p) ELSE @]
  /\ dirty' = dirty \ {p}
  /\ UNCHANGED <<now, disk, reg, save, basis, had, edits, saves, faults>>

\* filter_map(|e| e.ok()): an entry that cannot be read is passed over.
Unreadable(p) ==
  /\ p \in pass.todo /\ faults < MaxFaults
  /\ pass' = [pass EXCEPT !.todo = @ \ {p}, !.absent = @ \cup {p},
                          !.changed = @ \cup {p}]
  /\ dirty' = dirty \cup {p}
  /\ faults' = faults + 1
  /\ UNCHANGED <<now, disk, reg, save, basis, had, edits, saves>>

Walked == pass.pc = "walk" /\ pass.todo = {}

\* Mutant: a file that changed counts as removed.
ToRemoveChanged(seen) ==
  {p \in NonDeleted(reg) : p \notin DOMAIN seen \/ seen[p].stamp # reg.row[p].stamp}

\* compare_records
ToRemove(seen) == NonDeleted(reg) \ DOMAIN seen

ToAdd(seen) ==
  {p \in DOMAIN seen : p \in NonDeleted(reg) => reg.row[p].stamp # seen[p].stamp}

\* Ids only tell whether there is a row.
OneId == [p \in Paths |-> 1]

LocalForm(deleted, stamp) == [jid |-> NoJid, deleted |-> deleted, stamp |-> stamp]

\* registry::delete(conn, &to_remove)
DeleteRows ==
  /\ Walked /\ ToRemove(pass.seen) # {}
  /\ reg' = InsertLocal(reg, [p \in ToRemove(pass.seen) |-> LocalForm(TRUE, reg.row[p].stamp)], OneId)
  /\ pass' = IF ToAdd(pass.seen) = {} THEN PassIdle ELSE [pass EXCEPT !.pc = "create"]
  /\ UNCHANGED <<now, disk, save, history, edits, saves, faults>>

\* registry::create(conn, &to_add), or nothing to note.
CreateRows ==
  /\ pass.pc = "create" \/ (Walked /\ ToRemove(pass.seen) = {})
  /\ LET added == ToAdd(pass.seen)
     IN  /\ reg' = InsertLocal(reg, [p \in added |-> LocalForm(FALSE, pass.seen[p].stamp)], OneId)
         /\ basis' = [p \in Paths |-> IF p \in added THEN pass.seen[p].data ELSE basis[p]]
  /\ pass' = PassIdle
  /\ UNCHANGED <<now, disk, save, had, dirty, edits, saves, faults>>

\* A file is gone when it is looked at, the database fails, the process dies.
Fails ==
  /\ pass.pc # "idle" \/ save.pc # "idle"
  /\ faults < MaxFaults
  /\ RunEnds
  /\ faults' = faults + 1
  /\ UNCHANGED <<now, disk, reg, basis, had, edits, saves>>

----------------------------------------------------------------------------
(* The syncer: a downloaded file is created, written, and registered.      *)

\* File::create truncates on the blocking pool, at any moment of a pass too.
SaveCreates(d) ==
  /\ save.pc = "idle" /\ saves < MaxSaves
  /\ Put(d.path, Written(Empty))
  /\ save' = [pc |-> "write", path |-> {d.path}, data |-> d.data, open |-> TRUE]
  /\ saves' = saves + 1
  /\ UNCHANGED <<now, reg, pass, basis, edits, faults>>

SaveWrites ==
  \E p \in save.path :
    /\ save.pc = "write"
    /\ IF save.open THEN Put(p, Written(save.data)) ELSE UNCHANGED <<disk, had, dirty>>
    /\ save' = [save EXCEPT !.pc = "record"]
    /\ UNCHANGED <<now, reg, pass, basis, edits, saves, faults>>

\* Mutant: the next save starts from what this one left.
SaveRecordsLeft ==
  \E p \in save.path :
    /\ save.pc = "record" /\ pass.pc = "idle"
    /\ IF disk[p].there
       THEN /\ reg' = InsertRemote(reg, p, [jid |-> saves, deleted |-> FALSE,
                                            stamp |-> SavedStamp(disk[p])], 1)
            /\ basis' = [basis EXCEPT ![p] = save.data]
            /\ had' = [had EXCEPT ![p] = @ \cup {[second |-> Second(disk[p]), data |-> save.data]}]
            /\ dirty' = dirty \ {p}
       ELSE UNCHANGED <<reg, basis, had, dirty>>
    /\ save' = [save EXCEPT !.pc = "idle"]
    /\ UNCHANGED <<now, disk, pass, edits, saves, faults>>

\* build_file_record and registry::create.  The row stands for the record
\* that was saved, with the stamp of what is on the disk by now.
SaveRecords ==
  \E p \in save.path :
    /\ save.pc = "record" /\ pass.pc = "idle"
    /\ IF disk[p].there
       THEN /\ reg' = InsertRemote(reg, p, [jid |-> saves, deleted |-> FALSE,
                                            stamp |-> SavedStamp(disk[p])], 1)
            /\ basis' = [basis EXCEPT ![p] = save.data]
            /\ had' = [had EXCEPT ![p] = @ \cup {[second |-> Second(disk[p]), data |-> save.data]}]
            /\ dirty' = dirty \ {p}
       ELSE UNCHANGED <<reg, basis, had, dirty>>
    /\ save' = SaveIdle
    /\ UNCHANGED <<now, disk, pass, edits, saves, faults>>

----------------------------------------------------------------------------

User == \E p \in Eligible : \/ \E data \in Contents : UserWrites(p, data)
                             \/ UserDeletes(p)
                             \/ \E q \in Eligible : UserRenames(p, q)

Indexer == StartPass \/ (\E p \in Paths : Visit(p)) \/ DeleteRows \/ CreateRows

Syncer == SaveWrites \/ SaveRecords

Next ==
  \/ Tick \/ User \/ Indexer \/ Syncer \/ Fails
  \/ \E p \in Paths : Unreadable(p)
  \/ \E d \in Downloads : SaveCreates(d)

Spec == Init /\ [][Next]_vars

\* The indexer runs at least every 61 seconds; a save that started goes on.
FairSpec == Spec /\ WF_vars(Indexer) /\ WF_vars(Syncer)

----------------------------------------------------------------------------
(* What should hold.                                                       *)

\* Two contents of p of the same size in the same second: two quick writes, a
\* rename over p, or a user's write between the last write of a save and its
\* row, which then has the stamp of the one and the jid of the other.
Ambiguous(p) ==
  \E x, y \in had[p] :
    x.second = y.second /\ SizeOf[x.data] = SizeOf[y.data] /\ x.data # y.data

\* The newest row of p stands for what the disk has.
Noted(p) ==
  IF p \in Eligible /\ disk[p].there
  THEN ~ reg.row[p].deleted /\ basis[p] = disk[p].data
  ELSE reg.row[p].deleted

\* Whatever the user changed, while passes and saves were under way and where
\* they broke off, the registry has it in the end: comparing whole seconds
\* "does not lose change detection" (indexer.rs:230) but where a path
\* has two contents of one size in a second.
EditsNoted == <>[](\A p \in Paths : Noted(p) \/ Ambiguous(p))

\* A pass notes a path only if the file was touched since it was last looked
\* at or recorded: the indexer does not keep "detecting a change every cycle
\* and uploading the same content forever" (indexer.rs:225).
NoPhantomNotes ==
  [][\A p \in Eligible :
       reg'.row[p] # reg.row[p] /\ pass.pc # "idle" => p \in pass.changed]_vars

\* A file is marked as deleted, for all clients, only if it really was not there
\* at some moment of the pass, or could not be read (compare_records).  A path
\* the client does not index is the exception: once downloaded it is always
\* marked as deleted.
DeletionsAreReal ==
  [][\A p \in Eligible :
       ~ reg.row[p].deleted /\ reg'.row[p].deleted => p \in pass.absent]_vars
=============================================================================
