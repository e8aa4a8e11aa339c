----------------------------- MODULE Lifecycle -----------------------------
(***************************************************************************)
(* One call of run_async after the other on a device (client/src/lib.rs):  *)
(* the indexer, the download loop and the upload loop in one task, what    *)
(* wakes them, and how a run ends - cancelled, or at the first error.      *)
(*                                                                         *)
(* The loops are joined by try_join!: they interleave at awaits only, and  *)
(* the first that fails ends the run and drops the others.  The watcher,   *)
(* the user and whoever cancels the context are other threads: they also   *)
(* act while check_index_once, which never awaits, holds up the task.      *)
(*                                                                         *)
(* What is on the disk is reduced to the changes users made, numbered:     *)
(* noted are those the registry has, uploaded those that are committed.    *)
(* A pass of the syncer is one call that is answered; its requests have    *)
(* a timeout of 60 s each.  Module SyncSystem has the passes in detail.    *)
(***************************************************************************)
EXTENDS Naturals

CONSTANTS ChannelSize,          \* of the events of the indexer (lib.rs)
          WatcherSize,          \* of the events of the watcher (file_watcher.rs)
          MaxChanges, MaxRuns   \* bounds

ASSUME LifecycleAssumption ==
  /\ ChannelSize \in Nat /\ WatcherSize \in Nat
  /\ MaxChanges \in Nat /\ MaxRuns \in Nat

\* How a call to the server, the disk or the database fails, as SyncError
\* tells it: Failed is every other variant.
Refusals == {"Unauthorized", "PaymentRequired", "Failed"}

Results == {"none", "ok", "Unknown", "ChannelSendError"} \cup Refusals

Activities == {"Indexing", "Downloading", "Uploading"}

VARIABLES
  run,        \* the current call of run_async, and what it returned
  cancelled,  \* the token of the context
  idx,        \* the indexer: where it is, and what its scan must see
  dl,         \* the download loop
  up,         \* the upload loop: where it is, and the changes it read
  events,     \* events in the channel from the indexer to the upload loop
  watch,      \* events in the channel from the watcher to the indexer
  changes,    \* how many changes the user has made
  reported, noted, uploaded,  \* those the watcher, the indexer, the syncer got
  status,     \* the last on_status_changed
  refusal,    \* history: the answer that failed a call of this run
  runs

\* What a step of a loop that goes on leaves alone; what no step of a loop
\* touches.
runVars == <<run, refusal, reported>>
outside == <<cancelled, changes, runs>>
vars == <<runVars, outside, idx, dl, up, events, watch, noted, uploaded, status>>

Changes == 1 .. MaxChanges
Made == 1 .. changes

TypeOK ==
  /\ run \in [state : {"off", "on", "over", "failed"}, downloadOnly : BOOLEAN, result : Results]
  /\ cancelled \in BOOLEAN
  /\ idx \in [pc : {"top", "scan", "send", "select", "done"}, must : SUBSET Changes]
  /\ dl \in {"top", "pass", "poll", "done"}
  /\ up \in [pc : {"sleep", "top", "pass", "select", "done"}, rows : SUBSET Changes]
  /\ events \in 0 .. ChannelSize + 1
  /\ watch \in 0 .. WatcherSize + 1
  /\ changes \in 0 .. MaxChanges
  /\ noted \subseteq Changes /\ reported \subseteq Changes /\ uploaded \subseteq Changes
  /\ status \in {"Idle", "Syncing"} \cup Activities
  /\ refusal \in Refusals \cup {"none"}
  /\ runs \in 0 .. MaxRuns

Init ==
  /\ run = [state |-> "off", downloadOnly |-> FALSE, result |-> "none"]
  /\ cancelled = FALSE
  /\ idx = [pc |-> "done", must |-> {}]
  /\ dl = "done"
  /\ up = [pc |-> "done", rows |-> {}]
  /\ events = 0 /\ watch = 0
  /\ changes = 0 /\ reported = {} /\ noted = {} /\ uploaded = {}
  /\ status = "Idle" /\ refusal = "none"
  /\ runs = 0

On == run.state = "on"

----------------------------------------------------------------------------
(* The application, the user, the watcher: other threads.                  *)

\* run_async up to its try_join!: a channel, a watcher and loops of its own.
Start(downloadOnly) ==
  /\ ~ On /\ runs < MaxRuns
  /\ run' = [state |-> "on", downloadOnly |-> downloadOnly, result |-> "none"]
  /\ idx' = [pc |-> "top", must |-> {}]
  /\ dl' = "top"
  /\ up' = [pc |-> IF downloadOnly THEN "done" ELSE "sleep", rows |-> {}]
  /\ events' = 0 /\ watch' = 0 /\ reported' = {}
  /\ status' = "Syncing" /\ refusal' = "none"
  /\ runs' = runs + 1
  /\ UNCHANGED <<cancelled, changes, noted, uploaded>>

\* The watcher or the database cannot be opened: the listener hears nothing.
StartFails ==
  /\ ~ On /\ runs < MaxRuns
  /\ run' = [run EXCEPT !.state = "failed", !.result = "Failed"]
  /\ refusal' = "Failed"
  /\ runs' = runs + 1
  /\ UNCHANGED <<cancelled, changes, reported, idx, dl, up, events, watch, noted, uploaded, status>>

\* SyncContext.cancel; there is no way back.
Cancel ==
  /\ ~ cancelled
  /\ cancelled' = TRUE
  /\ UNCHANGED <<runVars, changes, runs, idx, dl, up, events, watch, noted, uploaded, status>>

Change ==
  /\ changes < MaxChanges
  /\ changes' = changes + 1
  /\ UNCHANGED <<runVars, cancelled, runs, idx, dl, up, events, watch, noted, uploaded, status>>

\* The debouncer sends what it has; its thread waits while the channel is full.
\* There are also events that no change of a recipe is behind.
WatcherReports ==
  /\ On /\ ~ run.downloadOnly
  /\ watch <= WatcherSize
  /\ watch' = watch + 1
  /\ reported' = Made
  /\ UNCHANGED <<run, refusal, outside, idx, dl, up, events, noted, uploaded, status>>

----------------------------------------------------------------------------
(* How a run ends.                                                         *)

\* Loops and channels are gone.
Dropped ==
  /\ idx' = [pc |-> "done", must |-> {}]
  /\ dl' = "done"
  /\ up' = [pc |-> "done", rows |-> {}]
  /\ events' = 0 /\ watch' = 0 /\ reported' = {}

\* try_join! is done: what run_async returns, and tells on_complete.
EndRun(result) ==
  /\ run' = [run EXCEPT !.state = "over", !.result = result]
  /\ Dropped

\* A call of one of the loops has failed.
FailRun(answer, result) ==
  /\ EndRun(result)
  /\ refusal' = answer
  /\ UNCHANGED status

Join ==
  /\ On
  /\ idx.pc = "done" /\ dl = "done" /\ up.pc = "done"
  /\ EndRun("ok")
  /\ UNCHANGED <<refusal, outside, noted, uploaded, status>>

\* The other loops run only at the awaits of this one.
TaskIsFree == On /\ idx.pc # "scan"

----------------------------------------------------------------------------
(* The indexer: indexer::run.                                              *)

\* The receiver lives as long as the upload loop, or as the whole syncer if
\* there is none.
ReceiverIsOpen == IF run.downloadOnly THEN dl # "done" ELSE up.pc # "done"

\* Mutant: the token is not looked at.
IdxTopAnyway ==
  /\ TaskIsFree /\ idx.pc = "top"
  /\ idx' = [pc |-> "scan", must |-> Made] /\ status' = "Indexing"
  /\ UNCHANGED <<runVars, outside, dl, up, events, watch, noted, uploaded>>

\* The token, then the beginning of check_index_once.
IdxTop ==
  /\ TaskIsFree /\ idx.pc = "top"
  /\ IF cancelled
     THEN idx' = [idx EXCEPT !.pc = "done"] /\ UNCHANGED status
     ELSE idx' = [pc |-> "scan", must |-> Made] /\ status' = "Indexing"
  /\ UNCHANGED <<runVars, outside, dl, up, events, watch, noted, uploaded>>

\* Mutant: Idle is reported after a pass that found something only.
IdxSleepsQuietly ==
  /\ idx' = [pc |-> "select", must |-> {}]
  /\ UNCHANGED status

IdxSleeps ==
  /\ idx' = [pc |-> "select", must |-> {}]
  /\ status' = "Idle"

\* The rows are in the registry, the event is in the channel.  The send is
\* over only when the channel holds no more than its size.
IdxSends ==
  /\ events' = events + 1
  /\ IF events < ChannelSize
     THEN IdxSleeps
     ELSE idx' = [pc |-> "send", must |-> {}] /\ UNCHANGED status

\* The end of check_index_once.  A change made during the scan may be seen.
\* Sending fails if the receiver is gone.
IdxScanned ==
  /\ On /\ idx.pc = "scan"
  /\ \E late \in SUBSET (Made \ idx.must) : noted' = noted \cup idx.must \cup late
  /\ \/ noted' = noted /\ IdxSleeps /\ UNCHANGED <<runVars, dl, up, events, watch>>
     \/ noted' # noted /\ ReceiverIsOpen /\ IdxSends /\ UNCHANGED <<runVars, dl, up, watch>>
     \/ noted' # noted /\ ~ ReceiverIsOpen /\ EndRun("ChannelSendError") /\ UNCHANGED <<refusal, status>>
  /\ UNCHANGED <<outside, uploaded>>

IdxFails ==
  /\ On /\ idx.pc = "scan"
  /\ FailRun("Failed", "Failed")
  /\ UNCHANGED <<outside, noted, uploaded>>

\* Mutant: the send does not wait for the channel.
IdxSentAtOnce ==
  /\ TaskIsFree /\ idx.pc = "send"
  /\ IdxSleeps
  /\ UNCHANGED <<runVars, outside, dl, up, events, watch, noted, uploaded>>

\* The send is over: there is room, or nobody to wait for.
IdxSent ==
  /\ TaskIsFree /\ idx.pc = "send"
  /\ events <= ChannelSize \/ ~ ReceiverIsOpen
  /\ IdxSleeps
  /\ UNCHANGED <<runVars, outside, dl, up, events, watch, noted, uploaded>>

\* The select: any branch that is ready.
IdxWakes ==
  /\ TaskIsFree /\ idx.pc = "select"
  /\ \/ cancelled /\ idx' = [idx EXCEPT !.pc = "done"] /\ UNCHANGED watch
     \/ idx' = [idx EXCEPT !.pc = "top"] /\ UNCHANGED watch
     \/ watch > 0 /\ watch' = watch - 1 /\ idx' = [idx EXCEPT !.pc = "top"]
  /\ UNCHANGED <<runVars, outside, dl, up, events, noted, uploaded, status>>

Indexer == IdxTop \/ IdxScanned \/ IdxFails \/ IdxSent \/ IdxWakes

----------------------------------------------------------------------------
(* The download loop.                                                      *)

\* Mutant: only a refused token keeps its type.
TypedUnauthorized(answer) == IF answer = "Unauthorized" THEN answer ELSE "Unknown"

\* What check_download_once failed with, as the loop passes it on.
Typed(answer) == IF answer \in {"Unauthorized", "PaymentRequired"} THEN answer ELSE "Unknown"

DlTop ==
  /\ TaskIsFree /\ dl = "top"
  /\ IF cancelled
     THEN dl' = "done" /\ UNCHANGED status
     ELSE dl' = "pass" /\ status' = "Downloading"
  /\ UNCHANGED <<runVars, outside, idx, up, events, watch, noted, uploaded>>

\* check_download_once
DlPass ==
  /\ TaskIsFree /\ dl = "pass"
  /\ \/ dl' = "poll" /\ status' = "Idle" /\ UNCHANGED <<runVars, idx, up, events, watch>>
     \/ \E answer \in Refusals : FailRun(answer, Typed(answer))
  /\ UNCHANGED <<outside, noted, uploaded>>

\* The select: cancelled, or the poll is over.
DlPoll ==
  /\ TaskIsFree /\ dl = "poll"
  /\ \/ /\ dl' \in IF cancelled THEN {"top", "done"} ELSE {"top"}
        /\ UNCHANGED <<runVars, idx, up, events, watch, status>>
     \/ \E answer \in Refusals : FailRun(answer, answer)
  /\ UNCHANGED <<outside, noted, uploaded>>

Downloader == DlTop \/ DlPass \/ DlPoll

----------------------------------------------------------------------------
(* The upload loop.                                                        *)

\* The five seconds at the start: cancelling does not cut them short.
UpSlept ==
  /\ TaskIsFree /\ up.pc = "sleep"
  /\ up' = [up EXCEPT !.pc = "top"]
  /\ UNCHANGED <<runVars, outside, idx, dl, events, watch, noted, uploaded, status>>

\* Mutant: the token is not looked at.
UpTopAnyway ==
  /\ TaskIsFree /\ up.pc = "top"
  /\ up' = [pc |-> "pass", rows |-> noted \ uploaded] /\ status' = "Uploading"
  /\ UNCHANGED <<runVars, outside, idx, dl, events, watch, noted, uploaded>>

\* The token, then updated_locally.  With nothing to upload the pass is over.
UpTop ==
  /\ TaskIsFree /\ up.pc = "top"
  /\ LET rows == noted \ uploaded
     IN  \/ cancelled /\ up' = [up EXCEPT !.pc = "done"] /\ UNCHANGED status
         \/ ~ cancelled /\ rows = {} /\ up' = [pc |-> "select", rows |-> {}] /\ status' = "Idle"
         \/ ~ cancelled /\ rows # {} /\ up' = [pc |-> "pass", rows |-> rows] /\ status' = "Uploading"
  /\ UNCHANGED <<runVars, outside, idx, dl, events, watch, noted, uploaded>>

\* The registry cannot be read.
UpQueryFails ==
  /\ TaskIsFree /\ up.pc = "top" /\ ~ cancelled
  /\ EndRun("Failed")
  /\ refusal' = "Failed" /\ status' = "Uploading"
  /\ UNCHANGED <<outside, noted, uploaded>>

\* Mutant: events that came during the pass are cleared after it.
UpCommittedAndDrained ==
  /\ TaskIsFree /\ up.pc = "pass"
  /\ uploaded' = uploaded \cup up.rows
  /\ up' = [pc |-> "select", rows |-> {}]
  /\ status' = "Idle" /\ events' = 0
  /\ UNCHANGED <<runVars, outside, idx, dl, watch, noted>>

\* Every row was committed.
UpCommitted ==
  /\ TaskIsFree /\ up.pc = "pass"
  /\ uploaded' = uploaded \cup up.rows
  /\ up' = [pc |-> "select", rows |-> {}]
  /\ status' = "Idle"
  /\ UNCHANGED <<runVars, outside, idx, dl, events, watch, noted>>

\* Some needed chunks, which have been sent: once more, without a rest.
UpNeeded ==
  /\ TaskIsFree /\ up.pc = "pass"
  /\ \E some \in (SUBSET up.rows) \ {up.rows} : uploaded' = uploaded \cup some
  /\ up' = [pc |-> "top", rows |-> {}]
  /\ UNCHANGED <<runVars, outside, idx, dl, events, watch, noted, status>>

UpFails ==
  /\ TaskIsFree /\ up.pc = "pass"
  /\ \E some \in SUBSET up.rows : uploaded' = uploaded \cup some
  /\ \E answer \in Refusals : FailRun(answer, answer)
  /\ UNCHANGED <<outside, noted>>

\* The select: cancelled, or the timer ...
UpWakes ==
  /\ TaskIsFree /\ up.pc = "select"
  /\ \/ cancelled /\ up' = [up EXCEPT !.pc = "done"]
     \/ up' = [up EXCEPT !.pc = "top"]
  /\ UNCHANGED <<runVars, outside, idx, dl, events, watch, noted, uploaded, status>>

\* Mutant: the loop rests on the timer alone.
UpTakesNone == FALSE

\* ... or an event of the indexer.
UpTakes ==
  /\ TaskIsFree /\ up.pc = "select"
  /\ events > 0 /\ events' = events - 1
  /\ up' = [up EXCEPT !.pc = "top"]
  /\ UNCHANGED <<runVars, outside, idx, dl, watch, noted, uploaded, status>>

Uploader == UpSlept \/ UpTop \/ UpQueryFails \/ UpCommitted \/ UpNeeded \/ UpFails \/ UpWakes \/ UpTakes

----------------------------------------------------------------------------

Outside ==
  \/ \E downloadOnly \in BOOLEAN : Start(downloadOnly)
  \/ StartFails \/ Cancel \/ Change \/ WatcherReports

Next == Outside \/ Join \/ Indexer \/ Downloader \/ Uploader

Spec == Init /\ [][Next]_vars

\* The executor polls every loop that can go on: timers fire, and requests
\* are answered or time out.  A select picks among the branches that are ready
\* at random, so an event that waits again and again is taken in the end; and
\* chunks are not needed for ever, as each pass sends what the server lacked
\* (UploadsConverge of module ChunkStore).  The application, the user and the
\* watcher owe nothing.
Fairness ==
  /\ WF_vars(Join) /\ WF_vars(Indexer) /\ WF_vars(Downloader) /\ WF_vars(Uploader)
  /\ SF_vars(UpTakes) /\ SF_vars(UpCommitted)

FairSpec == Spec /\ Fairness

----------------------------------------------------------------------------
(* What should hold.                                                       *)

\* No wake-up is lost between the three threads of control (indexer::run,
\* upload_loop; "TODO test that it doesn't cancle stream", syncer.rs:168):
\* with no event left in its channel, a sleeping indexer has noted whatever
\* the watcher reported, and a sleeping upload loop has committed whatever the
\* indexer noted.  Neither waits for its timer with work at hand.
NoLostWakeUps ==
  On =>
    /\ idx.pc = "select" /\ watch = 0 => reported \subseteq noted
    /\ up.pc = "select" /\ events = 0 => noted \subseteq uploaded

\* A run fails only where a call has failed: shutting down is no error, in
\* whatever order the loops notice, though the receiver of the indexer's
\* events may be gone before the indexer is.
OnlyFailedCallsFailRuns ==
  run.state = "over" => (run.result = "ok" <=> refusal = "none")

\* "402 must survive to the caller typed" (syncer.rs:105), and so must 401,
\* whichever loop meets it.
RefusalsStayTyped ==
  run.state = "over" /\ refusal \in {"Unauthorized", "PaymentRequired"} => run.result = refusal

\* An activity that was reported last is going on, until the run is cancelled:
\* "Indexing local files to detect changes" (models.rs:98), and so on.  This is
\* about the three activities; for Idle the like does not hold, see below.
Busy(activity) ==
  CASE activity = "Indexing"    -> idx.pc \in {"scan", "send"}
    [] activity = "Downloading" -> dl = "pass"
    [] activity = "Uploading"   -> up.pc \in {"pass", "top"}

StatusNamesAnActivity ==
  On /\ ~ cancelled /\ status \in Activities => Busy(status)

\* "No sync activity is currently happening" (models.rs:94), "Not syncing"
\* (client/README.md:248).  But each loop reports Idle at the end of its own
\* pass, whatever the others are doing.
IdleMeansNotSyncing ==
  On /\ status = "Idle" => idx.pc # "scan" /\ dl # "pass" /\ up.pc # "pass"

\* "Call context.cancel() before app termination" (client/README.md:260): a
\* cancelled run ends, whatever the server answers and wherever the loops are.
CancelledRunsEnd == cancelled ~> ~ On

\* The indexer "runs both on interval and on any event" (indexer.rs:36): with
\* an upload loop to take its events, it notes every change while the run
\* lasts.  (With download_only nobody takes them, and it stops for good in the
\* send that overfills the channel.)
ChangesAreNoted ==
  \A n \in Changes : (On /\ ~ run.downloadOnly /\ n <= changes) ~> (n \in noted \/ ~ On)
=============================================================================
