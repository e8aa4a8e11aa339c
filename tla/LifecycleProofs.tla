-------------------------- MODULE LifecycleProofs --------------------------
(***************************************************************************)
(* What module Lifecycle promises for channels of any size and any number  *)
(* of changes and runs.  Each of its safety properties is inductive with   *)
(* few additions: RunInv says how a run is going and how it ended, WakeInv *)
(* what a loop that sleeps, or is about to, has still to be told.          *)
(***************************************************************************)
EXTENDS Lifecycle, TLAPS

\* The indexer sends only when the last event has found room; or nobody
\* receives any more, and then it does not scan either.
EventsFit == On /\ idx.pc # "send" /\ ReceiverIsOpen => events <= ChannelSize

\* A run that is on has met no error; a loop is over only after the
\* cancellation; and no loop ends while the indexer scans, so that its event
\* finds a receiver.
RunInv ==
  /\ On =>
       /\ refusal = "none"
       /\ ~ ReceiverIsOpen => cancelled
       /\ idx.pc = "scan" => ReceiverIsOpen
  /\ OnlyFailedCallsFailRuns
  /\ RefusalsStayTyped

\* What the watcher reported is noted, or in the channel, or will be seen by
\* the scan that is due or under way; what is noted is uploaded, or there is
\* an event, or the pass that is due or under way has it.
WakeInv ==
  /\ On => reported \subseteq Made
  /\ On => \/ reported \subseteq noted
           \/ watch > 0
           \/ idx.pc \in {"top", "done"}
           \/ idx.pc = "scan" /\ reported \subseteq noted \cup idx.must
  /\ On => \/ noted \subseteq uploaded
           \/ events > 0
           \/ up.pc \in {"sleep", "top", "done"}
           \/ up.pc = "pass" /\ noted \ uploaded \subseteq up.rows

\* The reported activity is going on.
StatusInv ==
  On /\ ~ cancelled =>
    /\ status = "Indexing" => idx.pc \in {"scan", "send"}
    /\ status = "Downloading" => dl = "pass"
    /\ status = "Uploading" => up.pc \in {"pass", "top"}

----------------------------------------------------------------------------
(* Types.                                                                  *)

\* Users make no more changes than the bound.
LEMMA MadeAreChanges == TypeOK => Made \subseteq Changes
BY LifecycleAssumption DEF TypeOK, Made, Changes

\* The initial state has the types.
LEMMA TypeInit == Init => TypeOK
<1> SUFFICES ASSUME Init PROVE TypeOK
  OBVIOUS
<1>2. run \in [state : {"off", "on", "over", "failed"}, downloadOnly : BOOLEAN, result : Results]
  BY DEF Init, Results
<1>3. idx \in [pc : {"top", "scan", "send", "select", "done"}, must : SUBSET Changes]
  BY DEF Init
<1>4. up \in [pc : {"sleep", "top", "pass", "select", "done"}, rows : SUBSET Changes]
  BY DEF Init
<1>5. /\ events \in 0 .. ChannelSize + 1 /\ watch \in 0 .. WatcherSize + 1
      /\ changes \in 0 .. MaxChanges /\ runs \in 0 .. MaxRuns
  BY LifecycleAssumption DEF Init
<1> QED BY <1>2, <1>3, <1>4, <1>5 DEF Init, TypeOK

\* What ends a run keeps them.
LEMMA EndRunType ==
  ASSUME TypeOK, NEW result \in Results, EndRun(result)
  PROVE  /\ run' \in [state : {"off", "on", "over", "failed"}, downloadOnly : BOOLEAN, result : Results]
         /\ idx' \in [pc : {"top", "scan", "send", "select", "done"}, must : SUBSET Changes]
         /\ dl' \in {"top", "pass", "poll", "done"}
         /\ up' \in [pc : {"sleep", "top", "pass", "select", "done"}, rows : SUBSET Changes]
         /\ events' \in 0 .. ChannelSize + 1
         /\ watch' \in 0 .. WatcherSize + 1
         /\ reported' \subseteq Changes
<1>2. run' \in [state : {"off", "on", "over", "failed"}, downloadOnly : BOOLEAN, result : Results]
  BY DEF TypeOK, EndRun
<1>3. events' = 0 /\ watch' = 0 /\ events' \in 0 .. ChannelSize + 1 /\ watch' \in 0 .. WatcherSize + 1
  BY LifecycleAssumption DEF EndRun, Dropped
<1> QED BY <1>2, <1>3 DEF EndRun, Dropped

\* The application, the user and the watcher keep the types.
LEMMA TypeOutside == ASSUME TypeOK, Outside PROVE TypeOK'
<1>1. ASSUME NEW downloadOnly \in BOOLEAN, Start(downloadOnly) PROVE TypeOK'
  <2>2. run' \in [state : {"off", "on", "over", "failed"}, downloadOnly : BOOLEAN, result : Results]
    BY <1>1 DEF Start, Results
  <2> QED BY <1>1, <2>2, LifecycleAssumption DEF TypeOK, Start
<1>2. CASE StartFails
  <2>1. runs' \in 0 .. MaxRuns
    BY <1>2, LifecycleAssumption DEF TypeOK, StartFails
  <2>2. run' \in [state : {"off", "on", "over", "failed"}, downloadOnly : BOOLEAN, result : Results]
    BY <1>2 DEF TypeOK, StartFails, Results, Refusals
  <2> QED BY <1>2, <2>1, <2>2 DEF TypeOK, StartFails, Refusals
<1>3. CASE Cancel
  BY <1>3 DEF TypeOK, Cancel, runVars
<1>4. CASE Change
  BY <1>4, LifecycleAssumption DEF TypeOK, Change, runVars
<1>5. CASE WatcherReports
  BY <1>5, MadeAreChanges, LifecycleAssumption DEF TypeOK, WatcherReports, outside
<1> QED BY <1>1, <1>2, <1>3, <1>4, <1>5 DEF Outside

\* The end of a run keeps the types.
LEMMA TypeJoin == ASSUME TypeOK, Join PROVE TypeOK'
<1>1. "ok" \in Results
  BY DEF Results
<1> QED BY <1>1, EndRunType DEF TypeOK, Join, outside

\* A call that fails keeps the types.
LEMMA TypeFailRun ==
  ASSUME TypeOK, NEW answer \in Refusals, NEW result \in Results, FailRun(answer, result),
         uploaded' \subseteq Changes, UNCHANGED <<outside, noted>>
  PROVE  TypeOK'
BY EndRunType DEF TypeOK, FailRun, outside

\* So does the indexer.
LEMMA TypeIndexer == ASSUME TypeOK, EventsFit, Indexer PROVE TypeOK'
<1>1. CASE IdxTop
  BY <1>1, MadeAreChanges DEF TypeOK, IdxTop, runVars, outside, Activities
<1>2. CASE IdxScanned
  <2>1. noted' \subseteq Changes
    BY <1>2, MadeAreChanges DEF TypeOK, IdxScanned
  <2>2. CASE IdxSleeps /\ UNCHANGED <<runVars, dl, up, events, watch>>
    BY <1>2, <2>1, <2>2 DEF TypeOK, IdxScanned, IdxSleeps, runVars, outside
  <2>3. CASE ReceiverIsOpen /\ IdxSends /\ UNCHANGED <<runVars, dl, up, watch>>
    <3>1. events <= ChannelSize
      BY <1>2, <2>3 DEF EventsFit, IdxScanned
    <3>2. events' \in 0 .. ChannelSize + 1
      BY <2>3, <3>1, LifecycleAssumption DEF TypeOK, IdxSends
    <3> QED BY <1>2, <2>1, <2>3, <3>2 DEF TypeOK, IdxScanned, IdxSends, IdxSleeps, runVars, outside
  <2>4. CASE EndRun("ChannelSendError") /\ UNCHANGED <<refusal, status>>
    <3>1. "ChannelSendError" \in Results
      BY DEF Results
    <3> QED BY <1>2, <2>1, <2>4, <3>1, EndRunType DEF TypeOK, IdxScanned, outside
  <2> QED BY <1>2, <2>2, <2>3, <2>4 DEF IdxScanned
<1>3. CASE IdxFails
  BY <1>3, TypeFailRun DEF TypeOK, IdxFails, Refusals, Results
<1>4. CASE IdxSent
  BY <1>4 DEF TypeOK, IdxSent, IdxSleeps, runVars, outside
<1>5. CASE IdxWakes
  BY <1>5, LifecycleAssumption DEF TypeOK, IdxWakes, runVars, outside
<1> QED BY <1>1, <1>2, <1>3, <1>4, <1>5 DEF Indexer

\* And the download loop.
LEMMA TypeDownloader == ASSUME TypeOK, Downloader PROVE TypeOK'
<1>1. CASE DlTop
  BY <1>1 DEF TypeOK, DlTop, runVars, outside, Activities
<1>2. CASE DlPass
  <2>1. ASSUME NEW answer \in Refusals, FailRun(answer, Typed(answer)) PROVE TypeOK'
    BY <1>2, <2>1, TypeFailRun DEF TypeOK, DlPass, Typed, Refusals, Results
  <2> QED BY <1>2, <2>1 DEF TypeOK, DlPass, runVars, outside
<1>3. CASE DlPoll
  <2>1. ASSUME NEW answer \in Refusals, FailRun(answer, answer) PROVE TypeOK'
    BY <1>3, <2>1, TypeFailRun DEF TypeOK, DlPoll, Results
  <2> QED BY <1>3, <2>1 DEF TypeOK, DlPoll, runVars, outside
<1> QED BY <1>1, <1>2, <1>3 DEF Downloader

\* And the upload loop.
LEMMA TypeUploader == ASSUME TypeOK, Uploader PROVE TypeOK'
<1>1. CASE UpSlept
  BY <1>1 DEF TypeOK, UpSlept, runVars, outside
<1>2. CASE UpTop
  BY <1>2 DEF TypeOK, UpTop, runVars, outside, Activities
<1>3. CASE UpCommitted
  BY <1>3 DEF TypeOK, UpCommitted, runVars, outside
<1>4. CASE UpNeeded
  BY <1>4 DEF TypeOK, UpNeeded, runVars, outside
<1>5. CASE UpFails
  <2>1. uploaded' \subseteq Changes
    BY <1>5 DEF TypeOK, UpFails
  <2>2. PICK answer \in Refusals : FailRun(answer, answer)
    BY <1>5 DEF UpFails
  <2> QED BY <1>5, <2>1, <2>2, TypeFailRun DEF UpFails, Results
<1>6. CASE UpWakes
  BY <1>6 DEF TypeOK, UpWakes, runVars, outside
<1>7. CASE UpTakes
  BY <1>7, LifecycleAssumption DEF TypeOK, UpTakes, runVars, outside
<1>8. CASE UpQueryFails
  <2>1. "Failed" \in Results
    BY DEF Results, Refusals
  <2> QED BY <1>8, <2>1, EndRunType DEF TypeOK, UpQueryFails, outside, Refusals, Activities
<1> QED BY <1>1, <1>2, <1>3, <1>4, <1>5, <1>6, <1>7, <1>8 DEF Uploader

\* Every step keeps the types.
LEMMA TypeStep == TypeOK /\ EventsFit /\ [Next]_vars => TypeOK'
<1> SUFFICES ASSUME TypeOK, EventsFit, [Next]_vars PROVE TypeOK'
  OBVIOUS
<1>1. CASE UNCHANGED vars
  BY <1>1 DEF TypeOK, vars, runVars, outside
<1> QED BY <1>1, TypeOutside, TypeJoin, TypeIndexer, TypeDownloader, TypeUploader DEF Next

\* The end of a run leaves nothing to say of a run that is on.
LEMMA EndRunIsOff ==
  ASSUME TypeOK, NEW result, EndRun(result)
  PROVE  ~ On' /\ run'.state = "over" /\ run'.result = result
BY DEF TypeOK, EndRun, On

\* Every step leaves room for the next event.
LEMMA EventsFitStep == TypeOK /\ EventsFit /\ [Next]_vars => EventsFit'
<1> SUFFICES ASSUME TypeOK, EventsFit, [Next]_vars PROVE EventsFit'
  OBVIOUS
<1>1. ASSUME NEW downloadOnly \in BOOLEAN, Start(downloadOnly) PROVE EventsFit'
  BY <1>1, LifecycleAssumption DEF EventsFit, Start
<1>2. CASE StartFails
  BY <1>2 DEF TypeOK, EventsFit, StartFails, On
<1>3. CASE Cancel \/ Change \/ WatcherReports
  BY <1>3 DEF EventsFit, Cancel, Change, WatcherReports, On, ReceiverIsOpen, runVars, outside
<1>4. CASE Join
  BY <1>4, EndRunIsOff DEF EventsFit, Join
<1>5. CASE Indexer
  <2>1. CASE IdxTop \/ IdxSent \/ IdxWakes
    BY <1>5, <2>1 DEF TypeOK, EventsFit, IdxTop, IdxSent, IdxWakes, IdxSleeps, On,
                      ReceiverIsOpen, TaskIsFree, runVars, outside
  <2>2. CASE IdxScanned
    <3>1. CASE IdxSleeps /\ UNCHANGED <<runVars, dl, up, events, watch>>
      BY <2>2, <3>1 DEF TypeOK, EventsFit, IdxScanned, IdxSleeps, On, ReceiverIsOpen, runVars
    <3>2. CASE IdxSends /\ UNCHANGED <<runVars, dl, up, watch>>
      BY <2>2, <3>2, LifecycleAssumption DEF TypeOK, EventsFit, IdxScanned, IdxSends, IdxSleeps
    <3>3. CASE EndRun("ChannelSendError")
      BY <3>3, EndRunIsOff DEF EventsFit
    <3> QED BY <2>2, <3>1, <3>2, <3>3 DEF IdxScanned
  <2>3. CASE IdxFails
    BY <2>3, EndRunIsOff DEF EventsFit, IdxFails, FailRun
  <2> QED BY <1>5, <2>1, <2>2, <2>3 DEF Indexer
<1>6. CASE Downloader
  <2>1. ASSUME NEW answer, NEW result, FailRun(answer, result) PROVE EventsFit'
    BY <2>1, EndRunIsOff DEF EventsFit, FailRun
  <2> QED BY <1>6, <2>1 DEF TypeOK, EventsFit, Downloader, DlTop, DlPass, DlPoll, On,
                            ReceiverIsOpen, runVars
<1>7. CASE Uploader
  <2>1. CASE UpFails \/ UpQueryFails
    BY <2>1, EndRunIsOff DEF EventsFit, UpFails, UpQueryFails, FailRun
  <2>2. CASE UpSlept \/ UpTop \/ UpCommitted \/ UpNeeded
    BY <2>2 DEF TypeOK, EventsFit, UpSlept, UpTop, UpCommitted, UpNeeded,
                On, ReceiverIsOpen, runVars
  <2>3. CASE UpWakes \/ UpTakes
    BY <2>3, LifecycleAssumption DEF TypeOK, EventsFit, UpWakes, UpTakes, On, ReceiverIsOpen, runVars
  <2> QED BY <1>7, <2>1, <2>2, <2>3 DEF Uploader
<1>8. CASE UNCHANGED vars
  BY <1>8 DEF EventsFit, On, ReceiverIsOpen, vars, runVars
<1> QED BY <1>1, <1>2, <1>3, <1>4, <1>5, <1>6, <1>7, <1>8 DEF Next, Outside

TypeInv == TypeOK /\ EventsFit

\* Types and room for events, together, are inductive.
LEMMA TypeInvariant == Spec => []TypeInv
<1>1. Init => TypeInv
  BY TypeInit DEF Init, TypeInv, EventsFit, On
<1>2. TypeInv /\ [Next]_vars => TypeInv'
  BY TypeStep, EventsFitStep DEF TypeInv
<1> QED BY <1>1, <1>2, PTL DEF Spec

\* Every reachable state has the types: the channels never hold more than
\* their senders may leave in them (run_async and its loops).
THEOREM TypesOK == Spec => []TypeOK
BY TypeInvariant, PTL DEF TypeInv

----------------------------------------------------------------------------
(* How a run ends.                                                         *)

\* A run that ends with the result its last call, or none, explains.
LEMMA EndRunExplained ==
  ASSUME TypeOK, NEW result, EndRun(result), result = "ok" <=> refusal' = "none",
         refusal' \in {"Unauthorized", "PaymentRequired"} => result = refusal'
  PROVE  RunInv'
BY EndRunIsOff DEF RunInv, OnlyFailedCallsFailRuns, RefusalsStayTyped

\* Every step keeps RunInv.
LEMMA RunStep == TypeOK /\ RunInv /\ [Next]_vars => RunInv'
<1> SUFFICES ASSUME TypeOK, RunInv, [Next]_vars PROVE RunInv'
  OBVIOUS
<1> USE DEF OnlyFailedCallsFailRuns, RefusalsStayTyped
<1>1. ASSUME NEW downloadOnly \in BOOLEAN, Start(downloadOnly) PROVE RunInv'
  BY <1>1 DEF RunInv, Start, On, ReceiverIsOpen
<1>2. CASE StartFails
  BY <1>2 DEF TypeOK, RunInv, StartFails, On
<1>3. CASE Cancel \/ Change \/ WatcherReports
  BY <1>3 DEF TypeOK, RunInv, Cancel, Change, WatcherReports, On, ReceiverIsOpen, runVars, outside
<1>4. CASE Join
  BY <1>4, EndRunExplained DEF RunInv, Join
<1>5. CASE Indexer
  <2>1. CASE IdxTop
    BY <2>1 DEF TypeOK, RunInv, IdxTop, On, ReceiverIsOpen, TaskIsFree, runVars, outside
  <2>2. CASE IdxSent \/ IdxWakes
    BY <2>2 DEF TypeOK, RunInv, IdxSent, IdxWakes, IdxSleeps, On,
                ReceiverIsOpen, TaskIsFree, runVars, outside
  <2>3. CASE IdxScanned
    <3>1. ReceiverIsOpen
      BY <2>3 DEF IdxScanned, RunInv
    <3>2. (IdxSleeps \/ IdxSends) /\ UNCHANGED <<runVars, dl, up, outside>>
      BY <2>3, <3>1 DEF IdxScanned
    <3> QED BY <3>1, <3>2 DEF TypeOK, RunInv, IdxSleeps, IdxSends, On, ReceiverIsOpen, runVars, outside
  <2>4. CASE IdxFails
    BY <2>4, EndRunExplained DEF IdxFails, FailRun
  <2> QED BY <1>5, <2>1, <2>2, <2>3, <2>4 DEF Indexer
<1>6. CASE Downloader
  <2>1. CASE DlTop
    BY <2>1 DEF TypeOK, RunInv, DlTop, On, ReceiverIsOpen, TaskIsFree, runVars, outside
  <2>2. CASE DlPass
    <3>1. ASSUME NEW answer \in Refusals, FailRun(answer, Typed(answer)) PROVE RunInv'
      BY <3>1, EndRunExplained DEF FailRun, Typed, Refusals
    <3> QED BY <2>2, <3>1 DEF TypeOK, RunInv, DlPass, On, ReceiverIsOpen, TaskIsFree, runVars, outside
  <2>3. CASE DlPoll
    <3>1. ASSUME NEW answer \in Refusals, FailRun(answer, answer) PROVE RunInv'
      BY <3>1, EndRunExplained DEF FailRun, Refusals
    <3> QED BY <2>3, <3>1 DEF TypeOK, RunInv, DlPoll, On, ReceiverIsOpen, TaskIsFree, runVars, outside
  <2> QED BY <1>6, <2>1, <2>2, <2>3 DEF Downloader
<1>7. CASE Uploader
  <2>1. CASE UpFails \/ UpQueryFails
    BY <2>1, EndRunExplained DEF UpFails, UpQueryFails, FailRun, Refusals
  <2>2. CASE UpTop \/ UpWakes
    BY <2>2 DEF TypeOK, RunInv, UpTop, UpWakes, On, ReceiverIsOpen, TaskIsFree, runVars, outside
  <2>3. CASE UpSlept \/ UpCommitted \/ UpNeeded \/ UpTakes
    BY <2>3 DEF TypeOK, RunInv, UpSlept, UpCommitted, UpNeeded, UpTakes,
                On, ReceiverIsOpen, TaskIsFree, runVars, outside
  <2> QED BY <1>7, <2>1, <2>2, <2>3 DEF Uploader
<1>8. CASE UNCHANGED vars
  BY <1>8 DEF RunInv, On, ReceiverIsOpen, vars, runVars, outside
<1> QED BY <1>1, <1>2, <1>3, <1>4, <1>5, <1>6, <1>7, <1>8 DEF Next, Outside

\* RunInv is inductive, given the types.
LEMMA RunInvariant == Spec => []RunInv
<1>1. Init => RunInv
  BY DEF Init, RunInv, On, OnlyFailedCallsFailRuns, RefusalsStayTyped
<1> QED BY <1>1, RunStep, TypesOK, PTL DEF Spec

\* Shutting down is no error: a run fails only if one of its calls did, for
\* channels of any size and in whatever order the loops end (try_join! in
\* run_async, the send of indexer::run).
THEOREM ShuttingDownIsNoError == Spec => []OnlyFailedCallsFailRuns
BY RunInvariant, PTL DEF RunInv

\* 401 and 402 reach the caller as such, whichever loop meets them
\* (download_loop's match, try_join! in run_async).
THEOREM RefusalsReachTheCaller == Spec => []RefusalsStayTyped
BY RunInvariant, PTL DEF RunInv

----------------------------------------------------------------------------
(* Wake-ups.                                                               *)

\* What no run is concerned with holds while none is on.
LEMMA EndRunWakes ==
  ASSUME TypeOK, NEW result, EndRun(result)
  PROVE  WakeInv'
BY EndRunIsOff DEF WakeInv

\* Every step keeps WakeInv.
LEMMA WakeStep == TypeOK /\ WakeInv /\ [Next]_vars => WakeInv'
<1> SUFFICES ASSUME TypeOK, WakeInv, [Next]_vars PROVE WakeInv'
  OBVIOUS
<1>1. ASSUME NEW downloadOnly \in BOOLEAN, Start(downloadOnly) PROVE WakeInv'
  BY <1>1 DEF WakeInv, Start, On
<1>2. CASE StartFails
  BY <1>2 DEF TypeOK, WakeInv, StartFails, On
<1>3. CASE Cancel
  BY <1>3 DEF WakeInv, Cancel, On, Made, runVars
<1>4. CASE Change
  BY <1>4, LifecycleAssumption DEF TypeOK, WakeInv, Change, On, Made, runVars
<1>5. CASE WatcherReports
  BY <1>5, LifecycleAssumption DEF TypeOK, WakeInv, WatcherReports, On, Made, outside
<1>6. CASE Join
  BY <1>6, EndRunWakes DEF Join
<1>7. CASE Indexer
  <2>1. CASE IdxTop
    BY <2>1 DEF TypeOK, WakeInv, IdxTop, On, Made, runVars, outside
  <2>2. CASE IdxScanned
    <3>1. noted \subseteq noted' /\ idx.must \subseteq noted'
      BY <2>2 DEF IdxScanned
    <3>2. ASSUME UNCHANGED runVars, UNCHANGED <<up, outside, uploaded>>, idx'.pc \in {"select", "send"},
                 (noted' = noted /\ events' = events) \/ events' > 0,
                 UNCHANGED watch
          PROVE  WakeInv'
      BY <2>2, <3>1, <3>2 DEF TypeOK, WakeInv, IdxScanned, On, Made, runVars, outside
    <3>3. CASE noted' = noted /\ IdxSleeps /\ UNCHANGED <<runVars, dl, up, events, watch>>
      BY <2>2, <3>2, <3>3 DEF IdxScanned, IdxSleeps
    <3>4. CASE IdxSends /\ UNCHANGED <<runVars, dl, up, watch>>
      <4>1. events' > 0
        BY <3>4, LifecycleAssumption DEF TypeOK, IdxSends
      <4> QED BY <2>2, <3>2, <3>4, <4>1 DEF IdxScanned, IdxSends, IdxSleeps
    <3>5. CASE EndRun("ChannelSendError")
      BY <3>5, EndRunWakes
    <3> QED BY <2>2, <3>3, <3>4, <3>5 DEF IdxScanned
  <2>3. CASE IdxFails
    BY <2>3, EndRunWakes DEF IdxFails, FailRun
  <2>4. CASE IdxSent
    BY <2>4 DEF TypeOK, WakeInv, IdxSent, IdxSleeps, TaskIsFree, On, Made, runVars, outside
  <2>5. CASE IdxWakes
    BY <2>5 DEF TypeOK, WakeInv, IdxWakes, TaskIsFree, On, Made, runVars, outside
  <2> QED BY <1>7, <2>1, <2>2, <2>3, <2>4, <2>5 DEF Indexer
<1>8. CASE Downloader
  <2>1. ASSUME NEW answer, NEW result, FailRun(answer, result) PROVE WakeInv'
    BY <2>1, EndRunWakes DEF FailRun
  <2> QED BY <1>8, <2>1 DEF WakeInv, Downloader, DlTop, DlPass, DlPoll, On, Made, runVars, outside
<1>9. CASE Uploader
  <2>1. CASE UpFails \/ UpQueryFails
    BY <2>1, EndRunWakes DEF UpFails, UpQueryFails, FailRun
  <2>2. CASE UpSlept \/ UpWakes \/ UpTakes
    BY <2>2 DEF TypeOK, WakeInv, UpSlept, UpWakes, UpTakes, On, Made, runVars, outside
  <2>3. CASE UpTop
    BY <2>3 DEF TypeOK, WakeInv, UpTop, On, Made, runVars, outside
  <2>4. CASE UpCommitted
    BY <2>4 DEF TypeOK, WakeInv, UpCommitted, On, Made, runVars, outside
  <2>5. CASE UpNeeded
    BY <2>5 DEF TypeOK, WakeInv, UpNeeded, On, Made, runVars, outside
  <2> QED BY <1>9, <2>1, <2>2, <2>3, <2>4, <2>5 DEF Uploader
<1>10. CASE UNCHANGED vars
  BY <1>10 DEF WakeInv, On, Made, vars, runVars, outside
<1> QED BY <1>1, <1>2, <1>3, <1>4, <1>5, <1>6, <1>7, <1>8, <1>9, <1>10 DEF Next, Outside

\* A loop that sleeps with no event left to take has nothing to do, however
\* many changes are made, noted and uploaded, and however small the channels
\* are (the selects of indexer::run and upload_loop).
THEOREM NoWakeUpIsLost == Spec => []NoLostWakeUps
<1>1. Init => WakeInv
  BY DEF Init, WakeInv, On
<1>2. TypeOK /\ WakeInv => NoLostWakeUps
  BY DEF TypeOK, WakeInv, NoLostWakeUps
<1> QED BY <1>1, <1>2, WakeStep, TypesOK, PTL DEF Spec

----------------------------------------------------------------------------
(* The status.                                                             *)

\* StatusNamesAnActivity, activity by activity.
LEMMA StatusSplit == StatusNamesAnActivity <=> StatusInv
<1>1. StatusNamesAnActivity => StatusInv
  <2> SUFFICES ASSUME StatusNamesAnActivity, On, ~ cancelled
      PROVE /\ status = "Indexing" => idx.pc \in {"scan", "send"}
            /\ status = "Downloading" => dl = "pass"
            /\ status = "Uploading" => up.pc \in {"pass", "top"}
    BY DEF StatusInv
  <2> QED BY DEF StatusNamesAnActivity, Activities, Busy
<1>2. StatusInv => StatusNamesAnActivity
  BY DEF StatusNamesAnActivity, StatusInv, Activities, Busy
<1> QED BY <1>1, <1>2

\* Every step keeps the status true: whoever leaves the activity that was
\* reported last reports something else, unless the run is cancelled.
LEMMA StatusStep == TypeOK /\ StatusInv /\ [Next]_vars => StatusInv'
<1> SUFFICES ASSUME TypeOK, StatusInv, [Next]_vars PROVE StatusInv'
  OBVIOUS
<1> USE DEF StatusInv
<1>1. ASSUME NEW downloadOnly \in BOOLEAN, Start(downloadOnly) PROVE StatusInv'
  BY <1>1 DEF Start
<1>2. ASSUME ~ On' PROVE StatusInv'
  BY <1>2
<1>3. CASE StartFails
  BY <1>2, <1>3 DEF TypeOK, StartFails, On
<1>4. CASE Cancel \/ Change \/ WatcherReports
  BY <1>4 DEF Cancel, Change, WatcherReports, On, runVars, outside
<1>5. CASE Join
  BY <1>2, <1>5, EndRunIsOff DEF Join
<1>6. CASE Indexer
  <2>1. CASE IdxTop
    BY <2>1 DEF TypeOK, IdxTop, On, runVars, outside
  <2>2. CASE IdxScanned
    <3>1. CASE IdxSleeps /\ UNCHANGED <<runVars, dl, up, outside>>
      BY <3>1 DEF IdxSleeps, On
    <3>2. CASE IdxSends /\ UNCHANGED <<runVars, dl, up, outside>>
      BY <2>2, <3>2 DEF IdxScanned, IdxSends, IdxSleeps, On, runVars, outside
    <3>3. CASE EndRun("ChannelSendError")
      BY <1>2, <3>3, EndRunIsOff
    <3> QED BY <2>2, <3>1, <3>2, <3>3 DEF IdxScanned
  <2>3. CASE IdxFails
    BY <1>2, <2>3, EndRunIsOff DEF IdxFails, FailRun
  <2>4. CASE IdxSent \/ IdxWakes
    BY <2>4 DEF TypeOK, IdxSent, IdxWakes, IdxSleeps, On, runVars, outside
  <2> QED BY <1>6, <2>1, <2>2, <2>3, <2>4 DEF Indexer
<1>7. CASE Downloader
  <2>1. CASE DlTop
    BY <2>1 DEF DlTop, On, runVars, outside
  <2>2. ASSUME NEW answer, NEW result, FailRun(answer, result) PROVE StatusInv'
    BY <1>2, <2>2, EndRunIsOff DEF FailRun
  <2>3. CASE DlPass \/ DlPoll
    BY <2>2, <2>3 DEF DlPass, DlPoll, On, runVars, outside
  <2> QED BY <1>7, <2>1, <2>3 DEF Downloader
<1>8. CASE Uploader
  <2>1. CASE UpFails \/ UpQueryFails
    BY <1>2, <2>1, EndRunIsOff DEF UpFails, UpQueryFails, FailRun
  <2>2. CASE UpTop \/ UpWakes
    BY <2>2 DEF TypeOK, UpTop, UpWakes, On, runVars, outside
  <2>3. CASE UpSlept \/ UpCommitted \/ UpNeeded \/ UpTakes
    BY <2>3 DEF TypeOK, UpSlept, UpCommitted, UpNeeded, UpTakes, On, runVars, outside
  <2> QED BY <1>8, <2>1, <2>2, <2>3 DEF Uploader
<1>9. CASE UNCHANGED vars
  BY <1>9 DEF On, vars, runVars, outside
<1> QED BY <1>1, <1>3, <1>4, <1>5, <1>6, <1>7, <1>8, <1>9 DEF Next, Outside

\* Indexing, Downloading or Uploading, if reported last, is going on until the
\* run is cancelled, though three loops report to one listener (the calls of
\* on_status_changed).  Of Idle nothing is said, and IdleMeansNotSyncing, which
\* SyncStatus says of it (models.rs:94), is false.
THEOREM ActivitiesAreTrue == Spec => []StatusNamesAnActivity
<1>1. Init => StatusInv
  BY DEF Init, StatusInv, On
<1> QED BY <1>1, StatusStep, StatusSplit, TypesOK, PTL DEF Spec
=============================================================================
