---------------------- MODULE GrabTaskLifecycle_proofs ----------------------
(***************************************************************************)
(* Theorems about GrabTaskLifecycle that hold for every set of tasks and   *)
(* accounts, every concurrency and every bound on cancels, crashes and     *)
(* faults.                                                                 *)
(***************************************************************************)
EXTENDS GrabTaskLifecycle, TLAPS

\* Control states of create() before the row is inserted.
BeforeSave == {"new", "count", "find", "override", "dropPrecheck", "writeFailed", "save"}

\* A worker runs a task exactly while the task's main job is active, so the lock
\* of the job protects the worker's job from removal.
RunIffActive == \A t \in Tasks : run[t] # "idle" <=> job[Main(t)] = "active"

\* Nothing refers to a task whose row is not inserted.
RowExists ==
  /\ \A t \in Tasks : createPc[t] \in BeforeSave => status[t] = "absent"
  /\ \A t \in Tasks : createPc[t] \in {"addMain", "addPrecheck", "returned"} => status[t] # "absent"
  /\ \A t \in Tasks : createPc[t] \in BeforeSave \cup {"addMain"} => job[Main(t)] = "none"
  /\ \A t \in Tasks : job[Main(t)] # "none" => status[t] # "absent"
  /\ \A t \in Tasks : cancelPc[t] # "idle" => status[t] # "absent"
  /\ \A t \in runningWrite : status[t] # "absent"
  /\ \A c \in Tasks : \A v \in victims[c] : status[v] # "absent"
  /\ \A c \in Tasks : createPc[c] \in {"dropPrecheck", "writeFailed"} =>
                        victim[c] \in Tasks /\ status[victim[c]] # "absent"

\* A worker that is about to complete its job, or that may do so because of the
\* cancellation flag, has a row that has left "pending" for good.
Left(t) == status[t] \notin {"absent", "pending"}
LeftPending ==
  /\ \A t \in cancelFlag : Left(t)
  /\ \A t \in Tasks : run[t] \in {"tellWin", "tellLose", "done"} => Left(t)

\* The inductive invariant behind PendingHasJob.
JobInv == TypeOK /\ RunIffActive /\ RowExists /\ LeftPending /\ PendingHasJob
-----------------------------------------------------------------------------
(* Every variable keeps its type, whatever the environment does.             *)

LEMMA TypeNext == ASSUME TypeOK, [Next]_vars PROVE TypeOK'
<1> USE DEF TypeOK, Status, JobState, CreatePc, CancelPc, RunPc, Verdicts,
            Jobs, Kinds, Main, Precheck,
            handlerVars, workerVars, queueVars, bounds
<1>1. ASSUME NEW t \in Tasks, CreateStep(t) PROVE TypeOK'
  <2>1. CASE CreateCount(t)
    BY <2>1 DEF CreateCount, CreateGoto
  <2>2. CASE CreateFind(t)
    BY <2>2 DEF CreateFind, CreateGoto, Siblings
  <2>3. CASE \E v \in Tasks : OverrideDropMain(t, v)
    BY <2>3 DEF OverrideDropMain, CreateGoto, RemoveJob
  <2>4. CASE OverrideDropPrecheck(t)
    BY <2>4 DEF OverrideDropPrecheck, CreateGoto, RemoveJob
  <2>5. CASE OverrideWrite(t)
    BY <2>5 DEF OverrideWrite, CreateGoto, LaterUpdate, UpdateStatus
  <2>6. CASE OverrideDone(t)
    BY <2>6 DEF OverrideDone, CreateGoto
  <2>7. CASE OverrideLocked(t)
    BY <2>7 DEF OverrideLocked, CreateThrow, CreateGoto, CreateOrphans
  <2>8. CASE CreateSave(t)
    BY <2>8 DEF CreateSave, CreateGoto, UpdateStatus
  <2>9. CASE ScheduleMain(t)
    BY <2>9 DEF ScheduleMain, CreateGoto, AddJob
  <2>10. CASE SchedulePrecheck(t)
    BY <2>10 DEF SchedulePrecheck, CreateGoto, AddJob
  <2> QED
    BY <1>1, <2>1, <2>2, <2>3, <2>4, <2>5, <2>6, <2>7, <2>8, <2>9, <2>10 DEF CreateStep
<1>2. ASSUME NEW t \in Tasks, CancelStep(t) PROVE TypeOK'
  <2>1. CASE CancelRead(t)
    BY <2>1 DEF CancelRead, CancelGoto
  <2>2a. CASE CancelDropMain(t)
    BY <2>2a DEF CancelDropMain, CancelGoto, RemoveJob
  <2>2b. CASE CancelDropPrecheck(t)
    BY <2>2b DEF CancelDropPrecheck, CancelGoto, RemoveJob
  <2>3. CASE CancelWrite(t)
    BY <2>3 DEF CancelWrite, CancelGoto, LaterUpdate, UpdateStatus
  <2>4. CASE CancelLocked(t)
    BY <2>4 DEF CancelLocked, CancelThrow, CancelGoto, CancelOrphans
  <2> QED
    BY <1>2, <2>1, <2>2a, <2>2b, <2>3, <2>4 DEF CancelStep
<1>3. ASSUME NEW t \in Tasks, RunStep(t) PROVE TypeOK'
  <2>1. CASE LoadTask(t)
    BY <2>1 DEF LoadTask, RunGoto
  <2>2. CASE LoopExpired(t) \/ LoopCancelled(t) \/ LoopRound(t)
    BY <2>2 DEF LoopExpired, LoopCancelled, LoopRound, RunGoto
  <2>3. CASE RoundBooks(t) \/ RoundRetries(t) \/ RoundFatal(t)
    <3>1. PICK pc \in RunPc : RunGoto(t, pc)
      BY <2>3 DEF RoundBooks, RoundRetries, RoundFatal
    <3>2. run' \in [Tasks -> RunPc]
      BY <3>1 DEF RunGoto
    <3>3. booked' \subseteq Tasks
      BY <2>3 DEF RoundBooks, RoundRetries, RoundFatal
    <3> QED
      BY <2>3, <3>2, <3>3 DEF RoundBooks, RoundRetries, RoundFatal
  <2>4. CASE SleepOver(t) \/ SleepCancelled(t)
    BY <2>4 DEF SleepOver, SleepCancelled, RunGoto
  <2>5a. CASE MarkSuccess(t)
    BY <2>5a DEF MarkSuccess, FinalUpdate, LaterUpdate, UpdateStatus, RunGoto
  <2>5b. CASE MarkFailed(t)
    BY <2>5b DEF MarkFailed, FinalUpdate, LaterUpdate, UpdateStatus, RunGoto
  <2>6. CASE TellSuccess(t) \/ TellFailed(t)
    <3>1. PICK v \in Verdicts : told' = told \cup {<<t, v>>}
      BY <2>6 DEF TellSuccess, TellFailed, Tell
    <3>2. <<t, v>> \in Tasks \X Verdicts
      BY Zenon
    <3> QED
      BY <2>6, <3>1, <3>2 DEF TellSuccess, TellFailed, Tell, RunGoto
  <2>7. CASE JobCompletes(t)
    BY <2>7 DEF JobCompletes, RunGoto, RemoveJob
  <2> QED
    BY <1>3, <2>1, <2>2, <2>3, <2>4, <2>5a, <2>5b, <2>6, <2>7 DEF RunStep
<1>4. ASSUME NEW t \in Tasks, RunningLands(t) \/ WindowPasses(t) \/ PrecheckDone(t)
      PROVE TypeOK'
  <2>1. CASE RunningLands(t)
    BY <2>1 DEF RunningLands, UpdateStatus
  <2>2. CASE WindowPasses(t)
    BY <2>2 DEF WindowPasses
  <2>3. CASE PrecheckDone(t)
    BY <2>3 DEF PrecheckDone, RemoveJob
  <2> QED
    BY <1>4, <2>1, <2>2, <2>3
<1>5. ASSUME NEW j \in Jobs, Deliver(j) \/ StalledCheck(j) PROVE TypeOK'
  <2>1. CASE Deliver(j)
    <3>1. run' \in [Tasks -> RunPc]
      BY <2>1 DEF Deliver
    <3>2. job' \in [Jobs -> JobState]
      BY <2>1 DEF Deliver
    <3> QED
      BY <2>1, <3>1, <3>2 DEF Deliver
  <2>2. CASE StalledCheck(j)
    <3>1. CASE stalls[j] < MaxStalled
      <4>1. /\ job' = [job EXCEPT ![j] = "queued"]
            /\ stalls' = [stalls EXCEPT ![j] = @ + 1]
            /\ UNCHANGED <<status, cancelFlag, aborted, handlerVars, workerVars, bounds>>
        BY <2>2, <3>1 DEF StalledCheck
      <4>2. stalls' \in [Jobs -> Nat]
        BY <4>1
      <4> QED
        BY <4>1, <4>2
    <3>2. CASE ~(stalls[j] < MaxStalled)
      BY <2>2, <3>2 DEF StalledCheck
    <3> QED
      BY <3>1, <3>2
  <2> QED
    BY <1>5, <2>1, <2>2
<1>6. CASE Environment
  <2> USE DEF Fault
  <2>1. ASSUME NEW t \in Tasks, CreateBegin(t) PROVE TypeOK'
    BY <2>1 DEF CreateBegin, CreateGoto
  <2>9. ASSUME NEW t \in Tasks, CancelBegin(t) PROVE TypeOK'
    BY <2>9 DEF CancelBegin, CancelGoto
  <2>2. ASSUME NEW t \in Tasks, CreateFault(t) PROVE TypeOK'
    BY <2>2 DEF CreateFault, CreateThrow, CreateGoto, CreateOrphans
  <2>3. ASSUME NEW t \in Tasks, CancelFault(t) PROVE TypeOK'
    BY <2>3 DEF CancelFault, CancelThrow, CancelGoto, CancelOrphans
  <2>4. ASSUME NEW t \in Tasks, RoundAnswerLost(t) PROVE TypeOK'
    BY <2>4 DEF RoundAnswerLost, RunGoto
  <2>8. ASSUME NEW t \in Tasks, RunningLost(t) PROVE TypeOK'
    BY <2>8 DEF RunningLost
  <2>6. ASSUME NEW t \in Tasks, RunFault(t) PROVE TypeOK'
    <3>1. run' \in [Tasks -> RunPc] /\ job' \in [Jobs -> JobState]
      BY <2>6 DEF RunFault, RunGoto
    <3> QED
      BY <2>6, <3>1 DEF RunFault
  <2>7. ASSUME NEW t \in Tasks, PrecheckFault(t) PROVE TypeOK'
    BY <2>7 DEF PrecheckFault
  <2>5. CASE Crash
    BY <2>5 DEF Crash, CreateOrphans, CancelOrphans
  <2> QED
    BY <1>6, <2>1, <2>2, <2>3, <2>4, <2>5, <2>6, <2>7, <2>8, <2>9 DEF Environment
<1>7. CASE UNCHANGED vars
  BY <1>7 DEF vars
<1> QED
  BY <1>1, <1>2, <1>3, <1>4, <1>5, <1>6, <1>7 DEF Next

\* TypeOK holds in every state of every behaviour.
THEOREM TypeCorrect == Spec => []TypeOK
<1>1. Init => TypeOK
  BY DEF Init, TypeOK, Status, JobState, CreatePc, CancelPc, RunPc, Verdicts
<1>2. TypeOK /\ [Next]_vars => TypeOK'
  BY TypeNext
<1> QED
  BY <1>1, <1>2, PTL DEF Spec

-----------------------------------------------------------------------------
(* The job of a pending task is never lost.                                  *)

\* Jobs of different tasks or kinds are different.
LEMMA MainFacts ==
  ASSUME NEW t \in Tasks, NEW u \in Tasks
  PROVE  /\ Main(t) \in Jobs /\ Precheck(t) \in Jobs
         /\ Main(t) = Main(u) <=> t = u
         /\ Main(t) # Precheck(u)
  BY DEF Main, Precheck, Jobs, Kinds

LEMMA JobInvInit == Init => JobInv
  BY MainFacts
  DEF Init, JobInv, TypeOK, RunIffActive, RowExists, LeftPending, PendingHasJob,
      Status, JobState, CreatePc, CancelPc, RunPc, Verdicts

LEMMA JobInvNext == ASSUME JobInv, [Next]_vars PROVE JobInv'
<1> TypeOK'
  BY TypeNext DEF JobInv
<1> USE MainFacts DEF JobInv, TypeOK, handlerVars, workerVars, queueVars, bounds,
   BeforeSave, RunIffActive, RowExists, LeftPending, Left, PendingHasJob, Handling,
   CreateOrphans, CancelOrphans
<1>1. ASSUME NEW t \in Tasks, CreateStep(t) PROVE JobInv'
  <2>1. CASE CreateCount(t) \/ CreateFind(t) \/ OverrideDone(t)
    BY <2>1 DEF CreateCount, CreateGoto, CreateFind, Siblings, OverrideDone
  <2>2. CASE \E v \in Tasks : OverrideDropMain(t, v)
    BY <2>2 DEF OverrideDropMain, CreateGoto, Removable, RemoveJob
  <2>3. CASE OverrideDropPrecheck(t)
    BY <2>3 DEF OverrideDropPrecheck, CreateGoto, Removable, RemoveJob
  <2>4. CASE OverrideWrite(t)
    <3>1. victim[t] \in Tasks /\ status[victim[t]] # "absent"
      BY <2>4 DEF OverrideWrite
    <3>2. status' = [status EXCEPT ![victim[t]] = "failed"]
      BY <2>4 DEF OverrideWrite, LaterUpdate, UpdateStatus
    <3> QED
      BY <2>4, <3>1, <3>2 DEF OverrideWrite, CreateGoto
  <2>5. CASE OverrideLocked(t)
    BY <2>5 DEF OverrideLocked, CreateThrow, CreateGoto
  <2>6. CASE CreateSave(t)
    BY <2>6 DEF CreateSave, CreateGoto, UpdateStatus
  <2>7. CASE ScheduleMain(t)
    BY <2>7 DEF ScheduleMain, CreateGoto, AddJob
  <2>8. CASE SchedulePrecheck(t)
    BY <2>8 DEF SchedulePrecheck, CreateGoto, AddJob
  <2> QED
    BY <1>1, <2>1, <2>2, <2>3, <2>4, <2>5, <2>6, <2>7, <2>8 DEF CreateStep
<1>2. ASSUME NEW t \in Tasks, CancelStep(t) PROVE JobInv'
  <2>1. CASE CancelRead(t)
    BY <2>1 DEF CancelRead, CancelGoto
  <2>2. CASE CancelDropMain(t)
    BY <2>2 DEF CancelDropMain, CancelGoto, Removable, RemoveJob
  <2>3. CASE CancelDropPrecheck(t)
    BY <2>3 DEF CancelDropPrecheck, CancelGoto, Removable, RemoveJob
  <2>4. CASE CancelWrite(t)
    BY <2>4 DEF CancelWrite, CancelGoto, LaterUpdate, UpdateStatus
  <2>5. CASE CancelLocked(t)
    BY <2>5 DEF CancelLocked, CancelThrow, CancelGoto
  <2> QED
    BY <1>2, <2>1, <2>2, <2>3, <2>4, <2>5 DEF CancelStep
<1>3. ASSUME NEW t \in Tasks, RunStep(t) PROVE JobInv'
  <2>1. CASE LoadTask(t)
    BY <2>1 DEF LoadTask, RunGoto
  <2>2. CASE LoopExpired(t) \/ LoopCancelled(t) \/ LoopRound(t)
    BY <2>2 DEF LoopExpired, RunGoto, LoopCancelled, LoopRound
  <2>3. CASE RoundBooks(t) \/ RoundRetries(t) \/ RoundFatal(t)
    BY <2>3 DEF RoundBooks, RunGoto, RoundRetries, RoundFatal
  <2>4. CASE SleepOver(t) \/ SleepCancelled(t)
    BY <2>4 DEF SleepOver, RunGoto, SleepCancelled
  <2>5. CASE MarkSuccess(t)
    BY <2>5 DEF MarkSuccess, FinalUpdate, LaterUpdate, UpdateStatus, RunGoto
  <2>6. CASE MarkFailed(t)
    BY <2>6 DEF MarkFailed, FinalUpdate, LaterUpdate, UpdateStatus, RunGoto
  <2>7. CASE TellSuccess(t) \/ TellFailed(t)
    BY <2>7 DEF TellSuccess, Tell, RunGoto, TellFailed
  <2>8. CASE JobCompletes(t)
    BY <2>8 DEF JobCompletes, RunGoto, RemoveJob
  <2> QED
    BY <1>3, <2>1, <2>2, <2>3, <2>4, <2>5, <2>6, <2>7, <2>8 DEF RunStep
<1>4. ASSUME NEW t \in Tasks, RunningLands(t) \/ WindowPasses(t) \/ PrecheckDone(t) PROVE JobInv'
  BY <1>4 DEF RunningLands, UpdateStatus, WindowPasses, PrecheckDone, RemoveJob
<1>5. ASSUME NEW j \in Jobs, StalledCheck(j) PROVE JobInv'
  BY <1>5 DEF StalledCheck
<1>6. ASSUME NEW j \in Jobs, Deliver(j) PROVE JobInv'
  <2>1. PICK t \in Tasks : j = Main(t) \/ j = Precheck(t)
    BY DEF Jobs, Kinds, Main, Precheck
  <2>2. CASE j = Main(t)
    <3>1. run' = [run EXCEPT ![t] = "find"]
      BY <1>6, <2>2 DEF Deliver, Main
    <3> QED
      BY <1>6, <2>2, <3>1 DEF Deliver
  <2>3. CASE j = Precheck(t)
    <3>1. run' = run
      BY <1>6, <2>3 DEF Deliver, Precheck
    <3> QED
      BY <1>6, <2>3, <3>1 DEF Deliver
  <2> QED
    BY <2>1, <2>2, <2>3
<1>7. ASSUME Environment PROVE JobInv'
  <2>1. ASSUME NEW t \in Tasks, CreateBegin(t) \/ CancelBegin(t) PROVE JobInv'
    BY <2>1 DEF CreateBegin, CreateGoto, CancelBegin, CancelGoto
  <2>2. ASSUME NEW t \in Tasks, CreateFault(t) PROVE JobInv'
    BY <2>2 DEF CreateFault, CreateThrow, CreateGoto, CreateInFlight, Fault
  <2>3. ASSUME NEW t \in Tasks, CancelFault(t) PROVE JobInv'
    BY <2>3 DEF CancelFault, CancelThrow, CancelGoto, Fault
  <2>4. ASSUME NEW t \in Tasks, RunFault(t) PROVE JobInv'
    BY <2>4 DEF RunFault, RunGoto, Fault
  <2>5. ASSUME NEW t \in Tasks, RoundAnswerLost(t) \/ RunningLost(t) PROVE JobInv'
    BY <2>5 DEF RoundAnswerLost, RunGoto, Fault, RunningLost
  <2>6. ASSUME NEW t \in Tasks, PrecheckFault(t) PROVE JobInv'
    BY <2>6 DEF PrecheckFault, Fault
  <2>7. CASE Crash
    BY <2>7 DEF Crash, CreateInFlight
  <2> QED
    BY <1>7, <2>1, <2>2, <2>3, <2>4, <2>5, <2>6, <2>7 DEF Environment
<1>8. CASE UNCHANGED vars
  BY <1>8 DEF vars
<1> QED
  BY <1>1, <1>2, <1>3, <1>4, <1>5, <1>6, <1>7, <1>8 DEF Next

LEMMA JobInvHolds == Spec => []JobInv
  BY JobInvInit, JobInvNext, PTL DEF Spec

\* Whatever the environment does, a pending task keeps its main job, unless a
\* create() or cancel() is at work on it or died half-way on it.
THEOREM PendingHasJobHolds == Spec => []PendingHasJob
<1>1. JobInv => PendingHasJob
  BY DEF JobInv
<1> QED
  BY <1>1, JobInvHolds, PTL

-----------------------------------------------------------------------------
(* A success is a booking.                                                   *)

BookedInv ==
  /\ TypeOK
  /\ SuccessIsBooked
  /\ \A t \in Tasks : run[t] \in {"win", "tellWin"} => t \in booked

LEMMA BookedInvNext == ASSUME BookedInv, [Next]_vars PROVE BookedInv'
<1> TypeOK'
  BY TypeNext DEF BookedInv
<1> USE DEF BookedInv, TypeOK, handlerVars, workerVars, queueVars, bounds,
   SuccessIsBooked
<1>1. ASSUME NEW t \in Tasks, CreateStep(t) PROVE BookedInv'
  <2>1. CASE CreateCount(t) \/ CreateFind(t) \/ OverrideDone(t)
    BY <2>1 DEF CreateCount, CreateGoto, CreateFind, Siblings, OverrideDone
  <2>2. CASE \E v \in Tasks : OverrideDropMain(t, v)
    BY <2>2 DEF OverrideDropMain, CreateGoto, Removable, RemoveJob
  <2>3. CASE OverrideDropPrecheck(t)
    BY <2>3 DEF OverrideDropPrecheck, CreateGoto, Removable, RemoveJob
  <2>4. CASE OverrideWrite(t)
    BY <2>4 DEF OverrideWrite, CreateGoto, LaterUpdate, UpdateStatus
  <2>5. CASE OverrideLocked(t)
    BY <2>5 DEF OverrideLocked, CreateThrow, CreateGoto
  <2>6. CASE CreateSave(t)
    BY <2>6 DEF CreateSave, CreateGoto, UpdateStatus
  <2>7. CASE ScheduleMain(t)
    BY <2>7 DEF ScheduleMain, CreateGoto, AddJob
  <2>8. CASE SchedulePrecheck(t)
    BY <2>8 DEF SchedulePrecheck, CreateGoto, AddJob
  <2> QED
    BY <1>1, <2>1, <2>2, <2>3, <2>4, <2>5, <2>6, <2>7, <2>8 DEF CreateStep
<1>2. ASSUME NEW t \in Tasks, CancelStep(t) PROVE BookedInv'
  <2>1. CASE CancelRead(t)
    BY <2>1 DEF CancelRead, CancelGoto
  <2>2. CASE CancelDropMain(t)
    BY <2>2 DEF CancelDropMain, CancelGoto, Removable, RemoveJob
  <2>3. CASE CancelDropPrecheck(t)
    BY <2>3 DEF CancelDropPrecheck, CancelGoto, Removable, RemoveJob
  <2>4. CASE CancelWrite(t)
    BY <2>4 DEF CancelWrite, CancelGoto, LaterUpdate, UpdateStatus
  <2>5. CASE CancelLocked(t)
    BY <2>5 DEF CancelLocked, CancelThrow, CancelGoto
  <2> QED
    BY <1>2, <2>1, <2>2, <2>3, <2>4, <2>5 DEF CancelStep
<1>3. ASSUME NEW t \in Tasks, RunStep(t) PROVE BookedInv'
  <2>1. CASE LoadTask(t)
    BY <2>1 DEF LoadTask, RunGoto
  <2>2. CASE LoopExpired(t) \/ LoopCancelled(t) \/ LoopRound(t)
    BY <2>2 DEF LoopExpired, RunGoto, LoopCancelled, LoopRound
  <2>3. CASE RoundBooks(t) \/ RoundRetries(t) \/ RoundFatal(t)
    BY <2>3 DEF RoundBooks, RunGoto, RoundRetries, RoundFatal
  <2>4. CASE SleepOver(t) \/ SleepCancelled(t)
    BY <2>4 DEF SleepOver, RunGoto, SleepCancelled
  <2>5. CASE MarkSuccess(t)
    BY <2>5 DEF MarkSuccess, FinalUpdate, LaterUpdate, UpdateStatus, RunGoto
  <2>6. CASE MarkFailed(t)
    BY <2>6 DEF MarkFailed, FinalUpdate, LaterUpdate, UpdateStatus, RunGoto
  <2>7. CASE TellSuccess(t) \/ TellFailed(t)
    BY <2>7 DEF TellSuccess, Tell, RunGoto, TellFailed
  <2>8. CASE JobCompletes(t)
    BY <2>8 DEF JobCompletes, RunGoto, RemoveJob
  <2> QED
    BY <1>3, <2>1, <2>2, <2>3, <2>4, <2>5, <2>6, <2>7, <2>8 DEF RunStep
<1>4. ASSUME NEW t \in Tasks, RunningLands(t) \/ WindowPasses(t) \/ PrecheckDone(t) PROVE BookedInv'
  BY <1>4 DEF RunningLands, UpdateStatus, WindowPasses, PrecheckDone, RemoveJob
<1>5. ASSUME NEW j \in Jobs, StalledCheck(j) PROVE BookedInv'
  BY <1>5 DEF StalledCheck
<1>6. ASSUME NEW j \in Jobs, Deliver(j) PROVE BookedInv'
  BY <1>6 DEF Deliver, Jobs
<1>7. ASSUME Environment PROVE BookedInv'
  <2>1. ASSUME NEW t \in Tasks, CreateBegin(t) \/ CancelBegin(t) PROVE BookedInv'
    BY <2>1 DEF CreateBegin, CreateGoto, CancelBegin, CancelGoto
  <2>2. ASSUME NEW t \in Tasks, CreateFault(t) PROVE BookedInv'
    BY <2>2 DEF CreateFault, CreateThrow, CreateGoto, CreateInFlight, Fault
  <2>3. ASSUME NEW t \in Tasks, CancelFault(t) PROVE BookedInv'
    BY <2>3 DEF CancelFault, CancelThrow, CancelGoto, Fault
  <2>4. ASSUME NEW t \in Tasks, RunFault(t) PROVE BookedInv'
    BY <2>4 DEF RunFault, RunGoto, Fault
  <2>5. ASSUME NEW t \in Tasks, RoundAnswerLost(t) \/ RunningLost(t) PROVE BookedInv'
    BY <2>5 DEF RoundAnswerLost, RunGoto, Fault, RunningLost
  <2>6. ASSUME NEW t \in Tasks, PrecheckFault(t) PROVE BookedInv'
    BY <2>6 DEF PrecheckFault, Fault
  <2>7. CASE Crash
    BY <2>7 DEF Crash, CreateInFlight
  <2> QED
    BY <1>7, <2>1, <2>2, <2>3, <2>4, <2>5, <2>6, <2>7 DEF Environment
<1>8. CASE UNCHANGED vars
  BY <1>8 DEF vars
<1> QED
  BY <1>1, <1>2, <1>3, <1>4, <1>5, <1>6, <1>7, <1>8 DEF Next

\* No interleaving, crash or fault makes the system report a success that the
\* library did not accept.
THEOREM SuccessIsBookedHolds == Spec => []SuccessIsBooked
<1>1. Init => BookedInv
  BY DEF Init, BookedInv, TypeOK, SuccessIsBooked,
         Status, JobState, CreatePc, CancelPc, RunPc, Verdicts
<1>2. BookedInv /\ [Next]_vars => BookedInv'
  BY BookedInvNext
<1>3. BookedInv => SuccessIsBooked
  BY DEF BookedInv
<1> QED
  BY <1>1, <1>2, <1>3, PTL DEF Spec

-----------------------------------------------------------------------------
(* The override rule: no pending task that create() could see is left over.   *)

\* From the lookup of the pending tasks until the new row is inserted, every pending
\* task of the account is still to be overridden, or was inserted after the lookup.  The
\* last part is for the theorems that assume that create() calls do not overlap.
LookupInv ==
  /\ TypeOK
  /\ OnePendingUnlessUnseen
  /\ \A t \in Tasks : LookedUp(t) =>
       \A u \in Siblings(t) \ {t} : status[u] = "pending" => u \in victims[t] \cup unseen[t]
  /\ \A t \in Tasks : createPc[t] = "save" => victims[t] = {}
  /\ "parallelCreate" \in Races \/
       \A t \in Tasks : \A u \in Siblings(t) :
         CreateInFlight(t) /\ CreateInFlight(u) => t = u

LEMMA LookupInvNext ==
  ASSUME LookupInv, [Next]_vars PROVE LookupInv'
<1> TypeOK'
  BY TypeNext DEF LookupInv
<1> USE DEF LookupInv, TypeOK, handlerVars, workerVars, queueVars, bounds,
   OnePendingUnlessUnseen, Siblings, CreateInFlight, LookedUp
<1>1. ASSUME NEW t \in Tasks, CreateStep(t) PROVE LookupInv'
  <2>1. CASE CreateCount(t)
    BY <2>1 DEF CreateCount, CreateGoto
  <2>2. CASE CreateFind(t)
    BY <2>2 DEF CreateFind, CreateGoto, Siblings
  <2>3. CASE OverrideDone(t)
    BY <2>3 DEF OverrideDone, CreateGoto
  <2>4. CASE \E v \in Tasks : OverrideDropMain(t, v)
    BY <2>4 DEF OverrideDropMain, CreateGoto, Removable, RemoveJob
  <2>5. CASE OverrideDropPrecheck(t)
    BY <2>5 DEF OverrideDropPrecheck, CreateGoto, Removable, RemoveJob
  <2>6. CASE OverrideWrite(t)
    BY <2>6 DEF OverrideWrite, CreateGoto, LaterUpdate, UpdateStatus
  <2>7. CASE OverrideLocked(t)
    BY <2>7 DEF OverrideLocked, CreateThrow, CreateGoto
  <2>8. CASE CreateSave(t)
    BY <2>8 DEF CreateSave, CreateGoto, UpdateStatus
  <2>9. CASE ScheduleMain(t)
    BY <2>9 DEF ScheduleMain, CreateGoto, AddJob
  <2>10. CASE SchedulePrecheck(t)
    BY <2>10 DEF SchedulePrecheck, CreateGoto, AddJob
  <2> QED
    BY <1>1, <2>1, <2>2, <2>3, <2>4, <2>5, <2>6, <2>7, <2>8, <2>9, <2>10 DEF CreateStep
<1>2. ASSUME NEW t \in Tasks, CancelStep(t) PROVE LookupInv'
  <2>1. CASE CancelRead(t)
    BY <2>1 DEF CancelRead, CancelGoto
  <2>2. CASE CancelDropMain(t)
    BY <2>2 DEF CancelDropMain, CancelGoto, Removable, RemoveJob
  <2>3. CASE CancelDropPrecheck(t)
    BY <2>3 DEF CancelDropPrecheck, CancelGoto, Removable, RemoveJob
  <2>4. CASE CancelWrite(t)
    BY <2>4 DEF CancelWrite, CancelGoto, LaterUpdate, UpdateStatus
  <2>5. CASE CancelLocked(t)
    BY <2>5 DEF CancelLocked, CancelThrow, CancelGoto
  <2> QED
    BY <1>2, <2>1, <2>2, <2>3, <2>4, <2>5 DEF CancelStep
<1>3. ASSUME NEW t \in Tasks, RunStep(t) PROVE LookupInv'
  <2>1. CASE LoadTask(t)
    BY <2>1 DEF LoadTask, RunGoto
  <2>2. CASE LoopExpired(t) \/ LoopCancelled(t) \/ LoopRound(t)
    BY <2>2 DEF LoopExpired, RunGoto, LoopCancelled, LoopRound
  <2>3. CASE RoundBooks(t) \/ RoundRetries(t) \/ RoundFatal(t)
    BY <2>3 DEF RoundBooks, RunGoto, RoundRetries, RoundFatal
  <2>4. CASE SleepOver(t) \/ SleepCancelled(t)
    BY <2>4 DEF SleepOver, RunGoto, SleepCancelled
  <2>5. CASE MarkSuccess(t)
    BY <2>5 DEF MarkSuccess, FinalUpdate, LaterUpdate, UpdateStatus, RunGoto
  <2>6. CASE MarkFailed(t)
    BY <2>6 DEF MarkFailed, FinalUpdate, LaterUpdate, UpdateStatus, RunGoto
  <2>7. CASE TellSuccess(t) \/ TellFailed(t)
    BY <2>7 DEF TellSuccess, Tell, RunGoto, TellFailed
  <2>8. CASE JobCompletes(t)
    BY <2>8 DEF JobCompletes, RunGoto, RemoveJob
  <2> QED
    BY <1>3, <2>1, <2>2, <2>3, <2>4, <2>5, <2>6, <2>7, <2>8 DEF RunStep
<1>4. ASSUME NEW t \in Tasks, RunningLands(t) \/ WindowPasses(t) \/ PrecheckDone(t) PROVE LookupInv'
  BY <1>4 DEF RunningLands, UpdateStatus, WindowPasses, PrecheckDone, RemoveJob
<1>5. ASSUME NEW j \in Jobs, StalledCheck(j) PROVE LookupInv'
  BY <1>5 DEF StalledCheck
<1>6. ASSUME NEW j \in Jobs, Deliver(j) PROVE LookupInv'
  BY <1>6 DEF Deliver
<1>7. ASSUME Environment PROVE LookupInv'
  <2>1. ASSUME NEW t \in Tasks, CreateBegin(t) \/ CancelBegin(t) PROVE LookupInv'
    BY <2>1 DEF CreateBegin, CreateGoto, CancelBegin, CancelGoto
  <2>2. ASSUME NEW t \in Tasks, CreateFault(t) PROVE LookupInv'
    BY <2>2 DEF CreateFault, CreateThrow, CreateGoto, CreateInFlight, Fault
  <2>3. ASSUME NEW t \in Tasks, CancelFault(t) PROVE LookupInv'
    BY <2>3 DEF CancelFault, CancelThrow, CancelGoto, Fault
  <2>4. ASSUME NEW t \in Tasks, RunFault(t) PROVE LookupInv'
    BY <2>4 DEF RunFault, RunGoto, Fault
  <2>5. ASSUME NEW t \in Tasks, RoundAnswerLost(t) \/ RunningLost(t) PROVE LookupInv'
    BY <2>5 DEF RoundAnswerLost, RunGoto, Fault, RunningLost
  <2>6. ASSUME NEW t \in Tasks, PrecheckFault(t) PROVE LookupInv'
    BY <2>6 DEF PrecheckFault, Fault
  <2>7. CASE Crash
    BY <2>7 DEF Crash, CreateInFlight
  <2> QED
    BY <1>7, <2>1, <2>2, <2>3, <2>4, <2>5, <2>6, <2>7 DEF Environment
<1>8. CASE UNCHANGED vars
  BY <1>8 DEF vars
<1> QED
  BY <1>1, <1>2, <1>3, <1>4, <1>5, <1>6, <1>7, <1>8 DEF Next

\* However create(), cancel(), the workers, crashes and late updates interleave, the two
\* calls that leave an account with two pending tasks overlap between lookup and insert.
THEOREM OnePendingUnlessUnseenHolds == Spec => []OnePendingUnlessUnseen
<1>1. Init => LookupInv
  BY DEF Init, LookupInv, TypeOK, OnePendingUnlessUnseen, CreateInFlight, LookedUp,
         Status, JobState, CreatePc, CancelPc, RunPc, Verdicts
<1>2. LookupInv /\ [Next]_vars => LookupInv'
  BY LookupInvNext
<1>3. LookupInv => OnePendingUnlessUnseen
  BY DEF LookupInv
<1> QED
  BY <1>1, <1>2, <1>3, PTL DEF Spec

-----------------------------------------------------------------------------
(* A cancel() that returned stops the booking, as long as the process lives. *)

\* No new round can start: the flag is set, or the job is gone and nobody is left
\* to add it.
Fenced(t) ==
  \/ t \in cancelFlag
  \/ job[Main(t)] = "none" /\ createPc[t] \in {"returned", "threw"}

FenceInv ==
  /\ \A t \in Tasks : cancelPc[t] # "idle" => createPc[t] \in {"returned", "threw"}
  /\ \A t \in Tasks : cancelPc[t] \in {"dropPrecheck", "writeCancelled"} => Fenced(t)
  /\ \A t \in cancelDone : Fenced(t)

LEMMA FenceInvNext ==
  ASSUME "earlyCancel" \notin Races, MaxCrashes = 0,
         JobInv, JobInv', FenceInv, [Next]_vars
  PROVE  FenceInv'
<1> USE MainFacts DEF JobInv, TypeOK, handlerVars, workerVars, queueVars, bounds,
   RunIffActive, BeforeSave, RowExists, FenceInv, Fenced, CreateInFlight
<1>1. ASSUME NEW t \in Tasks, CreateStep(t) PROVE FenceInv'
  <2>1. CASE CreateCount(t) \/ CreateFind(t) \/ OverrideDone(t)
    BY <2>1 DEF CreateCount, CreateGoto, CreateFind, Siblings, OverrideDone
  <2>2. CASE \E v \in Tasks : OverrideDropMain(t, v)
    BY <2>2 DEF OverrideDropMain, CreateGoto, Removable, RemoveJob
  <2>3. CASE OverrideDropPrecheck(t)
    BY <2>3 DEF OverrideDropPrecheck, CreateGoto, Removable, RemoveJob
  <2>4. CASE OverrideWrite(t)
    BY <2>4 DEF OverrideWrite, CreateGoto, LaterUpdate, UpdateStatus
  <2>5. CASE OverrideLocked(t)
    BY <2>5 DEF OverrideLocked, CreateThrow, CreateGoto
  <2>6. CASE CreateSave(t)
    BY <2>6 DEF CreateSave, CreateGoto, UpdateStatus
  <2>7. CASE ScheduleMain(t)
    BY <2>7 DEF ScheduleMain, CreateGoto, AddJob
  <2>8. CASE SchedulePrecheck(t)
    BY <2>8 DEF SchedulePrecheck, CreateGoto, AddJob
  <2> QED
    BY <1>1, <2>1, <2>2, <2>3, <2>4, <2>5, <2>6, <2>7, <2>8 DEF CreateStep
<1>2. ASSUME NEW t \in Tasks, CancelStep(t) PROVE FenceInv'
  <2>1. CASE CancelRead(t)
    BY <2>1 DEF CancelRead, CancelGoto
  <2>2. CASE CancelDropMain(t)
    BY <2>2 DEF CancelDropMain, CancelGoto, Removable, RemoveJob
  <2>3. CASE CancelDropPrecheck(t)
    BY <2>3 DEF CancelDropPrecheck, CancelGoto, Removable, RemoveJob
  <2>4. CASE CancelWrite(t)
    BY <2>4 DEF CancelWrite, CancelGoto, LaterUpdate, UpdateStatus
  <2>5. CASE CancelLocked(t)
    BY <2>5 DEF CancelLocked, CancelThrow, CancelGoto
  <2> QED
    BY <1>2, <2>1, <2>2, <2>3, <2>4, <2>5 DEF CancelStep
<1>3. ASSUME NEW t \in Tasks, RunStep(t) PROVE FenceInv'
  <2>1. CASE LoadTask(t)
    BY <2>1 DEF LoadTask, RunGoto
  <2>2. CASE LoopExpired(t) \/ LoopCancelled(t) \/ LoopRound(t)
    BY <2>2 DEF LoopExpired, RunGoto, LoopCancelled, LoopRound
  <2>3. CASE RoundBooks(t) \/ RoundRetries(t) \/ RoundFatal(t)
    BY <2>3 DEF RoundBooks, RunGoto, RoundRetries, RoundFatal
  <2>4. CASE SleepOver(t) \/ SleepCancelled(t)
    BY <2>4 DEF SleepOver, RunGoto, SleepCancelled
  <2>5. CASE MarkSuccess(t)
    BY <2>5 DEF MarkSuccess, FinalUpdate, LaterUpdate, UpdateStatus, RunGoto
  <2>6. CASE MarkFailed(t)
    BY <2>6 DEF MarkFailed, FinalUpdate, LaterUpdate, UpdateStatus, RunGoto
  <2>7. CASE TellSuccess(t) \/ TellFailed(t)
    BY <2>7 DEF TellSuccess, Tell, RunGoto, TellFailed
  <2>8. CASE JobCompletes(t)
    BY <2>8 DEF JobCompletes, RunGoto, RemoveJob
  <2> QED
    BY <1>3, <2>1, <2>2, <2>3, <2>4, <2>5, <2>6, <2>7, <2>8 DEF RunStep
<1>4. ASSUME NEW t \in Tasks, RunningLands(t) \/ WindowPasses(t) \/ PrecheckDone(t) PROVE FenceInv'
  BY <1>4 DEF RunningLands, UpdateStatus, WindowPasses, PrecheckDone, RemoveJob
<1>5. ASSUME NEW j \in Jobs, StalledCheck(j) PROVE FenceInv'
  BY <1>5 DEF StalledCheck
<1>6. ASSUME NEW j \in Jobs, Deliver(j) PROVE FenceInv'
  BY <1>6 DEF Deliver
<1>7. ASSUME Environment PROVE FenceInv'
  <2>1. ASSUME NEW t \in Tasks, CreateBegin(t) \/ CancelBegin(t) PROVE FenceInv'
    BY <2>1 DEF CreateBegin, CreateGoto, CancelBegin, CancelGoto
  <2>2. ASSUME NEW t \in Tasks, CreateFault(t) PROVE FenceInv'
    BY <2>2 DEF CreateFault, CreateThrow, CreateGoto, CreateInFlight, Fault
  <2>3. ASSUME NEW t \in Tasks, CancelFault(t) PROVE FenceInv'
    BY <2>3 DEF CancelFault, CancelThrow, CancelGoto, Fault
  <2>4. ASSUME NEW t \in Tasks, RunFault(t) PROVE FenceInv'
    BY <2>4 DEF RunFault, RunGoto, Fault
  <2>5. ASSUME NEW t \in Tasks, RoundAnswerLost(t) \/ RunningLost(t) PROVE FenceInv'
    BY <2>5 DEF RoundAnswerLost, RunGoto, Fault, RunningLost
  <2>6. ASSUME NEW t \in Tasks, PrecheckFault(t) PROVE FenceInv'
    BY <2>6 DEF PrecheckFault, Fault
  <2>7. CASE Crash
    BY <2>7 DEF Crash, CreateInFlight
  <2> QED
    BY <1>7, <2>1, <2>2, <2>3, <2>4, <2>5, <2>6, <2>7 DEF Environment
<1>8. CASE UNCHANGED vars
  BY <1>8 DEF vars
<1> QED
  BY <1>1, <1>2, <1>3, <1>4, <1>5, <1>6, <1>7, <1>8 DEF Next

\* Once a cancel() has returned, no further round starts for the task, provided
\* the process does not crash (the flag lives in memory) and the task was not
\* cancelled while its create() was still running.
THEOREM NoNewRoundAfterCancelHolds ==
  ASSUME "earlyCancel" \notin Races, MaxCrashes = 0
  PROVE  Spec => NoNewRoundAfterCancel
<1>1. Init => FenceInv
  BY DEF Init, FenceInv
<1>2. JobInv /\ JobInv' /\ FenceInv /\ [Next]_vars => FenceInv'
  BY FenceInvNext
<1>3. JobInv /\ FenceInv /\ [Next]_vars =>
        [\A t \in cancelDone : run'[t] = "round" => run[t] = "round"]_vars
  <2> SUFFICES ASSUME JobInv, FenceInv, [Next]_vars, NEW u \in cancelDone,
                      run'[u] = "round", run[u] # "round"
               PROVE  FALSE
    OBVIOUS
  <2> u \in Tasks
    BY DEF JobInv, TypeOK
  <2>0. ~LoopRound(u)
    BY MainFacts DEF JobInv, TypeOK, RunIffActive, FenceInv, Fenced, LoopRound
  <2> USE MainFacts, <2>0 DEF JobInv, TypeOK, handlerVars, workerVars, queueVars, bounds
  <2>1. ASSUME NEW t \in Tasks, CreateStep(t) PROVE FALSE
    <3>1. CASE CreateCount(t) \/ CreateFind(t) \/ OverrideDone(t)
      BY <3>1 DEF CreateCount, CreateGoto, CreateFind, Siblings, OverrideDone
    <3>2. CASE \E v \in Tasks : OverrideDropMain(t, v)
      BY <3>2 DEF OverrideDropMain, CreateGoto, Removable, RemoveJob
    <3>3. CASE OverrideDropPrecheck(t)
      BY <3>3 DEF OverrideDropPrecheck, CreateGoto, Removable, RemoveJob
    <3>4. CASE OverrideWrite(t)
      BY <3>4 DEF OverrideWrite, CreateGoto, LaterUpdate, UpdateStatus
    <3>5. CASE OverrideLocked(t)
      BY <3>5 DEF OverrideLocked, CreateThrow, CreateGoto
    <3>6. CASE CreateSave(t)
      BY <3>6 DEF CreateSave, CreateGoto, UpdateStatus
    <3>7. CASE ScheduleMain(t)
      BY <3>7 DEF ScheduleMain, CreateGoto, AddJob
    <3>8. CASE SchedulePrecheck(t)
      BY <3>8 DEF SchedulePrecheck, CreateGoto, AddJob
    <3> QED
      BY <2>1, <3>1, <3>2, <3>3, <3>4, <3>5, <3>6, <3>7, <3>8 DEF CreateStep
  <2>2. ASSUME NEW t \in Tasks, CancelStep(t) PROVE FALSE
    <3>1. CASE CancelRead(t)
      BY <3>1 DEF CancelRead, CancelGoto
    <3>2. CASE CancelDropMain(t)
      BY <3>2 DEF CancelDropMain, CancelGoto, Removable, RemoveJob
    <3>3. CASE CancelDropPrecheck(t)
      BY <3>3 DEF CancelDropPrecheck, CancelGoto, Removable, RemoveJob
    <3>4. CASE CancelWrite(t)
      BY <3>4 DEF CancelWrite, CancelGoto, LaterUpdate, UpdateStatus
    <3>5. CASE CancelLocked(t)
      BY <3>5 DEF CancelLocked, CancelThrow, CancelGoto
    <3> QED
      BY <2>2, <3>1, <3>2, <3>3, <3>4, <3>5 DEF CancelStep
  <2>3. ASSUME NEW t \in Tasks, RunStep(t) PROVE FALSE
    <3>1. CASE LoadTask(t)
      BY <3>1 DEF LoadTask, RunGoto
    <3>2. CASE LoopExpired(t) \/ LoopCancelled(t) \/ LoopRound(t)
      BY <3>2 DEF LoopExpired, RunGoto, LoopCancelled, LoopRound
    <3>3. CASE RoundBooks(t) \/ RoundRetries(t) \/ RoundFatal(t)
      BY <3>3 DEF RoundBooks, RunGoto, RoundRetries, RoundFatal
    <3>4. CASE SleepOver(t) \/ SleepCancelled(t)
      BY <3>4 DEF SleepOver, RunGoto, SleepCancelled
    <3>5. CASE MarkSuccess(t)
      BY <3>5 DEF MarkSuccess, FinalUpdate, LaterUpdate, UpdateStatus, RunGoto
    <3>6. CASE MarkFailed(t)
      BY <3>6 DEF MarkFailed, FinalUpdate, LaterUpdate, UpdateStatus, RunGoto
    <3>7. CASE TellSuccess(t) \/ TellFailed(t)
      BY <3>7 DEF TellSuccess, Tell, RunGoto, TellFailed
    <3>8. CASE JobCompletes(t)
      BY <3>8 DEF JobCompletes, RunGoto, RemoveJob
    <3> QED
      BY <2>3, <3>1, <3>2, <3>3, <3>4, <3>5, <3>6, <3>7, <3>8 DEF RunStep
  <2>4. ASSUME NEW t \in Tasks, RunningLands(t) \/ WindowPasses(t) \/ PrecheckDone(t) PROVE FALSE
    BY <2>4 DEF RunningLands, UpdateStatus, WindowPasses, PrecheckDone, RemoveJob
  <2>5. ASSUME NEW j \in Jobs, StalledCheck(j) PROVE FALSE
    BY <2>5 DEF StalledCheck
  <2>6. ASSUME NEW j \in Jobs, Deliver(j) PROVE FALSE
    BY <2>6 DEF Deliver, Jobs
  <2>7. ASSUME Environment PROVE FALSE
    <3>1. ASSUME NEW t \in Tasks, CreateBegin(t) \/ CancelBegin(t) PROVE FALSE
      BY <3>1 DEF CreateBegin, CreateGoto, CancelBegin, CancelGoto
    <3>2. ASSUME NEW t \in Tasks, CreateFault(t) PROVE FALSE
      BY <3>2 DEF CreateFault, CreateThrow, CreateGoto, CreateInFlight, Fault
    <3>3. ASSUME NEW t \in Tasks, CancelFault(t) PROVE FALSE
      BY <3>3 DEF CancelFault, CancelThrow, CancelGoto, Fault
    <3>4. ASSUME NEW t \in Tasks, RunFault(t) PROVE FALSE
      BY <3>4 DEF RunFault, RunGoto, Fault
    <3>5. ASSUME NEW t \in Tasks, RoundAnswerLost(t) \/ RunningLost(t) PROVE FALSE
      BY <3>5 DEF RoundAnswerLost, RunGoto, Fault, RunningLost
    <3>6. ASSUME NEW t \in Tasks, PrecheckFault(t) PROVE FALSE
      BY <3>6 DEF PrecheckFault, Fault
    <3>7. CASE Crash
      BY <3>7 DEF Crash, CreateInFlight
    <3> QED
      BY <2>7, <3>1, <3>2, <3>3, <3>4, <3>5, <3>6, <3>7 DEF Environment
  <2>8. CASE UNCHANGED vars
    BY <2>8 DEF vars
  <2> QED
    BY <2>1, <2>2, <2>3, <2>4, <2>5, <2>6, <2>7, <2>8 DEF Next
<1> QED
  BY <1>1, <1>2, <1>3, JobInvHolds, PTL DEF Spec, NoNewRoundAfterCancel
=============================================================================
