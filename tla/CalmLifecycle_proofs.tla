------------------------- MODULE CalmLifecycle_proofs -------------------------
(***************************************************************************)
(* Theorems about GrabTaskLifecycle while the process does not crash: the  *)
(* job of a task is then delivered at most once, and each status, flag and *)
(* handler position bounds what may still happen to the task.              *)
(***************************************************************************)
EXTENDS GrabTaskLifecycle_proofs

NoStalledMain == \A t \in Tasks : job[Main(t)] # "stalled"
-----------------------------------------------------------------------------
(* One delivery, one verdict.                                                *)

\* A run that can still tell the user something has told nothing so far.
VerdictInv ==
  /\ NoStalledMain
  /\ OneVerdict
  /\ \A t \in Tasks :
       \/ createPc[t] \in BeforeSave \cup {"addMain"}
       \/ job[Main(t)] = "queued"
       \/ run[t] \notin {"idle", "done"}
       => \A v \in Verdicts : <<t, v>> \notin told

LEMMA VerdictInvNext ==
  ASSUME MaxCrashes = 0, JobInv, JobInv', VerdictInv, [Next]_vars
  PROVE  VerdictInv'
<1> USE MainFacts DEF JobInv, TypeOK, handlerVars, workerVars, queueVars, bounds,
   RunIffActive, BeforeSave, RowExists, VerdictInv, NoStalledMain, OneVerdict, Verdicts
<1>1. ASSUME NEW t \in Tasks, CreateStep(t) PROVE VerdictInv'
  <2>1. CASE CreateCount(t) \/ CreateFind(t) \/ OverrideDone(t)
    BY <2>1 DEF CreateCount, CreateGoto, CreateFind, Siblings, OverrideDone
  <2>2. CASE \E v \in Tasks : OverrideDropMain(t, v)
    BY <2>2 DEF OverrideDropMain, CreateGoto, Removable, RemoveJob
  <2>3. CASE OverrideDropPrecheck(t)
    BY <2>3 DEF OverrideDropPrecheck, CreateGoto, Removable, RemoveJob
  <2>4. CASE OverrideWrite(t)
    BY <2>4 DEF OverrideWrite, CreateGoto, LaterUpdate, UpdateStatus
  <2>5. CASE OverrideLocked(t)
    BY <2>5 DEF OverrideLocked, CreateThrow, CreateGoto
  <2>6. CASE CreateSave(t)
    BY <2>6 DEF CreateSave, CreateGoto, UpdateStatus
  <2>7. CASE ScheduleMain(t)
    BY <2>7 DEF ScheduleMain, CreateGoto, AddJob
  <2>8. CASE SchedulePrecheck(t)
    BY <2>8 DEF SchedulePrecheck, CreateGoto, AddJob
  <2> QED
    BY <1>1, <2>1, <2>2, <2>3, <2>4, <2>5, <2>6, <2>7, <2>8 DEF CreateStep
<1>2. ASSUME NEW t \in Tasks, CancelStep(t) PROVE VerdictInv'
  <2>1. CASE CancelRead(t)
    BY <2>1 DEF CancelRead, CancelGoto
  <2>2. CASE CancelDropMain(t)
    BY <2>2 DEF CancelDropMain, CancelGoto, Removable, RemoveJob
  <2>3. CASE CancelDropPrecheck(t)
    BY <2>3 DEF CancelDropPrecheck, CancelGoto, Removable, RemoveJob
  <2>4. CASE CancelWrite(t)
    BY <2>4 DEF CancelWrite, CancelGoto, LaterUpdate, UpdateStatus
  <2>5. CASE CancelLocked(t)
    BY <2>5 DEF CancelLocked, CancelThrow, CancelGoto
  <2> QED
    BY <1>2, <2>1, <2>2, <2>3, <2>4, <2>5 DEF CancelStep
<1>3. ASSUME NEW t \in Tasks, RunStep(t) PROVE VerdictInv'
  <2>1. CASE LoadTask(t)
    BY <2>1 DEF LoadTask, RunGoto
  <2>2. CASE LoopExpired(t) \/ LoopCancelled(t) \/ LoopRound(t)
    BY <2>2 DEF LoopExpired, RunGoto, LoopCancelled, LoopRound
  <2>3. CASE RoundBooks(t) \/ RoundRetries(t) \/ RoundFatal(t)
    BY <2>3 DEF RoundBooks, RunGoto, RoundRetries, RoundFatal
  <2>4. CASE SleepOver(t) \/ SleepCancelled(t)
    BY <2>4 DEF SleepOver, RunGoto, SleepCancelled
  <2>5. CASE MarkSuccess(t)
    BY <2>5 DEF MarkSuccess, FinalUpdate, LaterUpdate, UpdateStatus, RunGoto
  <2>6. CASE MarkFailed(t)
    BY <2>6 DEF MarkFailed, FinalUpdate, LaterUpdate, UpdateStatus, RunGoto
  <2>7. CASE TellSuccess(t) \/ TellFailed(t)
    BY <2>7 DEF TellSuccess, Tell, RunGoto, TellFailed
  <2>8. CASE JobCompletes(t)
    BY <2>8 DEF JobCompletes, RunGoto, RemoveJob
  <2> QED
    BY <1>3, <2>1, <2>2, <2>3, <2>4, <2>5, <2>6, <2>7, <2>8 DEF RunStep
<1>4. ASSUME NEW t \in Tasks, RunningLands(t) \/ WindowPasses(t) \/ PrecheckDone(t) PROVE VerdictInv'
  BY <1>4 DEF RunningLands, UpdateStatus, WindowPasses, PrecheckDone, RemoveJob
<1>5. ASSUME NEW j \in Jobs, StalledCheck(j) PROVE VerdictInv'
  BY <1>5 DEF StalledCheck
<1>6. ASSUME NEW j \in Jobs, Deliver(j) PROVE VerdictInv'
  <2>1. PICK t \in Tasks : j = Main(t) \/ j = Precheck(t)
    BY DEF Jobs, Kinds, Main, Precheck
  <2>2. CASE j = Main(t)
    <3>1. run' = [run EXCEPT ![t] = "find"]
      BY <1>6, <2>2 DEF Deliver, Main
    <3> QED
      BY <1>6, <2>2, <3>1 DEF Deliver
  <2>3. CASE j = Precheck(t)
    <3>1. run' = run
      BY <1>6, <2>3 DEF Deliver, Precheck
    <3> QED
      BY <1>6, <2>3, <3>1 DEF Deliver
  <2> QED
    BY <2>1, <2>2, <2>3
<1>7. ASSUME Environment PROVE VerdictInv'
  <2>1. ASSUME NEW t \in Tasks, CreateBegin(t) \/ CancelBegin(t) PROVE VerdictInv'
    BY <2>1 DEF CreateBegin, CreateGoto, CancelBegin, CancelGoto
  <2>2. ASSUME NEW t \in Tasks, CreateFault(t) PROVE VerdictInv'
    BY <2>2 DEF CreateFault, CreateThrow, CreateGoto, CreateInFlight, Fault
  <2>3. ASSUME NEW t \in Tasks, CancelFault(t) PROVE VerdictInv'
    BY <2>3 DEF CancelFault, CancelThrow, CancelGoto, Fault
  <2>4. ASSUME NEW t \in Tasks, RunFault(t) PROVE VerdictInv'
    BY <2>4 DEF RunFault, RunGoto, Fault
  <2>5. ASSUME NEW t \in Tasks, RoundAnswerLost(t) \/ RunningLost(t) PROVE VerdictInv'
    BY <2>5 DEF RoundAnswerLost, RunGoto, Fault, RunningLost
  <2>6. ASSUME NEW t \in Tasks, PrecheckFault(t) PROVE VerdictInv'
    BY <2>6 DEF PrecheckFault, Fault
  <2>7. CASE Crash
    BY <2>7 DEF Crash, CreateInFlight
  <2> QED
    BY <1>7, <2>1, <2>2, <2>3, <2>4, <2>5, <2>6, <2>7 DEF Environment
<1>8. CASE UNCHANGED vars
  BY <1>8 DEF vars
<1> QED
  BY <1>1, <1>2, <1>3, <1>4, <1>5, <1>6, <1>7, <1>8 DEF Next

\* As long as the process does not crash, the user is never told both that a task
\* succeeded and that it failed.
THEOREM OneVerdictHolds == ASSUME MaxCrashes = 0 PROVE Spec => []OneVerdict
<1>1. Init => VerdictInv
  BY DEF Init, VerdictInv, NoStalledMain, OneVerdict, Main, Jobs, Kinds
<1>2. JobInv /\ JobInv' /\ VerdictInv /\ [Next]_vars => VerdictInv'
  BY VerdictInvNext
<1>3. VerdictInv => OneVerdict
  BY DEF VerdictInv
<1> QED
  BY <1>1, <1>2, <1>3, JobInvHolds, PTL DEF Spec

-----------------------------------------------------------------------------
(* A task that has been loaded, or whose job was taken away, is never loaded *)
(* again.                                                                    *)

CreateOver(t) == createPc[t] \in {"returned", "threw"}

\* The only job of the task has been delivered and read, or is gone, and no
\* create() will add it again.
Past(t) ==
  /\ job[Main(t)] # "queued" /\ run[t] # "find"
  /\ createPc[t] \notin BeforeSave \cup {"addMain"}

PastInv ==
  /\ NoStalledMain
  /\ \A c \in Tasks : \A v \in victims[c] : CreateOver(v)
  /\ \A c \in Tasks : createPc[c] \in {"dropPrecheck", "writeFailed"} =>
       CreateOver(victim[c]) /\ Past(victim[c])
  /\ \A t \in Tasks : cancelPc[t] \in {"dropPrecheck", "writeCancelled"} => Past(t)
  /\ \A t \in Tasks : status[t] \in Terminal \cup {"running"} => Past(t)
  /\ \A t \in runningWrite \cup cancelFlag : Past(t)

LEMMA PastInvNext ==
  ASSUME "earlyCancel" \notin Races, "parallelCreate" \notin Races, MaxCrashes = 0,
         JobInv, JobInv', LookupInv, FenceInv, PastInv, [Next]_vars
  PROVE  PastInv'
<1> USE MainFacts DEF JobInv, TypeOK, handlerVars, workerVars, queueVars, bounds,
   RunIffActive, BeforeSave, RowExists, PastInv, Past, CreateOver, NoStalledMain, Terminal
<1>0. /\ \A t \in Tasks : cancelPc[t] # "idle" => CreateOver(t)
      /\ \A t \in Tasks : \A u \in Siblings(t) :
           CreateInFlight(t) /\ CreateInFlight(u) => t = u
  BY DEF FenceInv, LookupInv
<1>1. ASSUME NEW t \in Tasks, CreateStep(t) PROVE PastInv'
  <2>1a. CASE CreateCount(t) \/ OverrideDone(t)
    BY <2>1a DEF CreateCount, CreateGoto, OverrideDone
  <2>1b. CASE CreateFind(t)
    <3>1. ASSUME NEW u \in Siblings(t), status[u] = "pending" PROVE u # t /\ CreateOver(u)
      BY <1>0, <2>1b, <3>1 DEF CreateFind, Siblings, CreateInFlight, CreatePc
    <3> QED
      BY <2>1b, <3>1 DEF CreateFind, CreateGoto, Siblings
  <2>2. CASE \E v \in Tasks : OverrideDropMain(t, v)
    BY <2>2 DEF OverrideDropMain, CreateGoto, Removable, RemoveJob
  <2>3. CASE OverrideDropPrecheck(t)
    BY <2>3 DEF OverrideDropPrecheck, CreateGoto, Removable, RemoveJob
  <2>4. CASE OverrideWrite(t)
    BY <2>4 DEF OverrideWrite, CreateGoto, LaterUpdate, UpdateStatus
  <2>5. CASE OverrideLocked(t)
    BY <2>5 DEF OverrideLocked, CreateThrow, CreateGoto
  <2>6. CASE CreateSave(t)
    BY <2>6 DEF CreateSave, CreateGoto, UpdateStatus
  <2>7. CASE ScheduleMain(t)
    BY <2>7 DEF ScheduleMain, CreateGoto, AddJob
  <2>8. CASE SchedulePrecheck(t)
    BY <2>8 DEF SchedulePrecheck, CreateGoto, AddJob
  <2> QED
    BY <1>1, <2>1a, <2>1b, <2>2, <2>3, <2>4, <2>5, <2>6, <2>7, <2>8 DEF CreateStep
<1>2. ASSUME NEW t \in Tasks, CancelStep(t) PROVE PastInv'
  <2>1. CASE CancelRead(t)
    BY <2>1 DEF CancelRead, CancelGoto
  <2>2. CASE CancelDropMain(t)
    <3>1. CreateOver(t) /\ run[t] = "idle"
      BY <1>0, <2>2 DEF CancelDropMain, Removable
    <3> QED
      BY <2>2, <3>1 DEF CancelDropMain, CancelGoto, Removable, RemoveJob
  <2>3. CASE CancelDropPrecheck(t)
    BY <2>3 DEF CancelDropPrecheck, CancelGoto, Removable, RemoveJob
  <2>4. CASE CancelWrite(t)
    BY <2>4 DEF CancelWrite, CancelGoto, LaterUpdate, UpdateStatus
  <2>5. CASE CancelLocked(t)
    BY <2>5 DEF CancelLocked, CancelThrow, CancelGoto
  <2> QED
    BY <1>2, <2>1, <2>2, <2>3, <2>4, <2>5 DEF CancelStep
<1>3. ASSUME NEW t \in Tasks, RunStep(t) PROVE PastInv'
  <2>1. CASE LoadTask(t)
    BY <2>1 DEF LoadTask, RunGoto
  <2>2. CASE LoopExpired(t) \/ LoopCancelled(t) \/ LoopRound(t)
    BY <2>2 DEF LoopExpired, RunGoto, LoopCancelled, LoopRound
  <2>3. CASE RoundBooks(t) \/ RoundRetries(t) \/ RoundFatal(t)
    BY <2>3 DEF RoundBooks, RunGoto, RoundRetries, RoundFatal
  <2>4. CASE SleepOver(t) \/ SleepCancelled(t)
    BY <2>4 DEF SleepOver, RunGoto, SleepCancelled
  <2>5. CASE MarkSuccess(t)
    BY <2>5 DEF MarkSuccess, FinalUpdate, LaterUpdate, UpdateStatus, RunGoto
  <2>6. CASE MarkFailed(t)
    BY <2>6 DEF MarkFailed, FinalUpdate, LaterUpdate, UpdateStatus, RunGoto
  <2>7. CASE TellSuccess(t) \/ TellFailed(t)
    BY <2>7 DEF TellSuccess, Tell, RunGoto, TellFailed
  <2>8. CASE JobCompletes(t)
    BY <2>8 DEF JobCompletes, RunGoto, RemoveJob
  <2> QED
    BY <1>3, <2>1, <2>2, <2>3, <2>4, <2>5, <2>6, <2>7, <2>8 DEF RunStep
<1>4. ASSUME NEW t \in Tasks, RunningLands(t) \/ WindowPasses(t) \/ PrecheckDone(t) PROVE PastInv'
  BY <1>4 DEF RunningLands, UpdateStatus, WindowPasses, PrecheckDone, RemoveJob
<1>5. ASSUME NEW j \in Jobs, StalledCheck(j) PROVE PastInv'
  BY <1>5 DEF StalledCheck
<1>6. ASSUME NEW j \in Jobs, Deliver(j) PROVE PastInv'
  <2>1. PICK t \in Tasks : j = Main(t) \/ j = Precheck(t)
    BY DEF Jobs, Kinds, Main, Precheck
  <2>2. CASE j = Main(t)
    <3>1. run' = [run EXCEPT ![t] = "find"]
      BY <1>6, <2>2 DEF Deliver, Main
    <3> QED
      BY <1>6, <2>2, <3>1 DEF Deliver
  <2>3. CASE j = Precheck(t)
    <3>1. run' = run
      BY <1>6, <2>3 DEF Deliver, Precheck
    <3> QED
      BY <1>6, <2>3, <3>1 DEF Deliver
  <2> QED
    BY <2>1, <2>2, <2>3
<1>7. ASSUME Environment PROVE PastInv'
  <2>1. ASSUME NEW t \in Tasks, CreateBegin(t) \/ CancelBegin(t) PROVE PastInv'
    BY <2>1 DEF CreateBegin, CreateGoto, CancelBegin, CancelGoto
  <2>2. ASSUME NEW t \in Tasks, CreateFault(t) PROVE PastInv'
    BY <2>2 DEF CreateFault, CreateThrow, CreateGoto, CreateInFlight, Fault
  <2>3. ASSUME NEW t \in Tasks, CancelFault(t) PROVE PastInv'
    BY <2>3 DEF CancelFault, CancelThrow, CancelGoto, Fault
  <2>4. ASSUME NEW t \in Tasks, RunFault(t) PROVE PastInv'
    BY <2>4 DEF RunFault, RunGoto, Fault
  <2>5. ASSUME NEW t \in Tasks, RoundAnswerLost(t) \/ RunningLost(t) PROVE PastInv'
    BY <2>5 DEF RoundAnswerLost, RunGoto, Fault, RunningLost
  <2>6. ASSUME NEW t \in Tasks, PrecheckFault(t) PROVE PastInv'
    BY <2>6 DEF PrecheckFault, Fault
  <2>7. CASE Crash
    BY <2>7 DEF Crash, CreateInFlight
  <2> QED
    BY <1>7, <2>1, <2>2, <2>3, <2>4, <2>5, <2>6, <2>7 DEF Environment
<1>8. CASE UNCHANGED vars
  BY <1>8 DEF vars
<1> QED
  BY <1>1, <1>2, <1>3, <1>4, <1>5, <1>6, <1>7, <1>8 DEF Next

LEMMA PastInvHolds ==
  ASSUME "earlyCancel" \notin Races, "parallelCreate" \notin Races, MaxCrashes = 0
  PROVE  Spec => [](JobInv /\ PastInv)
<1>1. Init => LookupInv /\ FenceInv /\ PastInv
  BY DEF Init, LookupInv, FenceInv, PastInv, NoStalledMain, TypeOK, OnePendingUnlessUnseen, LookedUp,
         CreateInFlight, Main, Jobs, Kinds,
         Terminal, Status, JobState, CreatePc, CancelPc, RunPc, Verdicts
<1>2. LookupInv /\ [Next]_vars => LookupInv'
  BY LookupInvNext
<1>3. JobInv /\ JobInv' /\ FenceInv /\ [Next]_vars => FenceInv'
  BY FenceInvNext
<1>4. JobInv /\ JobInv' /\ LookupInv /\ FenceInv /\ PastInv /\ [Next]_vars => PastInv'
  BY PastInvNext
<1> QED
  BY <1>1, <1>2, <1>3, <1>4, JobInvHolds, PTL DEF Spec

\* Without crashes, and with create() and cancel() calls that do not overlap on an
\* account or a task, a task in a terminal status has no queued job, even when
\* the RUNNING update lands late.
THEOREM TerminalNeverQueuedHolds ==
  ASSUME "earlyCancel" \notin Races, "parallelCreate" \notin Races, MaxCrashes = 0
  PROVE  Spec => []TerminalNeverQueued
<1>1. PastInv => TerminalNeverQueued
  BY DEF PastInv, Past, TerminalNeverQueued
<1> QED
  BY <1>1, PastInvHolds, PTL

-----------------------------------------------------------------------------
(* A final status stays, and a running row always has somebody to end it.    *)

\* Nothing can leave the row in "running", or somebody is about to write it, or
\* died before writing it.
Safe(t) ==
  \/ status[t] # "running" /\ t \notin runningWrite
  \/ Handling(t)
  \/ t \in aborted

CalmInv ==
  /\ \A t \in runningWrite : status[t] \notin Terminal \cup {"running"}
  /\ CancelledIsTerminal
  /\ \A t \in Tasks :
       \/ job[Main(t)] = "none"
       \/ run[t] \in {"tellWin", "tellLose", "done"}
       \/ t \in cancelFlag
       => Safe(t)

LEMMA CalmInvNext ==
  ASSUME Races = {}, MaxCrashes = 0,
         JobInv, JobInv', PastInv, CalmInv, [Next]_vars
  PROVE  CalmInv'
<1> USE MainFacts DEF JobInv, TypeOK, handlerVars, workerVars, queueVars, bounds,
   RunIffActive, BeforeSave, RowExists, PastInv, Past, CreateOver, NoStalledMain, Terminal,
   CalmInv, Safe, Handling, CreateOrphans, CancelOrphans, CancelledIsTerminal
<1>1. ASSUME NEW t \in Tasks, CreateStep(t) PROVE CalmInv'
  <2>1. CASE CreateCount(t)
    BY <2>1 DEF CreateCount, CreateGoto
  <2>2. CASE CreateFind(t)
    BY <2>2 DEF CreateFind, CreateGoto, Siblings
  <2>3. CASE OverrideDone(t)
    BY <2>3 DEF OverrideDone, CreateGoto
  <2>4. CASE \E v \in Tasks : OverrideDropMain(t, v)
    BY <2>4 DEF OverrideDropMain, CreateGoto, Removable, RemoveJob
  <2>5. CASE OverrideDropPrecheck(t)
    BY <2>5 DEF OverrideDropPrecheck, CreateGoto, Removable, RemoveJob
  <2>6. CASE OverrideWrite(t)
    BY <2>6 DEF OverrideWrite, CreateGoto, LaterUpdate, UpdateStatus
  <2>7. CASE OverrideLocked(t)
    BY <2>7 DEF OverrideLocked, CreateThrow, CreateGoto
  <2>8. CASE CreateSave(t)
    BY <2>8 DEF CreateSave, CreateGoto, UpdateStatus
  <2>9. CASE ScheduleMain(t)
    BY <2>9 DEF ScheduleMain, CreateGoto, AddJob
  <2>10. CASE SchedulePrecheck(t)
    BY <2>10 DEF SchedulePrecheck, CreateGoto, AddJob
  <2> QED
    BY <1>1, <2>1, <2>2, <2>3, <2>4, <2>5, <2>6, <2>7, <2>8, <2>9, <2>10 DEF CreateStep
<1>2. ASSUME NEW t \in Tasks, CancelStep(t) PROVE CalmInv'
  <2>1. CASE CancelRead(t)
    BY <2>1 DEF CancelRead, CancelGoto
  <2>2. CASE CancelDropMain(t)
    BY <2>2 DEF CancelDropMain, CancelGoto, Removable, RemoveJob
  <2>3. CASE CancelDropPrecheck(t)
    BY <2>3 DEF CancelDropPrecheck, CancelGoto, Removable, RemoveJob
  <2>4. CASE CancelWrite(t)
    BY <2>4 DEF CancelWrite, CancelGoto, LaterUpdate, UpdateStatus
  <2>5. CASE CancelLocked(t)
    BY <2>5 DEF CancelLocked, CancelThrow, CancelGoto
  <2> QED
    BY <1>2, <2>1, <2>2, <2>3, <2>4, <2>5 DEF CancelStep
<1>3. ASSUME NEW t \in Tasks, RunStep(t) PROVE CalmInv'
  <2>1. CASE LoadTask(t)
    BY <2>1 DEF LoadTask, RunGoto
  <2>2. CASE LoopExpired(t) \/ LoopCancelled(t) \/ LoopRound(t)
    BY <2>2 DEF LoopExpired, RunGoto, LoopCancelled, LoopRound
  <2>3. CASE RoundBooks(t) \/ RoundRetries(t) \/ RoundFatal(t)
    BY <2>3 DEF RoundBooks, RunGoto, RoundRetries, RoundFatal
  <2>4. CASE SleepOver(t) \/ SleepCancelled(t)
    BY <2>4 DEF SleepOver, RunGoto, SleepCancelled
  <2>5. CASE MarkSuccess(t)
    BY <2>5 DEF MarkSuccess, FinalUpdate, LaterUpdate, UpdateStatus, RunGoto
  <2>6. CASE MarkFailed(t)
    BY <2>6 DEF MarkFailed, FinalUpdate, LaterUpdate, UpdateStatus, RunGoto
  <2>7. CASE TellSuccess(t) \/ TellFailed(t)
    BY <2>7 DEF TellSuccess, Tell, RunGoto, TellFailed
  <2>8. CASE JobCompletes(t)
    BY <2>8 DEF JobCompletes, RunGoto, RemoveJob
  <2> QED
    BY <1>3, <2>1, <2>2, <2>3, <2>4, <2>5, <2>6, <2>7, <2>8 DEF RunStep
<1>4. ASSUME NEW t \in Tasks, RunningLands(t) \/ WindowPasses(t) \/ PrecheckDone(t) PROVE CalmInv'
  BY <1>4 DEF RunningLands, UpdateStatus, WindowPasses, PrecheckDone, RemoveJob
<1>5. ASSUME NEW j \in Jobs, StalledCheck(j) PROVE CalmInv'
  BY <1>5 DEF StalledCheck
<1>6. ASSUME NEW j \in Jobs, Deliver(j) PROVE CalmInv'
  BY <1>6 DEF Deliver
<1>7. ASSUME Environment PROVE CalmInv'
  <2>1. ASSUME NEW t \in Tasks, CreateBegin(t) \/ CancelBegin(t) PROVE CalmInv'
    BY <2>1 DEF CreateBegin, CreateGoto, CancelBegin, CancelGoto
  <2>2. ASSUME NEW t \in Tasks, CreateFault(t) PROVE CalmInv'
    BY <2>2 DEF CreateFault, CreateThrow, CreateGoto, CreateInFlight, Fault
  <2>3. ASSUME NEW t \in Tasks, CancelFault(t) PROVE CalmInv'
    BY <2>3 DEF CancelFault, CancelThrow, CancelGoto, Fault
  <2>4. ASSUME NEW t \in Tasks, RunFault(t) PROVE CalmInv'
    BY <2>4 DEF RunFault, RunGoto, Fault
  <2>5. ASSUME NEW t \in Tasks, RoundAnswerLost(t) \/ RunningLost(t) PROVE CalmInv'
    BY <2>5 DEF RoundAnswerLost, RunGoto, Fault, RunningLost
  <2>6. ASSUME NEW t \in Tasks, PrecheckFault(t) PROVE CalmInv'
    BY <2>6 DEF PrecheckFault, Fault
  <2>7. CASE Crash
    BY <2>7 DEF Crash, CreateInFlight
  <2> QED
    BY <1>7, <2>1, <2>2, <2>3, <2>4, <2>5, <2>6, <2>7 DEF Environment
<1>8. CASE UNCHANGED vars
  BY <1>8 DEF vars
<1> QED
  BY <1>1, <1>2, <1>3, <1>4, <1>5, <1>6, <1>7, <1>8 DEF Next

LEMMA CalmInvHolds ==
  ASSUME Races = {}, MaxCrashes = 0 PROVE Spec => []CalmInv
<1>1. Init => CalmInv
  BY DEF Init, CalmInv, Safe, CancelledIsTerminal
<1>2. JobInv /\ JobInv' /\ PastInv /\ CalmInv /\ [Next]_vars => CalmInv'
  BY CalmInvNext
<1>3. Spec => [](JobInv /\ PastInv)
  BY PastInvHolds
<1> QED
  BY <1>1, <1>2, <1>3, PTL DEF Spec

\* Without crashes and with updates applied in the order they are issued, a task
\* stays in a terminal status once a cancel() of it has returned.
THEOREM CancelledIsTerminalHolds ==
  ASSUME Races = {}, MaxCrashes = 0 PROVE Spec => []CancelledIsTerminal
<1>1. CalmInv => CancelledIsTerminal
  BY DEF CalmInv
<1> QED
  BY <1>1, CalmInvHolds, PTL

\* Under the same conditions a running task keeps a job, unless a handler is at
\* work on it or died half-way: no row is left running with no worker, so no
\* account is locked out of create().
THEOREM RunningHasJobHolds ==
  ASSUME Races = {}, MaxCrashes = 0 PROVE Spec => []RunningHasJob
<1>1. CalmInv => RunningHasJob
  BY DEF CalmInv, Safe, RunningHasJob
<1> QED
  BY <1>1, CalmInvHolds, PTL

-----------------------------------------------------------------------------
(* The tasks live as TaskLife says.                                          *)

\* A task that a create() is overriding has no job any more.
OverrideInv ==
  \A c \in Tasks :
    createPc[c] \in {"dropPrecheck", "writeFailed"} => job[Main(victim[c])] = "none"

LEMMA OverrideInvNext ==
  ASSUME MaxCrashes = 0, JobInv, JobInv', PastInv, OverrideInv, [Next]_vars
  PROVE  OverrideInv'
<1> USE MainFacts DEF JobInv, TypeOK, handlerVars, workerVars, queueVars, bounds,
   RunIffActive, RowExists, PastInv, CreateOver, OverrideInv
<1>1. ASSUME NEW t \in Tasks, CreateStep(t) PROVE OverrideInv'
  <2>1. CASE CreateCount(t) \/ CreateFind(t) \/ OverrideDone(t)
    BY <2>1 DEF CreateCount, CreateGoto, CreateFind, Siblings, OverrideDone
  <2>2. CASE \E v \in Tasks : OverrideDropMain(t, v)
    BY <2>2 DEF OverrideDropMain, CreateGoto, Removable, RemoveJob
  <2>3. CASE OverrideDropPrecheck(t)
    BY <2>3 DEF OverrideDropPrecheck, CreateGoto, Removable, RemoveJob
  <2>4. CASE OverrideWrite(t)
    BY <2>4 DEF OverrideWrite, CreateGoto, LaterUpdate, UpdateStatus
  <2>5. CASE OverrideLocked(t)
    BY <2>5 DEF OverrideLocked, CreateThrow, CreateGoto
  <2>6. CASE CreateSave(t)
    BY <2>6 DEF CreateSave, CreateGoto, UpdateStatus
  <2>7. CASE ScheduleMain(t)
    BY <2>7 DEF ScheduleMain, CreateGoto, AddJob
  <2>8. CASE SchedulePrecheck(t)
    BY <2>8 DEF SchedulePrecheck, CreateGoto, AddJob
  <2> QED
    BY <1>1, <2>1, <2>2, <2>3, <2>4, <2>5, <2>6, <2>7, <2>8 DEF CreateStep
<1>2. ASSUME NEW t \in Tasks, CancelStep(t) PROVE OverrideInv'
  <2>1. CASE CancelRead(t)
    BY <2>1 DEF CancelRead, CancelGoto
  <2>2. CASE CancelDropMain(t)
    BY <2>2 DEF CancelDropMain, CancelGoto, Removable, RemoveJob
  <2>3. CASE CancelDropPrecheck(t)
    BY <2>3 DEF CancelDropPrecheck, CancelGoto, Removable, RemoveJob
  <2>4. CASE CancelWrite(t)
    BY <2>4 DEF CancelWrite, CancelGoto, LaterUpdate, UpdateStatus
  <2>5. CASE CancelLocked(t)
    BY <2>5 DEF CancelLocked, CancelThrow, CancelGoto
  <2> QED
    BY <1>2, <2>1, <2>2, <2>3, <2>4, <2>5 DEF CancelStep
<1>3. ASSUME NEW t \in Tasks, RunStep(t) PROVE OverrideInv'
  <2>1. CASE LoadTask(t)
    BY <2>1 DEF LoadTask, RunGoto
  <2>2. CASE LoopExpired(t) \/ LoopCancelled(t) \/ LoopRound(t)
    BY <2>2 DEF LoopExpired, RunGoto, LoopCancelled, LoopRound
  <2>3. CASE RoundBooks(t) \/ RoundRetries(t) \/ RoundFatal(t)
    BY <2>3 DEF RoundBooks, RunGoto, RoundRetries, RoundFatal
  <2>4. CASE SleepOver(t) \/ SleepCancelled(t)
    BY <2>4 DEF SleepOver, RunGoto, SleepCancelled
  <2>5. CASE MarkSuccess(t)
    BY <2>5 DEF MarkSuccess, FinalUpdate, LaterUpdate, UpdateStatus, RunGoto
  <2>6. CASE MarkFailed(t)
    BY <2>6 DEF MarkFailed, FinalUpdate, LaterUpdate, UpdateStatus, RunGoto
  <2>7. CASE TellSuccess(t) \/ TellFailed(t)
    BY <2>7 DEF TellSuccess, Tell, RunGoto, TellFailed
  <2>8. CASE JobCompletes(t)
    BY <2>8 DEF JobCompletes, RunGoto, RemoveJob
  <2> QED
    BY <1>3, <2>1, <2>2, <2>3, <2>4, <2>5, <2>6, <2>7, <2>8 DEF RunStep
<1>4. ASSUME NEW t \in Tasks, RunningLands(t) \/ WindowPasses(t) \/ PrecheckDone(t) PROVE OverrideInv'
  BY <1>4 DEF RunningLands, UpdateStatus, WindowPasses, PrecheckDone, RemoveJob
<1>5. ASSUME NEW j \in Jobs, StalledCheck(j) PROVE OverrideInv'
  BY <1>5 DEF StalledCheck
<1>6. ASSUME NEW j \in Jobs, Deliver(j) PROVE OverrideInv'
  <2>1. PICK t \in Tasks : j = Main(t) \/ j = Precheck(t)
    BY DEF Jobs, Kinds, Main, Precheck
  <2>2. CASE j = Main(t)
    <3>1. run' = [run EXCEPT ![t] = "find"]
      BY <1>6, <2>2 DEF Deliver, Main
    <3> QED
      BY <1>6, <2>2, <3>1 DEF Deliver
  <2>3. CASE j = Precheck(t)
    <3>1. run' = run
      BY <1>6, <2>3 DEF Deliver, Precheck
    <3> QED
      BY <1>6, <2>3, <3>1 DEF Deliver
  <2> QED
    BY <2>1, <2>2, <2>3
<1>7. ASSUME Environment PROVE OverrideInv'
  <2>1. ASSUME NEW t \in Tasks, CreateBegin(t) \/ CancelBegin(t) PROVE OverrideInv'
    BY <2>1 DEF CreateBegin, CreateGoto, CancelBegin, CancelGoto
  <2>2. ASSUME NEW t \in Tasks, CreateFault(t) PROVE OverrideInv'
    BY <2>2 DEF CreateFault, CreateThrow, CreateGoto, CreateInFlight, Fault
  <2>3. ASSUME NEW t \in Tasks, CancelFault(t) PROVE OverrideInv'
    BY <2>3 DEF CancelFault, CancelThrow, CancelGoto, Fault
  <2>4. ASSUME NEW t \in Tasks, RunFault(t) PROVE OverrideInv'
    BY <2>4 DEF RunFault, RunGoto, Fault
  <2>5. ASSUME NEW t \in Tasks, RoundAnswerLost(t) \/ RunningLost(t) PROVE OverrideInv'
    BY <2>5 DEF RoundAnswerLost, RunGoto, Fault, RunningLost
  <2>6. ASSUME NEW t \in Tasks, PrecheckFault(t) PROVE OverrideInv'
    BY <2>6 DEF PrecheckFault, Fault
  <2>7. CASE Crash
    BY <2>7 DEF Crash, CreateInFlight
  <2> QED
    BY <1>7, <2>1, <2>2, <2>3, <2>4, <2>5, <2>6, <2>7 DEF Environment
<1>8. CASE UNCHANGED vars
  BY <1>8 DEF vars
<1> QED
  BY <1>1, <1>2, <1>3, <1>4, <1>5, <1>6, <1>7, <1>8 DEF Next

\* How the phase of a task follows from its job, its run and its create().
LEMMA PhaseFacts ==
  ASSUME NEW t \in Tasks
  PROVE  /\ run[t] = "tellWin" => Phase(t) = "success"
         /\ run[t] = "tellLose" => Phase(t) = "failed"
         /\ run[t] \in {"find", "top", "round", "sleep", "win", "lose"} => Phase(t) = "served"
         /\ run[t] = "idle" /\ (job[Main(t)] = "queued" \/ ~Scheduled(t)) => Phase(t) = "waiting"
         /\ run[t] = "idle" /\ job[Main(t)] # "queued" /\ Scheduled(t) => Phase(t) = "over"
         /\ run[t] = "done" => Phase(t) = "over"
BY DEF Phase

LEMMA PhaseFactsNext ==
  ASSUME NEW t \in Tasks
  PROVE  /\ run'[t] = "tellWin" => Phase(t)' = "success"
         /\ run'[t] = "tellLose" => Phase(t)' = "failed"
         /\ run'[t] \in {"find", "top", "round", "sleep", "win", "lose"} => Phase(t)' = "served"
         /\ run'[t] = "idle" /\ (job'[Main(t)] = "queued" \/ ~Scheduled(t)') => Phase(t)' = "waiting"
         /\ run'[t] = "idle" /\ job'[Main(t)] # "queued" /\ Scheduled(t)' => Phase(t)' = "over"
         /\ run'[t] = "done" => Phase(t)' = "over"
BY DEF Phase, Main, Scheduled

LEMMA PhaseKept ==
  ASSUME NEW t \in Tasks, run'[t] = run[t], job'[Main(t)] = job[Main(t)],
         Scheduled(t)' <=> Scheduled(t)
  PROVE  Phase(t)' = Phase(t)
BY DEF Phase, Main, Scheduled

\* A step that leaves the phases of all tasks, or of all tasks but one, alone.
LEMMA LifeStutters ==
  ASSUME UNCHANGED <<status, booked, told>>, \A u \in Tasks : Phase(u)' = Phase(u)
  PROVE  UNCHANGED Life!vars
BY DEF Life!vars

LEMMA LifeEnters ==
  ASSUME NEW t \in Tasks, NEW p, Phase(t)' = p,
         \A u \in Tasks : u # t => Phase(u)' = Phase(u)
  PROVE  Life!Enter(t, Phase(t), p)
BY DEF Life!Enter

LEMMA LifeEnds ==
  ASSUME NEW t \in Tasks, Phase(t) \in {"waiting", "served", "success", "failed"},
         Phase(t)' = "over", \A u \in Tasks : u # t => Phase(u)' = Phase(u),
         UNCHANGED <<status, booked, told>>
  PROVE  Life!Next
BY LifeEnters DEF Life!Next, Life!End, Life!Verdicts

LEMMA LifeInit == Init => Life!Init
BY MainFacts DEF Init, Life!Init, Phase, Scheduled, Jobs, Kinds, Main

\* What the invariants say of a task by where its service is.
LEMMA LifeByPlace ==
  ASSUME JobInv, NEW t \in Tasks
  PROVE  /\ ~Scheduled(t) => Phase(t) = "waiting" /\ run[t] = "idle" /\ job[Main(t)] = "none"
         /\ run[t] # "idle" => Scheduled(t) /\ status[t] # "absent"
         /\ run[t] # "find" /\ job[Main(t)] # "queued" /\ Scheduled(t) => Phase(t) # "waiting"
<1>1. createPc[t] \in BeforeSave \cup {"addMain"} <=> ~Scheduled(t)
  BY DEF JobInv, TypeOK, CreatePc, BeforeSave, Scheduled
<1>2. job[Main(t)] # "none" => Scheduled(t) /\ status[t] # "absent"
  BY <1>1 DEF JobInv, RowExists
<1>3. run[t] # "idle" <=> job[Main(t)] = "active"
  BY DEF JobInv, RunIffActive
<1>4. run[t] \in RunPc
  BY DEF JobInv, TypeOK
<1> QED
  BY <1>1, <1>2, <1>3, <1>4, PhaseFacts DEF RunPc

LEMMA LifeCreate ==
  ASSUME JobInv, JobInv', PastInv, OverrideInv, NEW t \in Tasks, CreateStep(t)
  PROVE  [Life!Next]_Life!vars
<1> USE MainFacts DEF workerVars, queueVars, handlerVars, bounds
<1>1. CASE CreateCount(t)
  <2>1. UNCHANGED <<status, booked, told, run, job>> /\ \A u \in Tasks : u # t => createPc'[u] = createPc[u]
    BY <1>1 DEF CreateCount, CreateGoto, JobInv, TypeOK
  <2>2. \A u \in Tasks : u # t => Phase(u)' = Phase(u)
    BY <2>1, PhaseKept DEF Scheduled
  <2>3. ~Scheduled(t)
    BY <1>1 DEF CreateCount, Scheduled
  <2>4. CASE Scheduled(t)'
    BY <2>1, <2>2, <2>3, <2>4, LifeByPlace, PhaseFactsNext, LifeEnds
  <2>5. CASE ~Scheduled(t)'
    BY <2>1, <2>2, <2>3, <2>5, PhaseKept, LifeStutters
  <2> QED
    BY <2>4, <2>5
<1>2. CASE CreateFind(t) \/ OverrideDone(t) \/ OverrideDropPrecheck(t) \/ SchedulePrecheck(t)
  <2>1. /\ UNCHANGED <<status, booked, told, run>> /\ \A u \in Tasks : job'[Main(u)] = job[Main(u)]
        /\ \A u \in Tasks : Scheduled(u)' <=> Scheduled(u)
    <3>1. CASE CreateFind(t) \/ OverrideDone(t)
      BY <3>1 DEF CreateFind, OverrideDone, CreateGoto, Scheduled, JobInv, TypeOK
    <3>2. CASE OverrideDropPrecheck(t)
      <4>1. UNCHANGED <<status, booked, told, run>> /\ \A u \in Tasks : Scheduled(u)' <=> Scheduled(u)
        BY <3>2 DEF OverrideDropPrecheck, CreateGoto, Scheduled, JobInv, TypeOK
      <4>2. job' = [job EXCEPT ![Precheck(victim[t])] = "none"]
        BY <3>2 DEF OverrideDropPrecheck, RemoveJob
      <4>3. victim[t] \in Tasks
        BY <3>2 DEF OverrideDropPrecheck, JobInv, RowExists
      <4> QED
        BY <4>1, <4>2, <4>3 DEF JobInv, TypeOK
    <3>3. CASE SchedulePrecheck(t)
      BY <3>3 DEF SchedulePrecheck, AddJob, CreateGoto, Scheduled, JobInv, TypeOK
    <3> QED
      BY <1>2, <3>1, <3>2, <3>3
  <2> QED
    BY <2>1, PhaseKept, LifeStutters
<1>3. CASE \E v \in Tasks : OverrideDropMain(t, v)
  <2>1. PICK v \in Tasks : OverrideDropMain(t, v)
    BY <1>3
  <2>2. /\ UNCHANGED <<status, booked, told, run>> /\ job'[Main(v)] = "none" /\ job[Main(v)] # "active"
        /\ \A u \in Tasks : u # v => job'[Main(u)] = job[Main(u)]
        /\ \A u \in Tasks : Scheduled(u)' <=> Scheduled(u)
    BY <2>1 DEF OverrideDropMain, Removable, RemoveJob, CreateGoto, Scheduled, JobInv, TypeOK
  <2>3. Scheduled(v) /\ run[v] = "idle"
    BY <2>1, <2>2 DEF PastInv, CreateOver, Scheduled, OverrideDropMain, JobInv, RunIffActive
  <2>4. \A u \in Tasks : u # v => Phase(u)' = Phase(u)
    BY <2>2, PhaseKept
  <2>5. Phase(v)' = "over" /\ Phase(v) \in {"waiting", "over"}
    BY <2>2, <2>3, PhaseFacts, PhaseFactsNext
  <2>6. CASE Phase(v) = "over"
    BY <2>2, <2>4, <2>5, <2>6, LifeStutters
  <2>7. CASE Phase(v) = "waiting"
    BY <2>2, <2>4, <2>5, <2>7, LifeEnds
  <2> QED
    BY <2>5, <2>6, <2>7
<1>4. CASE OverrideWrite(t)
  <2>1. /\ UNCHANGED <<booked, told, run, job>> /\ status' = [status EXCEPT ![victim[t]] = "failed"]
        /\ \A u \in Tasks : Scheduled(u)' <=> Scheduled(u)
    BY <1>4 DEF OverrideWrite, LaterUpdate, UpdateStatus, CreateGoto, Scheduled, JobInv, TypeOK
  <2>2. /\ victim[t] \in Tasks /\ status[victim[t]] # "absent"
        /\ job[Main(victim[t])] = "none" /\ Scheduled(victim[t])
    BY <1>4 DEF OverrideWrite, JobInv, RowExists, OverrideInv, PastInv, CreateOver, Scheduled
  <2>3. Phase(victim[t]) = "over"
    BY <2>2, PhaseFacts DEF JobInv, RunIffActive
  <2>4. \A u \in Tasks : Phase(u)' = Phase(u)
    BY <2>1, PhaseKept
  <2>5. Life!Override(victim[t])
    BY <2>1, <2>2, <2>3, <2>4 DEF Life!Override, Life!Write
  <2> QED
    BY <2>2, <2>5 DEF Life!Next
<1>5. CASE OverrideLocked(t)
  <2>1. /\ UNCHANGED <<status, booked, told, run, job>> /\ ~Scheduled(t) /\ Scheduled(t)'
        /\ \A u \in Tasks : u # t => createPc'[u] = createPc[u]
    BY <1>5 DEF OverrideLocked, CreateThrow, CreateGoto, Scheduled, JobInv, TypeOK
  <2>2. \A u \in Tasks : u # t => Phase(u)' = Phase(u)
    BY <2>1, PhaseKept DEF Scheduled
  <2> QED
    BY <2>1, <2>2, LifeByPlace, PhaseFactsNext, LifeEnds
<1>6. CASE CreateSave(t)
  <2>1. /\ UNCHANGED <<booked, told, run, job>> /\ status' = [status EXCEPT ![t] = "pending"]
        /\ ~Scheduled(t) /\ \A u \in Tasks : Scheduled(u)' <=> Scheduled(u)
    BY <1>6 DEF CreateSave, UpdateStatus, CreateGoto, Scheduled, JobInv, TypeOK
  <2>2. status[t] = "absent"
    BY <1>6 DEF CreateSave, JobInv, RowExists, BeforeSave
  <2>3. \A u \in Tasks : Phase(u)' = Phase(u)
    BY <2>1, PhaseKept
  <2>4. Life!Insert(t)
    BY <2>1, <2>2, <2>3, LifeByPlace DEF Life!Insert, Life!Write
  <2> QED
    BY <2>4 DEF Life!Next
<1>7. CASE ScheduleMain(t)
  <2>1. /\ UNCHANGED <<status, booked, told, run>> /\ job'[Main(t)] = "queued" /\ ~Scheduled(t)
        /\ \A u \in Tasks : u # t => job'[Main(u)] = job[Main(u)] /\ createPc'[u] = createPc[u]
    BY <1>7 DEF ScheduleMain, AddJob, CreateGoto, Scheduled, JobInv, TypeOK
  <2>2. Phase(t)' = Phase(t)
    BY <2>1, LifeByPlace, PhaseFactsNext
  <2>3. \A u \in Tasks : u # t => Phase(u)' = Phase(u)
    BY <2>1, PhaseKept DEF Scheduled
  <2> QED
    BY <2>1, <2>2, <2>3, LifeStutters
<1> QED
  BY <1>1, <1>2, <1>3, <1>4, <1>5, <1>6, <1>7 DEF CreateStep

LEMMA LifeCancel ==
  ASSUME JobInv, JobInv', FenceInv, PastInv, NEW t \in Tasks, CancelStep(t)
  PROVE  [Life!Next]_Life!vars
<1> USE MainFacts DEF workerVars, queueVars, handlerVars, bounds
<1>1. CASE CancelRead(t) \/ CancelDropPrecheck(t) \/ CancelLocked(t)
  <2>1. /\ UNCHANGED <<status, booked, told, run, createPc>>
        /\ \A u \in Tasks : job'[Main(u)] = job[Main(u)]
    BY <1>1 DEF CancelRead, CancelDropPrecheck, CancelLocked, CancelThrow, RemoveJob, JobInv, TypeOK
  <2> QED
    BY <2>1, PhaseKept, LifeStutters DEF Scheduled
<1>2. CASE CancelDropMain(t)
  <2>1. /\ UNCHANGED <<status, booked, told, run, createPc>> /\ job'[Main(t)] = "none"
        /\ job[Main(t)] # "active" /\ \A u \in Tasks : u # t => job'[Main(u)] = job[Main(u)]
    BY <1>2 DEF CancelDropMain, Removable, RemoveJob, JobInv, TypeOK
  <2>2. Scheduled(t) /\ run[t] = "idle"
    BY <1>2, <2>1 DEF CancelDropMain, FenceInv, Scheduled, JobInv, RunIffActive
  <2>3. \A u \in Tasks : u # t => Phase(u)' = Phase(u)
    BY <2>1, PhaseKept DEF Scheduled
  <2>4. Phase(t)' = "over" /\ Phase(t) \in {"waiting", "over"}
    BY <2>1, <2>2, PhaseFacts, PhaseFactsNext DEF Scheduled
  <2>5. CASE Phase(t) = "over"
    BY <2>1, <2>3, <2>4, <2>5, LifeStutters
  <2>6. CASE Phase(t) = "waiting"
    BY <2>1, <2>3, <2>4, <2>6, LifeEnds
  <2> QED
    BY <2>4, <2>5, <2>6
<1>3. CASE CancelWrite(t)
  <2>1. /\ UNCHANGED <<booked, told, run, job, createPc>>
        /\ status' = [status EXCEPT ![t] = "cancelled"]
    BY <1>3 DEF CancelWrite, LaterUpdate, UpdateStatus
  <2>2. status[t] # "absent" /\ Scheduled(t) /\ Past(t)
    BY <1>3 DEF CancelWrite, JobInv, RowExists, PastInv, FenceInv, Scheduled
  <2>3. \A u \in Tasks : Phase(u)' = Phase(u)
    BY <2>1, PhaseKept DEF Scheduled
  <2>4. Phase(t) # "waiting"
    BY <2>2, LifeByPlace DEF Past
  <2>5. Life!Cancel(t)
    BY <2>1, <2>2, <2>3, <2>4 DEF Life!Cancel, Life!Write
  <2> QED
    BY <2>5 DEF Life!Next
<1> QED
  BY <1>1, <1>2, <1>3 DEF CancelStep

\* A step of the worker of one task changes the phase of no other.
LEMMA LifeRun ==
  ASSUME JobInv, JobInv', BookedInv, NEW t \in Tasks, RunStep(t) \/ RoundAnswerLost(t) \/ RunFault(t)
  PROVE  [Life!Next]_Life!vars
<1> USE MainFacts DEF workerVars, queueVars, handlerVars, bounds
<1>0. ASSUME UNCHANGED createPc, run' = [run EXCEPT ![t] = run'[t]],
             \A u \in Tasks : u # t => job'[Main(u)] = job[Main(u)]
      PROVE  \A u \in Tasks : u # t => Phase(u)' = Phase(u)
  BY <1>0, PhaseKept DEF Scheduled, JobInv, TypeOK
<1> DEFINE Serving == {"find", "top", "round", "sleep", "win", "lose"}
<1>1. CASE \/ LoadTask(t) \/ LoopExpired(t) \/ LoopRound(t) \/ RoundRetries(t) \/ RoundFatal(t)
           \/ SleepOver(t)
  <2>1. /\ UNCHANGED <<status, booked, told, createPc, job>> /\ run[t] \in Serving
        /\ run' = [run EXCEPT ![t] = run'[t]] /\ run'[t] \in Serving
    BY <1>1, LifeByPlace DEF LoadTask, LoopExpired, LoopRound, RoundRetries, RoundFatal, SleepOver, RunGoto,
      JobInv, TypeOK
  <2>2. Phase(t)' = Phase(t)
    BY <2>1, PhaseFacts, PhaseFactsNext
  <2> QED
    BY <1>0, <2>1, <2>2, LifeStutters
<1>2. CASE LoopCancelled(t) \/ SleepCancelled(t) \/ RunFault(t)
  <2>1. /\ UNCHANGED <<status, booked, told, createPc>> /\ run[t] \in Serving \cup {"tellWin", "tellLose"}
        /\ run' = [run EXCEPT ![t] = run'[t]]
        /\ run'[t] = "done" \/ (run'[t] = "idle" /\ job'[Main(t)] = "failed")
        /\ \A u \in Tasks : u # t => job'[Main(u)] = job[Main(u)]
    <3>1. CASE LoopCancelled(t) \/ SleepCancelled(t)
      <4>1. /\ run' = [run EXCEPT ![t] = "done"] /\ run[t] \in Serving
            /\ UNCHANGED <<status, booked, told, createPc, job>>
        BY <3>1 DEF LoopCancelled, SleepCancelled, RunGoto
      <4> QED
        BY <4>1 DEF JobInv, TypeOK
    <3>2. CASE RunFault(t)
      <4>1. /\ run' = [run EXCEPT ![t] = "idle"] /\ job' = [job EXCEPT ![Main(t)] = "failed"]
            /\ UNCHANGED <<status, booked, told, createPc>>
            /\ run[t] \in Serving \cup {"tellWin", "tellLose"}
        BY <3>2 DEF RunFault, RunGoto
      <4> QED
        BY <4>1 DEF JobInv, TypeOK
    <3> QED
      BY <1>2, <3>1, <3>2
  <2>2. Scheduled(t)'
    BY <2>1, LifeByPlace DEF Scheduled
  <2>3. Phase(t)' = "over" /\ Phase(t) \in {"served", "success", "failed"}
    BY <2>1, <2>2, PhaseFacts, PhaseFactsNext
  <2> QED
    BY <1>0, <2>1, <2>3, LifeEnds
<1>3. CASE RoundBooks(t) \/ RoundAnswerLost(t)
  <2>1. /\ UNCHANGED <<status, told, createPc, job>> /\ run[t] = "round"
        /\ run' = [run EXCEPT ![t] = run'[t]] /\ run'[t] \in {"win", "round", "sleep"}
        /\ booked' = booked \cup {t}
    BY <1>3 DEF RoundBooks, RoundAnswerLost, RunGoto, JobInv, TypeOK
  <2>2. Phase(t)' = Phase(t) /\ Phase(t) = "served"
    BY <2>1, PhaseFacts, PhaseFactsNext
  <2>3. \A u \in Tasks : Phase(u)' = Phase(u)
    BY <1>0, <2>1, <2>2
  <2>4. Life!Book(t)
    BY <2>1, <2>2, <2>3 DEF Life!Book
  <2> QED
    BY <2>4 DEF Life!Next
<1>4. CASE MarkSuccess(t) \/ MarkFailed(t)
  <2>1. PICK v \in Verdicts :
          /\ v = "success" => run[t] = "win"
          /\ status' = [status EXCEPT ![t] = v] /\ run[t] \in {"win", "lose"}
          /\ run' = [run EXCEPT ![t] = run'[t]]
          /\ run'[t] = IF v = "success" THEN "tellWin" ELSE "tellLose"
          /\ UNCHANGED <<booked, told, createPc, job>>
    BY <1>4 DEF MarkSuccess, MarkFailed, FinalUpdate, LaterUpdate, UpdateStatus, RunGoto, JobInv,
      TypeOK, Verdicts
  <2>2. Phase(t) = "served" /\ Phase(t)' = v
    BY <2>1, PhaseFacts, PhaseFactsNext DEF Verdicts
  <2>3. Life!Enter(t, "served", v)
    BY <1>0, <2>1, <2>2, LifeEnters
  <2>4. v = "success" => t \in booked
    BY <2>1 DEF BookedInv
  <2>5. Life!Judge(t, v)
    BY <2>1, <2>3, <2>4 DEF Life!Judge, Life!Write
  <2> QED
    BY <2>5 DEF Life!Next, Life!Verdicts, Verdicts
<1>5. CASE TellSuccess(t) \/ TellFailed(t)
  <2>1. PICK v \in Verdicts :
          /\ run[t] = IF v = "success" THEN "tellWin" ELSE "tellLose"
          /\ told' = told \cup {<<t, v>>} /\ run' = [run EXCEPT ![t] = "done"]
          /\ UNCHANGED <<status, booked, createPc, job>>
    BY <1>5 DEF TellSuccess, TellFailed, Tell, RunGoto, Verdicts
  <2>2. run'[t] = "done" /\ run' = [run EXCEPT ![t] = run'[t]]
    BY <2>1 DEF JobInv, TypeOK
  <2>3. Phase(t) = v /\ Phase(t)' = "over"
    BY <2>1, <2>2, PhaseFacts, PhaseFactsNext DEF Verdicts
  <2>4. Life!Enter(t, v, "over")
    BY <1>0, <2>1, <2>2, <2>3, LifeEnters
  <2>5. Life!Tell(t, v)
    BY <2>1, <2>4 DEF Life!Tell
  <2> QED
    BY <2>5 DEF Life!Next, Life!Verdicts, Verdicts
<1>6. CASE JobCompletes(t)
  <2>1. /\ UNCHANGED <<status, booked, told, createPc>> /\ run[t] = "done" /\ run'[t] = "idle"
        /\ run' = [run EXCEPT ![t] = run'[t]] /\ job'[Main(t)] = "none"
        /\ \A u \in Tasks : u # t => job'[Main(u)] = job[Main(u)]
    BY <1>6 DEF JobCompletes, RunGoto, RemoveJob, JobInv, TypeOK
  <2>2. Scheduled(t)'
    BY <2>1, LifeByPlace DEF Scheduled
  <2>3. Phase(t)' = Phase(t)
    BY <2>1, <2>2, PhaseFacts, PhaseFactsNext
  <2> QED
    BY <1>0, <2>1, <2>3, LifeStutters
<1> QED
  BY <1>1, <1>2, <1>3, <1>4, <1>5, <1>6 DEF RunStep

LEMMA LifeStep ==
  ASSUME MaxCrashes = 0, JobInv, JobInv', BookedInv, FenceInv, PastInv, CalmInv, OverrideInv,
         [Next]_vars
  PROVE  [Life!Next]_Life!vars
<1> USE MainFacts DEF workerVars, queueVars, handlerVars, bounds
<1>0. ASSUME UNCHANGED <<status, booked, told, run, createPc>>,
             \A u \in Tasks : job'[Main(u)] = job[Main(u)]
      PROVE  UNCHANGED Life!vars
  BY <1>0, PhaseKept, LifeStutters DEF Scheduled
<1>1. ASSUME NEW t \in Tasks, CreateStep(t) PROVE [Life!Next]_Life!vars
  BY <1>1, LifeCreate
<1>2. ASSUME NEW t \in Tasks, CancelStep(t) PROVE [Life!Next]_Life!vars
  BY <1>2, LifeCancel
<1>3. ASSUME NEW t \in Tasks, RunStep(t) \/ RoundAnswerLost(t) \/ RunFault(t)
      PROVE  [Life!Next]_Life!vars
  BY <1>3, LifeRun
<1>4. ASSUME NEW t \in Tasks, RunningLands(t) PROVE [Life!Next]_Life!vars
  <2>1. /\ UNCHANGED <<booked, told, run, job, createPc>> /\ t \in runningWrite
        /\ status' = [status EXCEPT ![t] = "running"]
    BY <1>4 DEF RunningLands, UpdateStatus
  <2>2. status[t] = "pending"
    BY <2>1 DEF CalmInv, JobInv, RowExists, TypeOK, Status, Terminal
  <2>3. Scheduled(t) /\ Past(t)
    BY <2>1 DEF PastInv, Past, BeforeSave, Scheduled, JobInv, TypeOK, CreatePc
  <2>4. Phase(t) # "waiting"
    BY <2>3, LifeByPlace DEF Past
  <2>5. \A u \in Tasks : Phase(u)' = Phase(u)
    BY <2>1, PhaseKept DEF Scheduled
  <2>6. Life!ShowRunning(t)
    BY <2>1, <2>2, <2>4, <2>5 DEF Life!ShowRunning, Life!Write
  <2> QED
    BY <2>6 DEF Life!Next
<1>5. ASSUME NEW t \in Tasks,
             \/ WindowPasses(t) \/ PrecheckDone(t) \/ PrecheckFault(t) \/ RunningLost(t)
             \/ CancelBegin(t) \/ CancelFault(t)
      PROVE  [Life!Next]_Life!vars
  <2>1. CASE PrecheckDone(t) \/ PrecheckFault(t)
    BY <1>0, <2>1 DEF PrecheckDone, PrecheckFault, RemoveJob, JobInv, TypeOK
  <2>2. CASE WindowPasses(t) \/ RunningLost(t) \/ CancelBegin(t) \/ CancelFault(t)
    BY <1>0, <2>2 DEF WindowPasses, RunningLost, CancelBegin, CancelFault, CancelThrow
  <2> QED
    BY <1>5, <2>1, <2>2
<1>6. ASSUME NEW j \in Jobs, Deliver(j) \/ StalledCheck(j) PROVE [Life!Next]_Life!vars
  <2>1. PICK t \in Tasks : j = Main(t) \/ j = Precheck(t)
    BY DEF Jobs, Kinds, Main, Precheck
  <2>2. CASE StalledCheck(j)
    <3>1. UNCHANGED <<status, booked, told, run, createPc>> /\ \A u \in Tasks : job'[Main(u)] = job[Main(u)]
      BY <2>2, <2>1 DEF StalledCheck, PastInv, NoStalledMain, JobInv, TypeOK
    <3> QED
      BY <1>0, <3>1
  <2>3. CASE Deliver(j) /\ j = Precheck(t)
    <3>1. UNCHANGED <<status, booked, told, run, createPc>> /\ \A u \in Tasks : job'[Main(u)] = job[Main(u)]
      BY <2>3 DEF Deliver, Precheck, JobInv, TypeOK
    <3> QED
      BY <1>0, <3>1
  <2>4. CASE Deliver(j) /\ j = Main(t)
    <3>1. /\ UNCHANGED <<status, booked, told, createPc>> /\ job[Main(t)] = "queued"
          /\ run' = [run EXCEPT ![t] = "find"]
          /\ \A u \in Tasks : u # t => job'[Main(u)] = job[Main(u)]
      BY <2>4 DEF Deliver, Main, JobInv, TypeOK
    <3>2. run[t] = "idle" /\ status[t] # "absent" /\ run'[t] = "find"
      BY <3>1 DEF JobInv, RunIffActive, RowExists, TypeOK
    <3>3. \A u \in Tasks : u # t => Phase(u)' = Phase(u)
      BY <3>1, PhaseKept DEF Scheduled, JobInv, TypeOK
    <3>4. Phase(t) = "waiting" /\ Phase(t)' = "served"
      BY <3>1, <3>2, PhaseFacts, PhaseFactsNext
    <3>5. Life!Serve(t)
      BY <3>1, <3>2, <3>3, <3>4, LifeEnters DEF Life!Serve
    <3> QED
      BY <3>5 DEF Life!Next
  <2> QED
    BY <1>6, <2>1, <2>2, <2>3, <2>4
<1>7. ASSUME NEW t \in Tasks, CreateBegin(t) \/ CreateFault(t) PROVE [Life!Next]_Life!vars
  <2>1. /\ UNCHANGED <<status, booked, told, run, job>>
        /\ \A u \in Tasks : u # t => createPc'[u] = createPc[u]
    BY <1>7 DEF CreateBegin, CreateFault, CreateThrow, CreateGoto, JobInv, TypeOK
  <2>2. \A u \in Tasks : u # t => Phase(u)' = Phase(u)
    BY <2>1, PhaseKept DEF Scheduled
  <2>3. Scheduled(t) => Scheduled(t)'
    BY <1>7 DEF CreateBegin, CreateFault, CreateThrow, CreateGoto, Scheduled, JobInv, TypeOK
  <2>4. CASE Scheduled(t) <=> Scheduled(t)'
    BY <2>1, <2>2, <2>4, PhaseKept, LifeStutters
  <2>5. CASE ~Scheduled(t) /\ Scheduled(t)'
    BY <2>1, <2>2, <2>5, LifeByPlace, PhaseFactsNext, LifeEnds
  <2> QED
    BY <2>3, <2>4, <2>5
<1>8. ~Crash
  BY DEF Crash, JobInv, TypeOK
<1>9. CASE UNCHANGED vars
  BY <1>0, <1>9 DEF vars
<1> QED
  BY <1>1, <1>2, <1>3, <1>4, <1>5, <1>6, <1>7, <1>8, <1>9 DEF Next, Environment

\* Without crashes, with create() and cancel() calls that do not overlap on an account or
\* a task, and with updates applied in the order they are issued, every task lives as
\* TaskLife says, whatever calls fail.
THEOREM TaskLifeImplemented ==
  ASSUME Races = {}, MaxCrashes = 0 PROVE Spec => ImplementsTaskLife
<1>1. Init => FenceInv /\ OverrideInv
  BY DEF Init, FenceInv, OverrideInv
<1>2. JobInv /\ JobInv' /\ FenceInv /\ [Next]_vars => FenceInv'
  BY FenceInvNext
<1>3. JobInv /\ JobInv' /\ PastInv /\ OverrideInv /\ [Next]_vars => OverrideInv'
  BY OverrideInvNext
<1>4. JobInv /\ JobInv' /\ BookedInv /\ FenceInv /\ PastInv /\ CalmInv /\ OverrideInv
        /\ [Next]_vars => [Life!Next]_Life!vars
  BY LifeStep
<1>5. Init => BookedInv
  BY JobInvInit DEF Init, JobInv, BookedInv, SuccessIsBooked
<1>6. BookedInv /\ [Next]_vars => BookedInv'
  BY BookedInvNext
<1>7. Spec => [](JobInv /\ PastInv) /\ []CalmInv
  BY PastInvHolds, CalmInvHolds
<1> QED
  BY <1>1, <1>2, <1>3, <1>4, <1>5, <1>6, <1>7, LifeInit, PTL
     DEF Spec, ImplementsTaskLife, Life!Spec

=============================================================================
