------------------------- MODULE GrabTaskLifecycle -------------------------
(***************************************************************************)
(* The life of a grab task: the HTTP handlers that create and cancel it    *)
(* (GrabTaskService), the BullMQ jobs that wake it (TaskSchedulerService   *)
(* and the external queue), and the processor and worker that run it       *)
(* (GrabSeatProcessor, GrabSeatWorker), with the MySQL row they all write. *)
(*                                                                         *)
(* Every await of the code is a place where another handler may run, so a  *)
(* handler is split into one action per await.  A round of the worker (one *)
(* tryGrabOnce, or one iteration of the blind loop) is a single control    *)
(* state: which seats it tries does not matter here.                       *)
(***************************************************************************)
EXTENDS Naturals, FiniteSets

CONSTANTS
  Tasks,        \* task ids; each is created by at most one create() call
  NoTask,       \* "no task" for victim
  Accounts,     \* library accounts
  AccountOf,    \* the account each task belongs to
  Concurrency,  \* jobs the BullMQ worker processes at once
  MaxStalled,   \* times BullMQ requeues a stalled job before failing it
  MaxCancels,   \* bound on cancel() calls
  MaxCrashes,   \* bound on crashes of the backend process
  MaxFaults,    \* bound on failing database, queue and library calls
  Races         \* orders the environment may produce, see RaceKinds

\* earlyCancel:    a task is cancelled while its create() is still running
\* parallelCreate: two create() calls of one account overlap
\* lateRunning:    the unawaited RUNNING update lands after a later update
RaceKinds == {"earlyCancel", "parallelCreate", "lateRunning"}

ASSUME ConstantsAssumption ==
  /\ NoTask \notin Tasks
  /\ AccountOf \in [Tasks -> Accounts]
  /\ Concurrency \in Nat \ {0}
  /\ {MaxStalled, MaxCancels, MaxCrashes, MaxFaults} \subseteq Nat
  /\ Races \subseteq RaceKinds

VARIABLES
  status,       \* grab_tasks.status of each row ("absent": not inserted yet)
  job,          \* each BullMQ job, by task and kind
  stalls,       \* BullMQ's stalled counter of each job
  cancelFlag,   \* GrabTaskService.cancellationRequests
  createPc, victims, victim,   \* create(): position, tasks to override, current one
  cancelPc,     \* cancel(): position
  run,          \* the worker executing each task's main job: position
  expired,      \* tasks whose retry window (deadline) has passed
  runningWrite, \* RUNNING updates issued and not yet applied
  booked,       \* tasks for which the library accepted a booking
  told,         \* <<task, verdict>> notifications sent
  cancelDone,   \* tasks for which a cancel() returned without an error
  aborted,      \* tasks left behind by a handler that threw half-way
  cancels, crashes, faults, \* what the environment has used of its bounds
  unseen        \* history: the tasks of its account that were inserted after
                \* create(t) had looked up the pending ones and before it inserted t

handlerVars == <<createPc, victims, victim, cancelPc, cancelDone, cancels, unseen>>
workerVars  == <<run, expired, runningWrite, booked, told>>
queueVars   == <<job, stalls>>
bounds      == <<crashes, faults>>
vars == <<status, cancelFlag, aborted, handlerVars, workerVars, queueVars, bounds>>

Status   == {"absent", "pending", "running", "success", "failed", "cancelled"}
Terminal == {"success", "failed", "cancelled"}
Kinds    == {"main", "precheck"}
Jobs     == Tasks \X Kinds
JobState == {"none", "queued", "active", "stalled", "failed"}
CreatePc == {"new", "count", "find", "override", "dropPrecheck", "writeFailed",
             "save", "addMain", "addPrecheck", "returned", "threw"}
CancelPc == {"idle", "read", "dropMain", "dropPrecheck", "writeCancelled"}
RunPc    == {"idle", "find", "top", "round", "sleep", "win", "lose", "tellWin", "tellLose",
             "done"}
Verdicts == {"success", "failed"}

TypeOK ==
  /\ status \in [Tasks -> Status]
  /\ job \in [Jobs -> JobState]
  /\ stalls \in [Jobs -> Nat]
  /\ cancelFlag \subseteq Tasks
  /\ createPc \in [Tasks -> CreatePc]
  /\ victims \in [Tasks -> SUBSET Tasks]
  /\ victim \in [Tasks -> Tasks \cup {NoTask}]
  /\ cancelPc \in [Tasks -> CancelPc]
  /\ run \in [Tasks -> RunPc]
  /\ expired \subseteq Tasks
  /\ runningWrite \subseteq Tasks
  /\ booked \subseteq Tasks
  /\ told \subseteq Tasks \X Verdicts
  /\ cancelDone \subseteq Tasks
  /\ aborted \subseteq Tasks
  /\ unseen \in [Tasks -> SUBSET Tasks]
  /\ cancels \in Nat /\ crashes \in Nat /\ faults \in Nat

Init ==
  /\ status = [t \in Tasks |-> "absent"]
  /\ job = [j \in Jobs |-> "none"]
  /\ stalls = [j \in Jobs |-> 0]
  /\ createPc = [t \in Tasks |-> "new"]
  /\ victims = [t \in Tasks |-> {}]
  /\ victim = [t \in Tasks |-> NoTask]
  /\ unseen = [t \in Tasks |-> {}]
  /\ cancelPc = [t \in Tasks |-> "idle"]
  /\ run = [t \in Tasks |-> "idle"]
  /\ cancelFlag = {} /\ expired = {} /\ runningWrite = {}
  /\ booked = {} /\ told = {} /\ cancelDone = {} /\ aborted = {}
  /\ cancels = 0 /\ crashes = 0 /\ faults = 0

-----------------------------------------------------------------------------
(* The queue.  A job that a worker holds is locked: removing it throws.  A  *)
(* stalled job (its worker died) is locked until the lock expires.          *)

Main(t) == <<t, "main">>
Precheck(t) == <<t, "precheck">>

Removable(j) == job[j] # "active"
Locked(j)    == job[j] \in {"active", "stalled"}
RemoveJob(j) == job' = [job EXCEPT ![j] = "none"]
AddJob(j) ==
  /\ job' = [job EXCEPT ![j] = "queued"]
  /\ stalls' = [stalls EXCEPT ![j] = 0]

\* A call to the database, to Redis or to the library fails.
Fault ==
  /\ faults < MaxFaults
  /\ faults' = faults + 1
  /\ UNCHANGED crashes

UpdateStatus(t, s) == status' = [status EXCEPT ![t] = s]

\* An update issued after the worker's RUNNING update: nothing in the code
\* orders the two, the connection pool usually does.
LaterUpdate(t, s) ==
  /\ "lateRunning" \in Races \/ t \notin runningWrite
  /\ UpdateStatus(t, s)

-----------------------------------------------------------------------------
(* GrabTaskService.create.  createPc[t] is the call that inserts task t.    *)

Siblings(t) == {u \in Tasks : AccountOf[u] = AccountOf[t]}
CreateInFlight(t) == createPc[t] \notin {"new", "returned", "threw"}
CreateGoto(t, pc) == createPc' = [createPc EXCEPT ![t] = pc]

\* create() has added the main job, or has ended without.
Scheduled(t) == createPc[t] \in {"addPrecheck", "returned", "threw"}

CreateBegin(t) ==
  /\ createPc[t] = "new"
  /\ "parallelCreate" \in Races \/ \A u \in Siblings(t) : ~CreateInFlight(u)
  /\ CreateGoto(t, "count")
  /\ UNCHANGED <<status, cancelFlag, aborted, victims, victim, cancelPc, cancelDone,
                 cancels, unseen, workerVars, queueVars, bounds>>

\* An account with a RUNNING task is refused.
CreateCount(t) ==
  /\ createPc[t] = "count"
  /\ CreateGoto(t, IF \E u \in Siblings(t) : status[u] = "running" THEN "threw" ELSE "find")
  /\ UNCHANGED <<status, cancelFlag, aborted, victims, victim, cancelPc, cancelDone,
                 cancels, unseen, workerVars, queueVars, bounds>>

\* Mutant: the pending tasks of the account are not looked up.
CreateFind_NoLookup(t) ==
  /\ createPc[t] = "find"
  /\ CreateGoto(t, "override")
  /\ UNCHANGED <<status, cancelFlag, aborted, victims, victim, cancelPc, cancelDone,
                 cancels, unseen, workerVars, queueVars, bounds>>

CreateFind(t) ==
  /\ createPc[t] = "find"
  /\ victims' = [victims EXCEPT ![t] = {u \in Siblings(t) : status[u] = "pending"}]
  /\ CreateGoto(t, "override")
  /\ UNCHANGED <<status, cancelFlag, aborted, victim, cancelPc, cancelDone,
                 cancels, unseen, workerVars, queueVars, bounds>>

\* Mutant: only the precheck job of the overridden task is removed.
OverrideDropMain_Kept(t, v) ==
  /\ createPc[t] = "override" /\ v \in victims[t]
  /\ victim' = [victim EXCEPT ![t] = v]
  /\ CreateGoto(t, "dropPrecheck")
  /\ UNCHANGED <<status, cancelFlag, aborted, victims, cancelPc, cancelDone,
                 cancels, unseen, workerVars, queueVars, bounds>>

\* cancelTask of the next pending task: its main job is removed first.
OverrideDropMain(t, v) ==
  /\ createPc[t] = "override" /\ v \in victims[t]
  /\ Removable(Main(v))
  /\ RemoveJob(Main(v))
  /\ victim' = [victim EXCEPT ![t] = v]
  /\ CreateGoto(t, "dropPrecheck")
  /\ UNCHANGED <<status, cancelFlag, aborted, victims, cancelPc, cancelDone,
                 cancels, unseen, workerVars, stalls, bounds>>

OverrideDropPrecheck(t) ==
  /\ createPc[t] = "dropPrecheck"
  /\ Removable(Precheck(victim[t]))
  /\ RemoveJob(Precheck(victim[t]))
  /\ CreateGoto(t, "writeFailed")
  /\ UNCHANGED <<status, cancelFlag, aborted, victims, victim, cancelPc, cancelDone,
                 cancels, unseen, workerVars, stalls, bounds>>

OverrideWrite(t) ==
  /\ createPc[t] = "writeFailed"
  /\ LaterUpdate(victim[t], "failed")
  /\ victims' = [victims EXCEPT ![t] = @ \ {victim[t]}]
  /\ victim' = [victim EXCEPT ![t] = NoTask]
  /\ CreateGoto(t, "override")
  /\ UNCHANGED <<cancelFlag, aborted, cancelPc, cancelDone, cancels, unseen,
                 workerVars, queueVars, bounds>>

OverrideDone(t) ==
  /\ createPc[t] = "override" /\ victims[t] = {}
  /\ CreateGoto(t, "save")
  /\ UNCHANGED <<status, cancelFlag, aborted, victims, victim, cancelPc, cancelDone,
                 cancels, unseen, workerVars, queueVars, bounds>>

\* create(t) has looked up the pending tasks and has not inserted its own.
LookedUp(t) == createPc[t] \in {"override", "dropPrecheck", "writeFailed", "save"}

\* The new row escapes the other calls of the account that have done their lookup.
CreateSave(t) ==
  /\ createPc[t] = "save"
  /\ UpdateStatus(t, "pending")
  /\ CreateGoto(t, "addMain")
  /\ unseen' = [u \in Tasks |-> IF LookedUp(u) /\ u \in Siblings(t) \ {t}
                               THEN unseen[u] \cup {t} ELSE unseen[u]]
  /\ UNCHANGED <<cancelFlag, aborted, victims, victim, cancelPc, cancelDone,
                 cancels, workerVars, queueVars, bounds>>

\* scheduleTask.  The id is new, so there is no older job of it to remove.
ScheduleMain(t) ==
  /\ createPc[t] = "addMain"
  /\ AddJob(Main(t))
  /\ CreateGoto(t, "addPrecheck")
  /\ UNCHANGED <<status, cancelFlag, aborted, victims, victim, cancelPc, cancelDone,
                 cancels, unseen, workerVars, bounds>>

SchedulePrecheck(t) ==
  /\ createPc[t] = "addPrecheck"
  /\ AddJob(Precheck(t))
  /\ CreateGoto(t, "returned")
  /\ UNCHANGED <<status, cancelFlag, aborted, victims, victim, cancelPc, cancelDone,
                 cancels, unseen, workerVars, bounds>>

\* The row whose job create() has taken away, or not added yet: if the call
\* ends here, nothing will put the job back.
CreateOrphans(t) ==
  {u \in Tasks : \/ createPc[t] \in {"dropPrecheck", "writeFailed"} /\ u = victim[t]
                 \/ createPc[t] = "addMain" /\ u = t}

CreateThrow(t) ==
  /\ CreateGoto(t, "threw")
  /\ aborted' = aborted \cup CreateOrphans(t)
  /\ victims' = [victims EXCEPT ![t] = {}]
  /\ victim' = [victim EXCEPT ![t] = NoTask]
  /\ UNCHANGED <<status, cancelFlag, cancelPc, cancelDone, cancels, unseen, workerVars, queueVars>>

\* job.remove() throws on a locked job and create() does not catch it.
OverrideLocked(t) ==
  /\ \/ createPc[t] = "override" /\ \E v \in victims[t] : Locked(Main(v))
     \/ createPc[t] = "dropPrecheck" /\ Locked(Precheck(victim[t]))
  /\ CreateThrow(t)
  /\ UNCHANGED bounds

CreateFault(t) ==
  /\ CreateInFlight(t)
  /\ Fault
  /\ CreateThrow(t)

-----------------------------------------------------------------------------
(* GrabTaskService.cancel.  One cancel() of a task is in progress at a time. *)

CancelGoto(t, pc) == cancelPc' = [cancelPc EXCEPT ![t] = pc]

CancelBegin(t) ==
  /\ cancelPc[t] = "idle" /\ cancels < MaxCancels
  /\ status[t] # "absent"
  /\ "earlyCancel" \in Races \/ ~CreateInFlight(t)
  /\ cancels' = cancels + 1
  /\ CancelGoto(t, "read")
  /\ UNCHANGED <<status, cancelFlag, aborted, createPc, victims, victim, cancelDone,
                 unseen, workerVars, queueVars, bounds>>

\* Mutant: the row of a running task is written, the worker is not told.
CancelRead_NoFlag(t) ==
  /\ cancelPc[t] = "read"
  /\ CancelGoto(t, CASE status[t] = "pending" -> "dropMain"
                     [] status[t] = "running" -> "writeCancelled"
                     [] OTHER -> "idle")
  /\ UNCHANGED <<status, cancelFlag, aborted, createPc, victims, victim, cancelDone,
                 cancels, unseen, workerVars, queueVars, bounds>>

\* A running task is flagged in the same step that reads its row; a task in a
\* terminal status is refused.
CancelRead(t) ==
  /\ cancelPc[t] = "read"
  /\ CancelGoto(t, CASE status[t] = "pending" -> "dropMain"
                     [] status[t] = "running" -> "writeCancelled"
                     [] OTHER -> "idle")
  /\ cancelFlag' = IF status[t] = "running" THEN cancelFlag \cup {t} ELSE cancelFlag
  /\ UNCHANGED <<status, aborted, createPc, victims, victim, cancelDone, cancels, unseen,
                 workerVars, queueVars, bounds>>

\* Mutant: the error of job.remove() on a locked job is swallowed.
CancelDropMain_Swallow(t) ==
  /\ cancelPc[t] = "dropMain"
  /\ IF Removable(Main(t)) THEN RemoveJob(Main(t)) ELSE UNCHANGED job
  /\ CancelGoto(t, "dropPrecheck")
  /\ UNCHANGED <<status, cancelFlag, aborted, createPc, victims, victim, cancelDone,
                 cancels, unseen, workerVars, stalls, bounds>>

CancelDropMain(t) ==
  /\ cancelPc[t] = "dropMain"
  /\ Removable(Main(t))
  /\ RemoveJob(Main(t))
  /\ CancelGoto(t, "dropPrecheck")
  /\ UNCHANGED <<status, cancelFlag, aborted, createPc, victims, victim, cancelDone,
                 cancels, unseen, workerVars, stalls, bounds>>

CancelDropPrecheck(t) ==
  /\ cancelPc[t] = "dropPrecheck"
  /\ Removable(Precheck(t))
  /\ RemoveJob(Precheck(t))
  /\ CancelGoto(t, "writeCancelled")
  /\ UNCHANGED <<status, cancelFlag, aborted, createPc, victims, victim, cancelDone,
                 cancels, unseen, workerVars, stalls, bounds>>

CancelWrite(t) ==
  /\ cancelPc[t] = "writeCancelled"
  /\ LaterUpdate(t, "cancelled")
  /\ cancelDone' = cancelDone \cup {t}
  /\ CancelGoto(t, "idle")
  /\ UNCHANGED <<cancelFlag, aborted, createPc, victims, victim, cancels, unseen,
                 workerVars, queueVars, bounds>>

CancelOrphans(t) == {u \in {t} : cancelPc[u] \in {"dropPrecheck", "writeCancelled"}}

CancelThrow(t) ==
  /\ CancelGoto(t, "idle")
  /\ aborted' = aborted \cup CancelOrphans(t)
  /\ UNCHANGED <<status, cancelFlag, createPc, victims, victim, cancelDone, cancels, unseen,
                 workerVars, queueVars>>

CancelLocked(t) ==
  /\ \/ cancelPc[t] = "dropMain" /\ Locked(Main(t))
     \/ cancelPc[t] = "dropPrecheck" /\ Locked(Precheck(t))
  /\ CancelThrow(t)
  /\ UNCHANGED bounds

CancelFault(t) ==
  /\ cancelPc[t] # "idle"
  /\ Fault
  /\ CancelThrow(t)

-----------------------------------------------------------------------------
(* Delivery of a due job, and the precheck job (its effects are on the      *)
(* session and on result.preparse, not on the state modelled here).         *)

\* Delays are not modelled: a queued job may be due at any time, and precheck
\* and main job may overlap (triggerAt less than five minutes away, or a
\* backlog).
Deliver(j) ==
  /\ job[j] = "queued"
  /\ Cardinality({i \in Jobs : job[i] = "active"}) < Concurrency
  /\ job' = [job EXCEPT ![j] = "active"]
  /\ run' = IF j[2] = "main" THEN [run EXCEPT ![j[1]] = "find"] ELSE run
  /\ UNCHANGED <<status, cancelFlag, aborted, handlerVars, expired, runningWrite, booked,
                 told, stalls, bounds>>

PrecheckDone(t) ==
  /\ job[Precheck(t)] = "active"
  /\ RemoveJob(Precheck(t))
  /\ UNCHANGED <<status, cancelFlag, aborted, handlerVars, workerVars, stalls, bounds>>

PrecheckFault(t) ==
  /\ job[Precheck(t)] = "active"
  /\ Fault
  /\ job' = [job EXCEPT ![Precheck(t)] = "failed"]
  /\ UNCHANGED <<status, cancelFlag, aborted, handlerVars, workerVars, stalls>>

-----------------------------------------------------------------------------
(* GrabSeatProcessor.process and GrabSeatWorker.executeGrab.                *)

RunGoto(t, pc) == run' = [run EXCEPT ![t] = pc]

\* Mutant: the processor skips a task that is not running yet.
LoadTask_SkipPending(t) ==
  /\ run[t] = "find"
  /\ IF status[t] \in {"absent", "pending"}
     THEN /\ RunGoto(t, "done")
          /\ UNCHANGED <<runningWrite, expired>>
     ELSE /\ RunGoto(t, "top")
          /\ runningWrite' = runningWrite \cup {t}
          /\ expired' = expired \ {t}
  /\ UNCHANGED <<status, cancelFlag, aborted, handlerVars, booked, told, queueVars, bounds>>

\* findById, then executeGrab whatever the status: the RUNNING update is issued
\* and not awaited, and a window that has passed is restarted from now.
LoadTask(t) ==
  /\ run[t] = "find"
  /\ IF status[t] = "absent"
     THEN /\ RunGoto(t, "done")
          /\ UNCHANGED <<runningWrite, expired>>
     ELSE /\ RunGoto(t, "top")
          /\ runningWrite' = runningWrite \cup {t}
          /\ expired' = expired \ {t}
  /\ UNCHANGED <<status, cancelFlag, aborted, handlerVars, booked, told, queueVars, bounds>>

RunningLands(t) ==
  /\ t \in runningWrite
  /\ UpdateStatus(t, "running")
  /\ runningWrite' = runningWrite \ {t}
  /\ UNCHANGED <<cancelFlag, aborted, handlerVars, run, expired, booked, told,
                 queueVars, bounds>>

\* fireAndForget only logs a failed update.
RunningLost(t) ==
  /\ t \in runningWrite
  /\ Fault
  /\ runningWrite' = runningWrite \ {t}
  /\ UNCHANGED <<status, cancelFlag, aborted, handlerVars, run, expired, booked, told,
                 queueVars>>

WindowPasses(t) ==
  /\ run[t] \notin {"idle", "find"} /\ t \notin expired
  /\ expired' = expired \cup {t}
  /\ UNCHANGED <<status, cancelFlag, aborted, handlerVars, run, runningWrite, booked, told,
                 queueVars, bounds>>

\* Mutant: at the deadline the worker returns without marking the task failed.
LoopExpired_Silent(t) ==
  /\ run[t] = "top" /\ t \in expired
  /\ RunGoto(t, "done")
  /\ UNCHANGED <<status, cancelFlag, aborted, handlerVars, expired, runningWrite, booked,
                 told, queueVars, bounds>>

\* The loop condition comes first: at the deadline the task is marked failed
\* without looking at the cancellation flag.
LoopExpired(t) ==
  /\ run[t] = "top" /\ t \in expired
  /\ RunGoto(t, "lose")
  /\ UNCHANGED <<status, cancelFlag, aborted, handlerVars, expired, runningWrite, booked,
                 told, queueVars, bounds>>

LoopCancelled(t) ==
  /\ run[t] = "top" /\ t \notin expired /\ t \in cancelFlag
  /\ RunGoto(t, "done")
  /\ UNCHANGED <<status, cancelFlag, aborted, handlerVars, expired, runningWrite, booked,
                 told, queueVars, bounds>>

\* Mutant: the deadline is not checked.
LoopRound_NoDeadline(t) ==
  /\ run[t] = "top" /\ t \notin cancelFlag
  /\ RunGoto(t, "round")
  /\ UNCHANGED <<status, cancelFlag, aborted, handlerVars, expired, runningWrite, booked,
                 told, queueVars, bounds>>

LoopRound(t) ==
  /\ run[t] = "top" /\ t \notin expired /\ t \notin cancelFlag
  /\ RunGoto(t, "round")
  /\ UNCHANGED <<status, cancelFlag, aborted, handlerVars, expired, runningWrite, booked,
                 told, queueVars, bounds>>

\* The library accepts a booking and the answer arrives.
RoundBooks(t) ==
  /\ run[t] = "round"
  /\ booked' = booked \cup {t}
  /\ RunGoto(t, "win")
  /\ UNCHANGED <<status, cancelFlag, aborted, handlerVars, expired, runningWrite, told,
                 queueVars, bounds>>

\* The library accepts a booking and the answer is lost, or a request already taken for
\* lost is accepted: the round looks whether the seat is free, or is retried.
RoundAnswerLost(t) ==
  /\ run[t] = "round"
  /\ booked' = booked \cup {t}
  /\ \E pc \in {"round", "sleep"} : RunGoto(t, pc)
  /\ UNCHANGED <<status, cancelFlag, aborted, handlerVars, expired, runningWrite, told,
                 queueVars, bounds>>

\* Mutant: a booking without an answer is taken for accepted.
RoundRetries_AssumeBooked(t) ==
  /\ run[t] = "round"
  /\ RunGoto(t, "win")
  /\ UNCHANGED <<status, cancelFlag, aborted, handlerVars, expired, runningWrite, booked,
                 told, queueVars, bounds>>

\* A retryable error.  There is no pause at the deadline, nor when the blind loop has got
\* a new session.
RoundRetries(t) ==
  /\ run[t] = "round"
  /\ \E pc \in {"sleep", "top"} : RunGoto(t, pc)
  /\ UNCHANGED <<status, cancelFlag, aborted, handlerVars, expired, runningWrite, booked,
                 told, queueVars, bounds>>

\* A non-retryable error, or a session that cannot be refreshed.
RoundFatal(t) ==
  /\ run[t] = "round"
  /\ RunGoto(t, "lose")
  /\ UNCHANGED <<status, cancelFlag, aborted, handlerVars, expired, runningWrite, booked,
                 told, queueVars, bounds>>

\* sleepInterruptible polls the flag before each chunk, never after the last one.
SleepOver(t) ==
  /\ run[t] = "sleep"
  /\ RunGoto(t, "top")
  /\ UNCHANGED <<status, cancelFlag, aborted, handlerVars, expired, runningWrite, booked,
                 told, queueVars, bounds>>

SleepCancelled(t) ==
  /\ run[t] = "sleep" /\ t \in cancelFlag
  /\ RunGoto(t, "done")
  /\ UNCHANGED <<status, cancelFlag, aborted, handlerVars, expired, runningWrite, booked,
                 told, queueVars, bounds>>

\* markSuccess and markFailed: the update, then the notification.
FinalUpdate(t, from, s, to) ==
  /\ run[t] = from
  /\ LaterUpdate(t, s)
  /\ RunGoto(t, to)
  /\ UNCHANGED <<cancelFlag, aborted, handlerVars, expired, runningWrite, booked, told,
                 queueVars, bounds>>

MarkSuccess(t) == FinalUpdate(t, "win", "success", "tellWin")
MarkFailed(t)  == FinalUpdate(t, "lose", "failed", "tellLose")

Tell(t, from, v) ==
  /\ run[t] = from
  /\ told' = told \cup {<<t, v>>}
  /\ RunGoto(t, "done")
  /\ UNCHANGED <<status, cancelFlag, aborted, handlerVars, expired, runningWrite, booked,
                 queueVars, bounds>>

\* Mutant: the return after markSuccess is missing.
TellSuccess_NoReturn(t) ==
  /\ run[t] = "tellWin"
  /\ told' = told \cup {<<t, "success">>}
  /\ RunGoto(t, "top")
  /\ UNCHANGED <<status, cancelFlag, aborted, handlerVars, expired, runningWrite, booked,
                 queueVars, bounds>>

TellSuccess(t) == Tell(t, "tellWin", "success")
TellFailed(t)  == Tell(t, "tellLose", "failed")

\* Mutant: removeOnComplete is not set.
JobCompletes_Kept(t) ==
  /\ run[t] = "done"
  /\ RunGoto(t, "idle")
  /\ job' = [job EXCEPT ![Main(t)] = "completed"]
  /\ UNCHANGED <<status, cancelFlag, aborted, handlerVars, expired, runningWrite, booked,
                 told, stalls, bounds>>

\* process() has returned: removeOnComplete deletes the job.
JobCompletes(t) ==
  /\ run[t] = "done"
  /\ RunGoto(t, "idle")
  /\ RemoveJob(Main(t))
  /\ UNCHANGED <<status, cancelFlag, aborted, handlerVars, expired, runningWrite, booked,
                 told, stalls, bounds>>

\* findById, a blocking attempt log, the final update or the notification
\* throws: the job fails, is kept, and is not retried (no attempts option).
RunFault(t) ==
  /\ run[t] \in {"find", "round", "win", "lose", "tellWin", "tellLose"}
  /\ Fault
  /\ RunGoto(t, "idle")
  /\ job' = [job EXCEPT ![Main(t)] = "failed"]
  /\ UNCHANGED <<status, cancelFlag, aborted, handlerVars, expired, runningWrite, booked,
                 told, stalls>>

-----------------------------------------------------------------------------
(* The backend process dies and is restarted.  Memory and every handler in  *)
(* progress are lost; the row and the jobs stay.                            *)

Crash ==
  /\ crashes < MaxCrashes
  /\ crashes' = crashes + 1
  /\ cancelFlag' = {} /\ runningWrite' = {}
  /\ run' = [t \in Tasks |-> "idle"]
  /\ job' = [j \in Jobs |-> IF job[j] = "active" THEN "stalled" ELSE job[j]]
  /\ createPc' = [t \in Tasks |-> IF CreateInFlight(t) THEN "threw" ELSE createPc[t]]
  /\ cancelPc' = [t \in Tasks |-> "idle"]
  /\ victims' = [t \in Tasks |-> {}]
  /\ victim' = [t \in Tasks |-> NoTask]
  /\ aborted' = aborted \cup UNION {CreateOrphans(t) \cup CancelOrphans(t) : t \in Tasks}
  /\ UNCHANGED <<status, expired, booked, told, cancelDone, cancels, unseen, stalls, faults>>

\* BullMQ's check for stalled jobs.
StalledCheck(j) ==
  /\ job[j] = "stalled"
  /\ IF stalls[j] < MaxStalled
     THEN /\ job' = [job EXCEPT ![j] = "queued"]
          /\ stalls' = [stalls EXCEPT ![j] = @ + 1]
     ELSE /\ job' = [job EXCEPT ![j] = "failed"]
          /\ UNCHANGED stalls
  /\ UNCHANGED <<status, cancelFlag, aborted, handlerVars, workerVars, bounds>>

-----------------------------------------------------------------------------
CreateStep(t) ==
  \/ CreateCount(t) \/ CreateFind(t)
  \/ (\E v \in Tasks : OverrideDropMain(t, v))
  \/ OverrideDropPrecheck(t) \/ OverrideWrite(t) \/ OverrideDone(t) \/ OverrideLocked(t)
  \/ CreateSave(t) \/ ScheduleMain(t) \/ SchedulePrecheck(t)

CancelStep(t) ==
  \/ CancelRead(t) \/ CancelDropMain(t) \/ CancelDropPrecheck(t)
  \/ CancelWrite(t) \/ CancelLocked(t)

RunStep(t) ==
  \/ LoadTask(t) \/ LoopExpired(t) \/ LoopCancelled(t) \/ LoopRound(t)
  \/ RoundBooks(t) \/ RoundRetries(t) \/ RoundFatal(t)
  \/ SleepOver(t) \/ SleepCancelled(t)
  \/ MarkSuccess(t) \/ MarkFailed(t) \/ TellSuccess(t) \/ TellFailed(t)
  \/ JobCompletes(t)

\* What the users and the faults do: nothing obliges them to.
Environment ==
  \/ \E t \in Tasks :
       \/ CreateBegin(t) \/ CancelBegin(t)
       \/ CreateFault(t) \/ CancelFault(t) \/ RunFault(t)
       \/ RoundAnswerLost(t) \/ RunningLost(t) \/ PrecheckFault(t)
  \/ Crash

Next ==
  \/ \E t \in Tasks :
       \/ CreateStep(t) \/ CancelStep(t) \/ RunStep(t)
       \/ RunningLands(t) \/ WindowPasses(t) \/ PrecheckDone(t)
  \/ \E j \in Jobs : Deliver(j) \/ StalledCheck(j)
  \/ Environment

Spec == Init /\ [][Next]_vars

\* Handlers and workers resume when their call returns (every HTTP call has a
\* timeout), time passes, and BullMQ delivers and recovers jobs.
Fairness ==
  /\ \A t \in Tasks :
       /\ WF_vars(CreateStep(t)) /\ WF_vars(CancelStep(t)) /\ WF_vars(RunStep(t))
       /\ WF_vars(RunningLands(t)) /\ WF_vars(WindowPasses(t)) /\ WF_vars(PrecheckDone(t))
  /\ \A j \in Jobs : WF_vars(Deliver(j)) /\ WF_vars(StalledCheck(j))

FairSpec == Spec /\ Fairness

-----------------------------------------------------------------------------
(* Safety                                                                    *)

\* A handler is between taking a task's job away (or inserting its row) and
\* writing its status (or adding its job).
Handling(t) ==
  \/ \E c \in Tasks : t \in CreateOrphans(c)
  \/ t \in CancelOrphans(t)

\* A pending task has a job that runs it, is due to run it, or is kept as failed,
\* unless a handler is working on it or died half-way: create(), cancel() and the
\* scheduler never lose the job of a pending task in any other way.
PendingHasJob ==
  \A t \in Tasks :
    status[t] = "pending" => job[Main(t)] # "none" \/ Handling(t) \/ t \in aborted

\* The same of a running task: it is never left as running with no worker, which
\* would make create() refuse its account for ever.
RunningHasJob ==
  \A t \in Tasks :
    status[t] = "running" => job[Main(t)] # "none" \/ Handling(t) \/ t \in aborted

\* A task is reported as a success, in its row or in a notification, only if the
\* library accepted a booking for it (markSuccess follows a booked seat only).
SuccessIsBooked ==
  \A t \in Tasks :
    status[t] = "success" \/ <<t, "success">> \in told => t \in booked

\* The override rule of create(): a new task of an account takes the place of every
\* pending one that its lookup can find.  Two pending tasks of an account are left only
\* when one was inserted after the other's create() had looked and before it inserted its
\* own, which nothing in the code prevents; not by a create() or cancel() that threw
\* half-way, by a crash, nor by an update that lands late.
OnePendingUnlessUnseen ==
  \A t \in Tasks : \A u \in Siblings(t) \ {t} :
    status[t] = "pending" /\ status[u] = "pending" => t \in unseen[u] \/ u \in unseen[t]

\* Once a cancel() has returned, the task is in a terminal status for good.
CancelledIsTerminal == \A t \in cancelDone : status[t] \in Terminal

\* A task in a terminal status has no job left that would run it again.
TerminalNeverQueued ==
  \A t \in Tasks : status[t] \in Terminal => job[Main(t)] # "queued"

\* The user is never told both that a task succeeded and that it failed.
OneVerdict ==
  \A t \in Tasks : ~(<<t, "success">> \in told /\ <<t, "failed">> \in told)

\* After a cancel() has returned, by either path, the worker starts no further
\* round, hence no further booking, for the task.
NoNewRoundAfterCancel ==
  [][\A t \in cancelDone : run'[t] = "round" => run[t] = "round"]_vars

\* Where the service of a task is: its job may still come, a worker has it, the verdict
\* is written, or nobody will serve it any more.
Phase(t) ==
  CASE run[t] = "tellWin" -> "success"
    [] run[t] = "tellLose" -> "failed"
    [] run[t] \in {"find", "top", "round", "sleep", "win", "lose"} -> "served"
    [] run[t] = "idle" /\ (job[Main(t)] = "queued" \/ ~Scheduled(t)) -> "waiting"
    [] OTHER -> "over"

\* What the backend promises of a task, as long as its process does not crash, the calls
\* on a task do not overlap and updates land in the order they are issued.
Life == INSTANCE TaskLife WITH phase <- [t \in Tasks |-> Phase(t)]
ImplementsTaskLife == Life!Spec

-----------------------------------------------------------------------------
(* Liveness                                                                  *)

\* A pending or running task reaches a terminal status, unless a handler threw half-way
\* on it; and its worker, once started, gets out of its rounds and waits: no run goes on
\* without end, also not one whose task has ended meanwhile.
TaskEnds ==
  \A t \in Tasks :
    status[t] \in {"pending", "running"} \/ run[t] # "idle" ~>
      /\ status[t] \in Terminal \/ t \in aborted
      /\ run[t] = "idle"

-----------------------------------------------------------------------------
(* What comments and README say, and the code does not do                    *)

\* README: cancelling a pending or a running task marks it as cancelled.  The
\* update of cancel() does not wait for the round in progress, whose own final
\* update then replaces "cancelled".
CancelledStays == \A t \in cancelDone : status[t] = "cancelled"

\* Cancelling a pending task removes its jobs and marks it as cancelled.  When
\* the precheck job is locked the main job is gone and the task stays pending,
\* with nothing left that would ever run it.
PendingWillRun ==
  \A t \in Tasks : status[t] = "pending" => job[Main(t)] # "none" \/ Handling(t)
=============================================================================
