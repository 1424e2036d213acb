----------------------- MODULE WorkerInLifecycle_proofs -----------------------
(***************************************************************************)
(* The steps of GrabWorker are steps of the worker of GrabTaskLifecycle,   *)
(* for every set of seats, list of preferences and choice of pauses and    *)
(* limits.                                                                 *)
(***************************************************************************)
EXTENDS GrabWorker_proofs, WorkerInLifecycle

\* Rounds are counted from the first on, and the pause before the first one ends inside
\* the window.
PlaceInv ==
  /\ pc \in {"start", "preparse"} => attempt = 0
  /\ InRound \/ pc = "nap" => attempt > 0
  /\ pc = "pause" /\ attempt = 0 => wakeAt <= Deadline \/ wakeAt <= now

ThrewInv == threw => pc = "done"

LEMMA ThrewInvNext == ThrewInv /\ [Next]_vars => ThrewInv'
<1> SUFFICES ASSUME ThrewInv, [Next]_vars PROVE ThrewInv'
  OBVIOUS
<1>1. threw' = threw \/ pc' = "done"
  BY Zenon DEF Next, vars, fixed, Start, Preparsed, PreparseFails, LoopExits, LoopCancelled, BlindBooks,
    Searches, PauseOver, PauseCancelled, NapOver, BookAccepted, LateAccept, SearchFinds, SearchFails,
    SearchRefused, BlindRefused, SearchBooks, ConfirmFree, ConfirmNotFree, RefreshDone, RefreshFails,
    Logged, MarkSuccess, MarkFailed, Tell, Throws, UserCancels, Tick, Goto
<1>2. pc = "done" => pc' = "done"
  BY Zenon DEF Next, vars, Start, Preparsed, PreparseFails, LoopExits, LoopCancelled, BlindBooks,
    Searches, RoundBegins, PauseOver, PauseCancelled, NapOver, BookAccepted, LateAccept, SearchFinds,
    SearchFails, SearchRefused, BlindRefused, BookAnswers, SearchBooks, ConfirmFree, ConfirmNotFree,
    RefreshDone, RefreshFails, Logged, MarkSuccess, MarkFailed, Tell, Throws, UserCancels, Tick, Goto
<1> QED
  BY <1>1, <1>2, Zenon DEF ThrewInv

LEMMA PlaceInvNext == RunInv /\ PlaceInv /\ [Next]_vars => PlaceInv'
<1> SUFFICES ASSUME TypeOK, PlaceInv, [Next]_vars PROVE PlaceInv'
  BY DEF RunInv
<1> USE DEF PlaceInv, InRound, Goto
<1>1. ASSUME attempt > 0, attempt' = attempt, pc' \notin {"start", "preparse"} PROVE PlaceInv'
  BY <1>1
<1>2. ASSUME attempt' = attempt,
             pc' \in {"loop", "log", "succeed", "fail", "tell", "done"}
      PROVE  PlaceInv'
  BY <1>2
<1>3. CASE Start
  BY <1>3 DEF Start
<1>4. CASE Preparsed
  <2>1. now' = now /\ now \in Nat /\ (wakeAt' = FirstFire \/ wakeAt' = now) /\ pc' = "pause"
    BY <1>4 DEF Preparsed, TypeOK
  <2>2. FirstFire <= Deadline
    BY WorkerAssumption DEF WorkerAssumption
  <2> QED
    BY <2>1, <2>2
<1>5. CASE PreparseFails \/ LoopExits \/ LoopCancelled \/ PauseOver \/ PauseCancelled \/ NapOver
           \/ Logged \/ MarkSuccess \/ MarkFailed \/ Tell
  BY <1>2, <1>5 DEF PreparseFails, LoopExits, LoopCancelled, PauseOver, PauseCancelled, NapOver,
    Logged, MarkSuccess, MarkFailed, Tell
<1>6. CASE BlindBooks \/ Searches
  <2>1. attempt' = attempt + 1 /\ attempt \in Nat /\ pc' \in {"book", "search"}
    BY <1>6 DEF BlindBooks, Searches, RoundBegins, TypeOK
  <2> QED
    BY <2>1
<1>7. CASE \/ \E free \in SUBSET Seats : SearchFinds(free)
           \/ SearchBooks \/ BookAccepted \/ ConfirmFree \/ ConfirmNotFree \/ RefreshFails
  BY <1>1, <1>7 DEF SearchFinds, SearchBooks, BookAccepted, ConfirmFree, ConfirmNotFree, RefreshFails
<1>8. CASE RefreshDone
  BY <1>1, <1>8 DEF RefreshDone, SearchRetries
<1>9. ASSUME NEW c \in Categories, SearchFails(c) \/ SearchRefused(c) PROVE PlaceInv'
  BY <1>1, <1>9, SearchFailedType DEF SearchFails, SearchRefused, BookAnswers
<1>10. ASSUME NEW c \in Categories, BlindRefused(c) PROVE PlaceInv'
  BY <1>1, <1>10 DEF BlindRefused, BookAnswers
<1>11. CASE UserCancels \/ (\E s \in Seats : LateAccept(s)) \/ UNCHANGED vars
  <2>1. UNCHANGED <<attempt, pc, wakeAt, now>>
    BY <1>11, Zenon DEF UserCancels, LateAccept, vars
  <2> QED
    BY <2>1
<1>12. CASE Throws
  <2>1. attempt' = attempt /\ pc' = "done"
    BY <1>12, Zenon DEF Throws
  <2> QED
    BY <1>2, <2>1
<1>13. CASE Tick
  <2>1. UNCHANGED <<attempt, pc, wakeAt>> /\ now' = now + 1 /\ now \in Nat /\ wakeAt \in Nat
    BY <1>13 DEF Tick, TypeOK
  <2> QED
    BY <2>1, ConstantsAreTimes
<1> QED
  BY <1>3, <1>4, <1>5, <1>6, <1>7, <1>8, <1>9, <1>10, <1>11, <1>12, <1>13 DEF Next

-----------------------------------------------------------------------------
\* Nothing changes that the other module sees of a run, except its position.
Quiet ==
  /\ UNCHANGED <<verdict, cancel, faults>>
  /\ now' >= Deadline <=> now >= Deadline
  /\ booked' \cup late' # {} <=> booked \cup late # {}
  /\ pc # "done"
  /\ pc' = "done" => verdict = "none" /\ ~threw'

LEMMA QuietFrame == Quiet => UNCHANGED <<Row, Job, Flag, Cancel, Passed, Booked, Told>>
BY DEF Quiet, Row, Job, Flag, Cancel, Passed, Booked, Told, Of, OnlyIf, JobFailed

\* The position moves, and nothing else.
LEMMA Moves ==
  ASSUME Quiet
  PROVE  /\ L!RunGoto(TheTask, RunPosition')
         /\ L!handlerVars' = L!handlerVars /\ L!queueVars' = L!queueVars /\ L!bounds' = L!bounds
BY QuietFrame DEF Quiet, L!RunGoto, L!handlerVars, L!queueVars, L!bounds, Of

LEMMA QuietStutters == Quiet /\ RunPosition' = RunPosition => UNCHANGED L!vars
BY QuietFrame DEF Quiet, L!vars, L!handlerVars, L!workerVars, L!queueVars, L!bounds, Of

\* A quiet step from one position to another is the step of the lifecycle between them.
LEMMA QuietMoves ==
  ASSUME Quiet,
         \/ RunPosition = "top" /\ RunPosition' = "lose" /\ now >= Deadline
         \/ RunPosition = "top" /\ RunPosition' = "done" /\ ~(now >= Deadline) /\ cancel
         \/ RunPosition = "top" /\ RunPosition' = "round" /\ ~(now >= Deadline) /\ ~cancel
         \/ RunPosition = "round" /\ RunPosition' \in {"sleep", "top", "lose"}
         \/ RunPosition = "sleep" /\ RunPosition' = "top"
         \/ RunPosition = "sleep" /\ RunPosition' = "done" /\ cancel
  PROVE  L!RunStep(TheTask)
<1> USE QuietFrame, Moves DEF Of, OnlyIf, Passed, Flag
<1>1. CASE RunPosition = "top" /\ RunPosition' = "lose" /\ now >= Deadline
  BY <1>1 DEF L!RunStep, L!LoopExpired
<1>2. CASE RunPosition = "top" /\ RunPosition' = "done" /\ ~(now >= Deadline) /\ cancel
  BY <1>2 DEF L!RunStep, L!LoopCancelled
<1>3. CASE RunPosition = "top" /\ RunPosition' = "round" /\ ~(now >= Deadline) /\ ~cancel
  BY <1>3 DEF L!RunStep, L!LoopRound
<1>4. CASE RunPosition = "round" /\ RunPosition' \in {"sleep", "top"}
  BY <1>4 DEF L!RunStep, L!RoundRetries
<1>5. CASE RunPosition = "round" /\ RunPosition' = "lose"
  BY <1>5 DEF L!RunStep, L!RoundFatal
<1>6. CASE RunPosition = "sleep" /\ RunPosition' = "top"
  BY <1>6 DEF L!RunStep, L!SleepOver
<1>7. CASE RunPosition = "sleep" /\ RunPosition' = "done" /\ cancel
  BY <1>7 DEF L!RunStep, L!SleepCancelled
<1> QED
  BY <1>1, <1>2, <1>3, <1>4, <1>5, <1>6, <1>7

\* Steps of the loops are quiet and move the run as the lifecycle does.
LEMMA LoopSteps ==
  ASSUME RunInv, PlaceInv, ThrewInv,
         \/ Start \/ Preparsed \/ PreparseFails \/ LoopExits \/ LoopCancelled
         \/ BlindBooks \/ Searches \/ PauseOver \/ PauseCancelled \/ NapOver
         \/ \E free \in SUBSET Seats : SearchFinds(free)
         \/ \E c \in Categories : SearchFails(c)
         \/ SearchBooks \/ ConfirmFree \/ ConfirmNotFree \/ RefreshDone \/ RefreshFails \/ Logged
  PROVE  L!RunStep(TheTask) \/ UNCHANGED L!vars
<1> USE DEF Goto
<1>1. UNCHANGED <<verdict, cancel, faults, threw, now, booked, late>> /\ pc \notin {"tell", "done"}
  BY DEF fixed, lib, Start, Preparsed, PreparseFails, LoopExits, LoopCancelled, BlindBooks, Searches,
    RoundBegins, PauseOver, PauseCancelled, NapOver, SearchFinds, SearchFails, SearchBooks,
    ConfirmFree, ConfirmNotFree, RefreshDone, RefreshFails, Logged
<1>2. Quiet
  <2>1. verdict = "none"
    BY <1>1 DEF RunInv, KnowsByPlace
  <2>2. ~threw'
    BY <1>1, Zenon DEF ThrewInv
  <2> QED
    BY <1>1, <2>1, <2>2 DEF Quiet
<1>3. ASSUME RunPosition' = RunPosition PROVE UNCHANGED L!vars
  BY <1>2, <1>3, QuietStutters
<1> USE DEF RunPosition, AtHead, InRound, InPause
<1>4. CASE Start \/ PreparseFails \/ Logged \/ SearchBooks \/ \E free \in SUBSET Seats : SearchFinds(free)
  <2>1. RunPosition' = RunPosition
    BY <1>4 DEF Start, PreparseFails, Logged, SearchBooks, SearchFinds
  <2> QED
    BY <1>3, <2>1
<1>5. CASE Preparsed
  <2>1. pc = "preparse" /\ pc' = "pause" /\ attempt' = 0
    BY <1>5 DEF Preparsed, PlaceInv
  <2> QED
    BY <1>3, <2>1
<1>6. CASE LoopExits
  <2>1. pc = "loop" /\ pc' = "fail" /\ now >= Deadline
    BY <1>6 DEF LoopExits, RunInv, QueueLives
  <2> QED
    BY <1>2, <2>1, QuietMoves
<1>7. CASE LoopCancelled
  <2>1. now \in Nat /\ Deadline \in Nat
    BY ConstantsAreTimes DEF RunInv, TypeOK
  <2>2. pc = "loop" /\ pc' = "done" /\ ~(now >= Deadline) /\ cancel
    BY <1>7, <2>1 DEF LoopCancelled
  <2>3. RunPosition = "top" /\ RunPosition' = "done"
    BY <1>2, <2>2 DEF JobFailed, Quiet
  <2> QED
    BY <1>2, <2>2, <2>3, QuietMoves
<1>8. CASE BlindBooks \/ Searches
  <2>1. now \in Nat /\ Deadline \in Nat
    BY ConstantsAreTimes DEF RunInv, TypeOK
  <2>2. pc = "loop" /\ pc' \in {"book", "search"} /\ ~(now >= Deadline) /\ ~cancel
    BY <1>8, <2>1 DEF BlindBooks, Searches, RoundBegins
  <2> QED
    BY <1>2, <2>2, QuietMoves
<1>9. CASE PauseOver \/ NapOver
  <2>1. pc \in {"pause", "nap"} /\ pc' = "loop" /\ attempt' = attempt /\ attempt \in Nat
    BY <1>9 DEF PauseOver, NapOver, RunInv, TypeOK
  <2> QED
    BY <1>2, <1>3, <2>1, QuietMoves
<1>10. CASE PauseCancelled
  <2>1. /\ pc = "pause" /\ pc' = "done" /\ cancel /\ now < wakeAt
        /\ attempt \in Nat /\ now \in Nat /\ wakeAt \in Nat /\ Deadline \in Nat
    BY <1>10, ConstantsAreTimes DEF PauseCancelled, RunInv, TypeOK
  <2>2. RunPosition' = "done"
    BY <1>2, <2>1 DEF JobFailed, Quiet
  <2>3. CASE attempt = 0
    <3>1. ~(now >= Deadline)
      BY <2>1, <2>3 DEF PlaceInv
    <3> QED
      BY <1>2, <2>1, <2>2, <2>3, <3>1, QuietMoves
  <2>4. CASE attempt > 0
    BY <1>2, <2>1, <2>2, <2>4, QuietMoves
  <2> QED
    BY <2>1, <2>3, <2>4
<1>11. ASSUME InRound, attempt' = attempt,
              pc' \in {"refresh", "fail", "pause", "pick", "confirm", "nap", "loop"}
       PROVE  L!RunStep(TheTask) \/ UNCHANGED L!vars
  <2>1. attempt > 0
    BY <1>11 DEF PlaceInv
  <2> QED
    BY <1>2, <1>3, <1>11, <2>1, QuietMoves
<1>12. CASE \E c \in Categories : SearchFails(c)
  <2>1. pc = "search" /\ attempt' = attempt /\ pc' \in {"refresh", "fail", "pause"}
    BY <1>12, SearchFailedType DEF SearchFails, RunInv
  <2> QED
    BY <1>11, <2>1
<1>13. CASE ConfirmFree \/ ConfirmNotFree \/ RefreshDone \/ RefreshFails
  <2>1. pc \in {"confirm", "refresh"} /\ attempt' = attempt /\ pc' \in {"fail", "nap", "loop", "pause"}
    BY <1>13 DEF ConfirmFree, ConfirmNotFree, RefreshDone, RefreshFails, SearchRetries
  <2> QED
    BY <1>11, <2>1
<1> QED
  BY <1>4, <1>5, <1>6, <1>7, <1>8, <1>9, <1>10, <1>12, <1>13

\* An answer to a booking, or its loss: the seat it may have booked shows in booked.
LEMMA AnswerSteps ==
  ASSUME RunInv, PlaceInv, ThrewInv, NEW c \in Categories, SearchRefused(c) \/ BlindRefused(c)
  PROVE  L!RunStep(TheTask) \/ L!RoundAnswerLost(TheTask) \/ UNCHANGED L!vars
<1> USE DEF Goto
<1>1. /\ UNCHANGED <<verdict, cancel, faults, threw, now, attempt>> /\ pc = "book"
      /\ UNCHANGED lib \/ (c \in {"network", "unknown"} /\ Lost)
  BY DEF fixed, SearchRefused, BlindRefused, BookAnswers
<1>2. pc' \in {"pick", "refresh", "fail", "pause", "nap", "confirm"}
  BY SearchFailedType DEF SearchRefused, BlindRefused, RunInv
<1>3. attempt > 0 /\ verdict = "none"
  BY <1>1 DEF PlaceInv, InRound, RunInv, KnowsByPlace
<1>4. ~threw'
  BY <1>1, Zenon DEF ThrewInv
<1> USE DEF RunPosition, AtHead, InRound, InPause
<1>5. CASE UNCHANGED lib
  <2>1. Quiet
    BY <1>1, <1>2, <1>3, <1>4, <1>5 DEF Quiet, lib
  <2> QED
    BY <1>1, <1>2, <1>3, <2>1, QuietMoves, QuietStutters
<1>6. CASE Lost /\ c \in {"network", "unknown"} /\ ~UNCHANGED lib
  <2>1. booked' \cup late' # {}
    BY <1>6 DEF Lost, lib
  <2>2. pc' \in {"pick", "pause", "nap", "confirm"}
    BY <1>6 DEF SearchRefused, SearchFailed, SearchRetries, BlindRefused, Retryable
  <2>3. RunPosition = "round" /\ RunPosition' \in {"round", "sleep"}
    BY <1>1, <1>2, <1>3, <2>2
  <2>4. UNCHANGED <<Row, Job, Flag, Cancel, Passed, Told>>
    BY <1>1, <1>2 DEF Row, Job, Flag, Cancel, Passed, Told, Of, OnlyIf, JobFailed
  <2>5. Booked' = Booked \cup {TheTask}
    BY <2>1 DEF Booked, OnlyIf
  <2>6. L!RoundAnswerLost(TheTask)
    BY <1>1, <2>3, <2>4, <2>5
       DEF L!RoundAnswerLost, L!RunGoto, L!handlerVars, L!queueVars, L!bounds, Of
  <2> QED
    BY <2>6
<1> QED
  BY <1>1, <1>5, <1>6

LEMMA BookedStep ==
  ASSUME BookAccepted
  PROVE  L!RunStep(TheTask)
<1>1. /\ UNCHANGED <<verdict, cancel, faults, now>> /\ pc = "book" /\ pc' = "log"
      /\ booked' \cup late' # {}
  BY DEF BookAccepted, fixed, Goto
<1>2. UNCHANGED <<Row, Job, Flag, Cancel, Passed, Told>> /\ Booked' = Booked \cup {TheTask}
  BY <1>1 DEF Row, Job, Flag, Cancel, Passed, Told, Booked, Of, OnlyIf, JobFailed
<1>3. RunPosition = "round" /\ RunPosition' = "win"
  BY <1>1 DEF RunPosition, AtHead, InRound, InPause
<1>4. L!RoundBooks(TheTask)
  BY <1>1, <1>2, <1>3 DEF L!RoundBooks, L!RunGoto, L!handlerVars, L!queueVars, L!bounds, Of
<1> QED
  BY <1>4 DEF L!RunStep

\* markSuccess and markFailed: the update, then the notification, either of which may throw.
LEMMA EndSteps ==
  ASSUME RunInv, ThrewInv, MarkSuccess \/ MarkFailed \/ Tell
  PROVE  L!RunStep(TheTask)
<1>1. /\ UNCHANGED <<cancel, faults, now, booked, late, threw>> /\ pc \in {"succeed", "fail", "tell"}
  BY DEF MarkSuccess, MarkFailed, Tell, fixed, lib
<1>2. UNCHANGED <<Flag, Cancel, Passed, Booked>>
  BY <1>1 DEF Flag, Cancel, Passed, Booked, Of, OnlyIf
<1>3. ~threw /\ ~threw'
  BY <1>1, Zenon DEF ThrewInv
<1>4. UNCHANGED Job
  BY <1>3 DEF Job, JobFailed
<1> USE DEF RunPosition, AtHead, InRound, InPause, Goto
<1>5. CASE MarkSuccess \/ MarkFailed
  <2>1. Told' = Told
    BY <1>5 DEF Told, MarkSuccess, MarkFailed
  <2>2. CASE MarkSuccess
    <3>1. RunPosition = "win" /\ RunPosition' = "tellWin" /\ Row' = Of("success")
      BY <2>2 DEF MarkSuccess, Row
    <3>2. L!MarkSuccess(TheTask)
      BY <1>1, <1>2, <1>4, <2>1, <3>1 DEF L!MarkSuccess, L!FinalUpdate, L!LaterUpdate,
        L!UpdateStatus, L!RunGoto, L!handlerVars, L!queueVars, L!bounds, Of, Row
    <3> QED
      BY <3>2 DEF L!RunStep
  <2>3. CASE MarkFailed
    <3>1. RunPosition = "lose" /\ RunPosition' = "tellLose" /\ Row' = Of("failed")
      BY <2>3 DEF MarkFailed, Row
    <3>2. L!MarkFailed(TheTask)
      BY <1>1, <1>2, <1>4, <2>1, <3>1 DEF L!MarkFailed, L!FinalUpdate, L!LaterUpdate,
        L!UpdateStatus, L!RunGoto, L!handlerVars, L!queueVars, L!bounds, Of, Row
    <3> QED
      BY <3>2 DEF L!RunStep
  <2> QED
    BY <1>5, <2>2, <2>3
<1>6. CASE Tell
  <2>1. pc = "tell" /\ pc' = "done" /\ verdict' = verdict /\ verdict \in {"success", "failed"}
    BY <1>6 DEF Tell, RunInv, KnowsByPlace, TypeOK
  <2>2. Row' = Row /\ Told' = Told \cup {<<TheTask, verdict>>}
    BY <1>3, <2>1 DEF Row, Told
  <2>3. RunPosition' = "done"
    BY <1>3, <2>1 DEF JobFailed
  <2>4. CASE verdict = "success"
    <3>1. L!TellSuccess(TheTask)
      BY <1>1, <1>2, <1>4, <2>1, <2>2, <2>3, <2>4
         DEF L!TellSuccess, L!Tell, L!RunGoto, L!handlerVars, L!queueVars, L!bounds, Of
    <3> QED
      BY <3>1 DEF L!RunStep
  <2>5. CASE verdict = "failed"
    <3>1. L!TellFailed(TheTask)
      BY <1>1, <1>2, <1>4, <2>1, <2>2, <2>3, <2>5
         DEF L!TellFailed, L!Tell, L!RunGoto, L!handlerVars, L!queueVars, L!bounds, Of
    <3> QED
      BY <3>1 DEF L!RunStep
  <2> QED
    BY <2>1, <2>4, <2>5
<1> QED
  BY <1>5, <1>6

LEMMA ThrowStep == RunInv /\ ThrewInv /\ Throws => L!RunFault(TheTask)
<1> SUFFICES ASSUME RunInv, ThrewInv, Throws PROVE L!RunFault(TheTask)
  OBVIOUS
<1>1. /\ UNCHANGED <<cancel, now, booked, late, verdict>> /\ faults < MaxFaults /\ faults' = faults + 1
      /\ pc \in {"log", "succeed", "fail", "tell"} /\ pc' = "done"
  BY Zenon DEF Throws, Fault, Goto, lib
<1>2. ~threw /\ threw'
  BY <1>1, Zenon DEF ThrewInv, Throws
<1>3. UNCHANGED <<Row, Flag, Cancel, Passed, Booked>>
  BY <1>1 DEF Row, Flag, Cancel, Passed, Booked, Of, OnlyIf
<1>4. UNCHANGED Told
  BY <1>1, <1>2 DEF Told
<1>5. Job' = [Job EXCEPT ![L!Main(TheTask)] = "failed"]
  <2>1. ~JobFailed /\ JobFailed'
    BY <1>1, <1>2 DEF JobFailed
  <2>2. /\ Job = [j \in {TheTask} \X {"main", "precheck"} |->
                   IF j[2] = "precheck" THEN "none" ELSE "active"]
        /\ Job' = [j \in {TheTask} \X {"main", "precheck"} |->
                    IF j[2] = "precheck" THEN "none" ELSE "failed"]
    BY <2>1, Zenon DEF Job
  <2>3. \A j \in {TheTask} \X {"main", "precheck"} : j[2] = "precheck" \/ j = <<TheTask, "main">>
    OBVIOUS
  <2>4. <<TheTask, "main">> \in {TheTask} \X {"main", "precheck"} /\ <<TheTask, "main">>[2] # "precheck"
    OBVIOUS
  <2> QED
    BY <2>2, <2>3, <2>4 DEF L!Main
<1>6. RunPosition \in {"win", "lose", "tellWin", "tellLose"} /\ RunPosition' = "idle"
  BY <1>1, <1>2 DEF RunPosition, AtHead, InRound, InPause, JobFailed
<1> QED
  BY <1>1, <1>3, <1>4, <1>5, <1>6
     DEF L!RunFault, L!Fault, L!RunGoto, L!handlerVars, Of

\* cancel() reads the row of a running task and sets the flag in the same step.
LEMMA CancelStep == UserCancels => L!CancelStep(TheTask)
<1> SUFFICES ASSUME UserCancels PROVE L!CancelStep(TheTask)
  OBVIOUS
<1>1. /\ UNCHANGED <<now, booked, late, verdict, faults, pc, attempt, threw>> /\ verdict = "none"
      /\ ~cancel /\ cancel'
  BY Zenon DEF UserCancels, lib
<1>2. UNCHANGED <<Row, Job, Passed, Booked, Told, RunPosition>>
  BY <1>1 DEF Row, Job, Passed, Booked, Told, RunPosition, AtHead, InRound, InPause, JobFailed, Of, OnlyIf
<1>3. Row = Of("running") /\ Flag' = Flag \cup {TheTask}
  BY <1>1 DEF Row, Flag, OnlyIf
<1>4. Cancel = Of("read") /\ Cancel' = Of("writeCancelled")
  BY <1>1 DEF Cancel
<1>5. L!CancelRead(TheTask)
  BY <1>1, <1>2, <1>3, <1>4
     DEF L!CancelRead, L!CancelGoto, L!workerVars, L!queueVars, L!bounds, Of
<1> QED
  BY <1>5 DEF L!CancelStep

LEMMA TickStep == TypeOK /\ Tick => L!WindowPasses(TheTask) \/ UNCHANGED L!vars
<1> SUFFICES ASSUME TypeOK, Tick PROVE L!WindowPasses(TheTask) \/ UNCHANGED L!vars
  OBVIOUS
<1>1. /\ UNCHANGED <<cancel, booked, late, verdict, faults, pc, attempt, threw>> /\ pc # "done"
      /\ now' = now + 1
  BY Zenon DEF Tick, lib, fixed
<1>2. UNCHANGED <<Row, Job, Flag, Cancel, Booked, Told, RunPosition>>
  BY <1>1 DEF Row, Job, Flag, Cancel, Booked, Told, RunPosition, AtHead, InRound, InPause, JobFailed, Of, OnlyIf
<1>3. now >= Deadline => now' >= Deadline
  BY <1>1, ConstantsAreTimes DEF TypeOK
<1>4. CASE now' >= Deadline <=> now >= Deadline
  <2>1. Passed' = Passed
    BY <1>4 DEF Passed, OnlyIf
  <2> QED
    BY <1>1, <1>2, <2>1 DEF L!vars, L!handlerVars, L!workerVars, L!queueVars, L!bounds, Of
<1>5. CASE now' >= Deadline /\ ~(now >= Deadline)
  <2>1. Passed' = Passed \cup {TheTask} /\ TheTask \notin Passed
    BY <1>5 DEF Passed, OnlyIf
  <2>2. RunPosition \notin {"idle", "find"}
    BY <1>1 DEF RunPosition, JobFailed
  <2>3. L!WindowPasses(TheTask)
    BY <1>1, <1>2, <2>1, <2>2 DEF L!WindowPasses, L!handlerVars, L!queueVars, L!bounds, Of
  <2> QED
    BY <2>3
<1> QED
  BY <1>3, <1>4, <1>5

\* A request taken for lost was counted when it was lost.
LEMMA LateStutters == (\E s \in Seats : LateAccept(s)) \/ UNCHANGED vars => UNCHANGED L!vars
<1> SUFFICES ASSUME (\E s \in Seats : LateAccept(s)) \/ UNCHANGED vars PROVE UNCHANGED L!vars
  OBVIOUS
<1>1. UNCHANGED <<cancel, verdict, faults, pc, attempt, threw, now>>
  BY Zenon DEF LateAccept, vars, fixed
<1>2. booked' \cup late' # {} <=> booked \cup late # {}
  BY DEF LateAccept, vars, lib
<1>3. UNCHANGED <<Row, Job, Flag, Cancel, Passed, Booked, Told, RunPosition>>
  BY <1>1, <1>2 DEF Row, Job, Flag, Cancel, Passed, Booked, Told, RunPosition, AtHead, InRound, InPause,
    JobFailed, Of, OnlyIf
<1> QED
  BY <1>1, <1>3 DEF L!vars, L!handlerVars, L!workerVars, L!queueVars, L!bounds, Of

LEMMA StartsInLifecycle == Init => L!TypeOK
<1> SUFFICES ASSUME Init PROVE L!TypeOK
  OBVIOUS
<1>1. pc = "start" /\ verdict = "none" /\ faults = 0 /\ ~cancel
  BY DEF Init
<1>2. RunPosition = "top" /\ ~JobFailed
  BY <1>1 DEF RunPosition, AtHead, JobFailed
<1>3. Row = Of("running") /\ Cancel = Of("read") /\ Told = {}
  BY <1>1 DEF Row, Cancel, Told
<1>4. Flag \subseteq {TheTask} /\ Passed \subseteq {TheTask} /\ Booked \subseteq {TheTask}
  BY DEF Flag, Passed, Booked, OnlyIf
<1>5. Job \in [L!Jobs -> L!JobState]
  BY <1>2 DEF Job, L!Jobs, L!Kinds, L!JobState
<1> QED
  BY <1>1, <1>2, <1>3, <1>4, <1>5 DEF L!TypeOK, L!Status, L!Jobs, L!Kinds, L!CreatePc, L!CancelPc,
    L!RunPc, L!Verdicts, Of

LEMMA WorkerStep == RunInv /\ PlaceInv /\ ThrewInv /\ [Next]_vars => [L!Next]_(L!vars)
<1> SUFFICES ASSUME RunInv, PlaceInv, ThrewInv, [Next]_vars PROVE L!Next \/ UNCHANGED L!vars
  OBVIOUS
<1>1. \/ L!RunStep(TheTask) \/ L!CancelStep(TheTask) \/ L!WindowPasses(TheTask)
      \/ L!RoundAnswerLost(TheTask) \/ L!RunFault(TheTask) \/ UNCHANGED L!vars
  <2>1. CASE UserCancels \/ Tick
    BY <2>1, CancelStep, TickStep DEF RunInv
  <2>2. CASE Throws \/ (\E s \in Seats : LateAccept(s)) \/ UNCHANGED vars
    BY <2>2, ThrowStep, LateStutters
  <2>3. CASE BookAccepted \/ MarkSuccess \/ MarkFailed \/ Tell
    BY <2>3, BookedStep, EndSteps
  <2>4. CASE \E c \in Categories : SearchRefused(c) \/ BlindRefused(c)
    BY <2>4, AnswerSteps
  <2>5. CASE \/ Start \/ Preparsed \/ PreparseFails \/ LoopExits \/ LoopCancelled
             \/ BlindBooks \/ Searches \/ PauseOver \/ PauseCancelled \/ NapOver
             \/ \E free \in SUBSET Seats : SearchFinds(free)
             \/ \E c \in Categories : SearchFails(c)
             \/ SearchBooks \/ ConfirmFree \/ ConfirmNotFree \/ RefreshDone \/ RefreshFails \/ Logged
    BY <2>5, LoopSteps
  <2> QED
    BY <2>1, <2>2, <2>3, <2>4, <2>5 DEF Next
<1> QED
  BY <1>1 DEF L!Next, L!Environment

\* What GrabTaskLifecycle makes of a round and of a run's end is what GrabSeatWorker does:
\* for any seats, preferences, answers and pauses, each of its steps is one of the
\* lifecycle's, or changes nothing there.
THEOREM StepsOfLifecycleHold == Spec => StepsOfLifecycle
<1>1. Init => PlaceInv /\ ThrewInv
  BY DEF Init, PlaceInv, ThrewInv, InRound
<1> QED
  BY <1>1, StartsInLifecycle, RunInvHolds, PlaceInvNext, ThrewInvNext, WorkerStep, PTL
     DEF Spec, StepsOfLifecycle

=============================================================================
