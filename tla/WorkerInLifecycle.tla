-------------------------- MODULE WorkerInLifecycle --------------------------
(***************************************************************************)
(* GrabTaskLifecycle reduces a round of the worker to one control state.   *)
(* Here a run of GrabWorker, with its seats, pauses and answers, is seen   *)
(* as the worker of that module with a single task, whose create() has     *)
(* returned, whose job has been delivered and whose RUNNING update has     *)
(* landed.                                                                 *)
(***************************************************************************)
EXTENDS GrabWorker

TheTask == "task"
Of(value) == [t \in {TheTask} |-> value]
OnlyIf(condition) == IF condition THEN {TheTask} ELSE {}

\* Before the first round the run is at the head of its loop, also in the pause up to the
\* start offset: a cancel there ends it as at the head.
AtHead    == pc \in {"start", "preparse", "loop"} \/ (pc = "pause" /\ attempt = 0)
InRound   == pc \in {"search", "pick", "book", "refresh", "confirm"}
InPause   == pc = "nap" \/ (pc = "pause" /\ attempt > 0)
JobFailed == pc = "done" /\ threw

RunPosition ==
  IF AtHead THEN "top"
  ELSE IF InRound THEN "round"
  ELSE IF InPause THEN "sleep"
  ELSE IF pc \in {"log", "succeed"} THEN "win"
  ELSE IF pc = "fail" THEN "lose"
  ELSE IF pc = "tell" THEN IF verdict = "success" THEN "tellWin" ELSE "tellLose"
  ELSE IF JobFailed THEN "idle" ELSE "done"

\* What the lifecycle knows of a run: the row, the jobs, the cancel() that is under way, and
\* the bookings.
Row    == Of(IF verdict = "none" THEN "running" ELSE verdict)
Job    == [j \in {TheTask} \X {"main", "precheck"} |->
             IF j[2] = "precheck" THEN "none" ELSE IF JobFailed THEN "failed" ELSE "active"]
Flag   == OnlyIf(cancel)
Cancel == Of(IF cancel THEN "writeCancelled" ELSE "read")
Passed == OnlyIf(now >= Deadline)
Booked == OnlyIf(booked \cup late # {})
Told   == IF pc = "done" /\ ~threw /\ verdict # "none" THEN {<<TheTask, verdict>>} ELSE {}

\* The cancel() of a running task has set the flag and has its update in front of it.
L == INSTANCE GrabTaskLifecycle WITH
  Tasks <- {TheTask}, NoTask <- "none",
  Accounts <- {"account"}, AccountOf <- Of("account"),
  Concurrency <- 1, MaxStalled <- 0, MaxCancels <- 1, MaxCrashes <- 0, Races <- {},
  status <- Row, job <- Job,
  stalls <- [j \in {TheTask} \X {"main", "precheck"} |-> 0],
  cancelFlag <- Flag,
  createPc <- Of("returned"), victims <- Of({}), victim <- Of("none"),
  cancelPc <- Cancel,
  run <- Of(RunPosition),
  expired <- Passed,
  runningWrite <- {},
  booked <- Booked,
  told <- Told,
  cancelDone <- {}, aborted <- {}, unseen <- Of({}), cancels <- 1, crashes <- 0

\* Every step of a run is a step of the worker of GrabTaskLifecycle, or none that module
\* can see: rounds start before the deadline and without a cancel only, a success follows
\* a booking, the status is written before the user is told, and nothing follows.
StepsOfLifecycle == L!TypeOK /\ [][L!Next]_(L!vars)
=============================================================================
