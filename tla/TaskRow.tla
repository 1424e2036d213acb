------------------------------- MODULE TaskRow -------------------------------
(***************************************************************************)
(* One row of grab_tasks and everyone who writes it: the worker (running,  *)
(* then a verdict), its reports of taken seats, the precheck's report of   *)
(* what the preparse found, and cancel().                                  *)
(*                                                                         *)
(* The column `result` is one JSON value.  A verdict replaces it.  A       *)
(* report (recordSeatTaken, recordPreparse) reads the row, adds its part   *)
(* to the copy and writes the copy back, in two database calls; the        *)
(* worker fires its reports and does not wait for them.  Calls that nobody *)
(* waits for reach MySQL in any order.                                     *)
(***************************************************************************)
EXTENDS Naturals

CONSTANTS
  Seats,     \* preferred seats: each is reported as taken at most once in a run
  Precheck,  \* the writer of the precheck's report
  MaxFaults  \* bound on failing calls

Reports == Seats \cup {Precheck}

Written == Reports \cup {"verdict"}

ASSUME RowAssumption ==
  /\ Precheck \notin Seats /\ "verdict" \notin Reports
  /\ MaxFaults \in Nat

VARIABLES
  status,    \* grab_tasks.status
  result,    \* grab_tasks.result
  worker,    \* position of the run ("queued": not begun, its job waits or has just been
             \* delivered); between its end and markX: the verdict
  marking,   \* the unawaited update to "running" is on its way
  cancel,    \* position of cancel()
  flag,      \* the cancellation flag in memory
  precheck,  \* position of the precheck job ("queued": nothing to record yet)
  preparse,  \* what the precheck is about to record
  at, copy,  \* each report: position, and the result it has read
  behind,    \* history: what has been written since a report read its copy
  stale,     \* history: what a report that was behind on it has overwritten
  closed,    \* history: a final status has been written
  faults     \* failing calls so far

workVars == <<worker, marking, flag>>
reportVars == <<at, copy, preparse, precheck>>
rowVars == <<status, result, behind, stale, closed>>
vars == <<workVars, cancel, reportVars, rowVars, faults>>

Verdicts == {"success", "failed"}
Terminal == Verdicts \cup {"cancelled"}
Statuses == {"pending", "running"} \cup Terminal
Preparses == {"none", "ok", "failed"}

\* What the column holds: the three parts that are ever written.  A column that
\* is null reads like one without any part.
Results == [preparse : Preparses, taken : SUBSET Seats, final : {"none", "seat", "reason"}]
NoResult == [preparse |-> "none", taken |-> {}, final |-> "none"]

TypeOK ==
  /\ status \in Statuses /\ result \in Results
  /\ worker \in {"queued", "running", "done"} \cup Verdicts
  /\ marking \in BOOLEAN /\ flag \in BOOLEAN /\ closed \in BOOLEAN
  /\ cancel \in {"idle", "unqueue", "write", "done"}
  /\ precheck \in {"queued", "first", "last", "over"}
  /\ preparse \in {"ok", "failed"}
  /\ at \in [Reports -> {"idle", "read", "write", "done", "failed"}]
  /\ copy \in [Reports -> Results]
  /\ behind \in [Reports -> SUBSET Written] /\ stale \subseteq Written
  /\ faults \in Nat

Init ==
  /\ status = "pending" /\ result = NoResult
  /\ worker = "queued" /\ marking = FALSE /\ flag = FALSE
  /\ cancel = "idle" /\ precheck = "queued" /\ preparse = "ok"
  /\ at = [w \in Reports |-> "idle"] /\ copy = [w \in Reports |-> NoResult]
  /\ behind = [w \in Reports |-> {}] /\ stale = {} /\ closed = FALSE
  /\ faults = 0

Fault == faults < MaxFaults /\ faults' = faults + 1

-----------------------------------------------------------------------------
(* The database calls of a report.                                           *)

\* Whoever has read the row and not yet written it back is now behind on x.
Outdates(x) ==
  behind' = [w \in Reports |-> IF at[w] = "write" THEN behind[w] \cup {x} ELSE behind[w]]

ReadRow(w) ==
  /\ at[w] = "read"
  /\ at' = [at EXCEPT ![w] = "write"]
  /\ copy' = [copy EXCEPT ![w] = result]
  /\ behind' = [behind EXCEPT ![w] = {}]
  /\ UNCHANGED <<workVars, cancel, preparse, precheck, status, result, stale, closed, faults>>

\* Mutant: the part is written without the rest of the copy.
Merged_Alone(w) ==
  IF w = Precheck THEN [NoResult EXCEPT !.preparse = preparse]
  ELSE [NoResult EXCEPT !.taken = copy[w].taken \cup {w}]

\* Mutant: the seats already reported are replaced, not extended.
Merged_NoAppend(w) ==
  IF w = Precheck THEN [copy[w] EXCEPT !.preparse = preparse]
  ELSE [copy[w] EXCEPT !.taken = {w}]

\* The copy with the report's own part put in.
Merged(w) ==
  IF w = Precheck THEN [copy[w] EXCEPT !.preparse = preparse]
  ELSE [copy[w] EXCEPT !.taken = @ \cup {w}]

WriteBack(w) ==
  /\ at[w] = "write"
  /\ result' = Merged(w)
  /\ at' = [at EXCEPT ![w] = "done"]
  /\ Outdates(w) /\ stale' = (stale \cup behind[w]) \ {w}
  /\ UNCHANGED <<workVars, cancel, copy, preparse, precheck, status, closed, faults>>

\* Either call of a seat's report throws: notifySeatTaken logs it.
SeatReportFails(s) ==
  /\ at[s] \in {"read", "write"} /\ Fault
  /\ at' = [at EXCEPT ![s] = "failed"]
  /\ UNCHANGED <<workVars, cancel, copy, preparse, precheck, rowVars>>

-----------------------------------------------------------------------------
(* The precheck job.                                                         *)

BeginReport(v) ==
  /\ at' = [at EXCEPT ![Precheck] = "read"]
  /\ preparse' = v

\* Mutant: a preparse that gives no reason for its failure is recorded as nothing.
PrecheckReports_NoReason ==
  /\ precheck = "queued"
  /\ precheck' = "first" /\ \E v \in {"ok", "none"} : BeginReport(v)
  /\ UNCHANGED <<workVars, cancel, copy, rowVars, faults>>

\* "first": the preparse has been tried, its outcome is recorded inside a try.
\* "last": the session could not be refreshed, or preparse() has thrown.
\* Nothing is recorded of another task, or when the user could not be told that the
\* session is lost.
PrecheckReports ==
  /\ precheck = "queued"
  /\ \/ precheck' = "first" /\ \E v \in {"ok", "failed"} : BeginReport(v)
     \/ precheck' = "last" /\ BeginReport("failed")
     \/ precheck' = "over" /\ UNCHANGED <<at, preparse>>
  /\ UNCHANGED <<workVars, cancel, copy, rowVars, faults>>

\* A call of the report throws.  The catch block records a failed preparse; when
\* that throws too, the job fails.
PrecheckReportFails ==
  /\ at[Precheck] \in {"read", "write"} /\ Fault
  /\ \/ precheck = "first" /\ precheck' = "last" /\ BeginReport("failed")
     \/ /\ precheck = "last" /\ precheck' = "over"
        /\ at' = [at EXCEPT ![Precheck] = "failed"]
        /\ UNCHANGED preparse
  /\ UNCHANGED <<workVars, cancel, copy, rowVars>>

\* The warning about an ambiguous room or unknown seats is sent inside the same
\* try: when notify() throws, a preparse recorded as ok is recorded as failed.
WarningFails ==
  /\ precheck = "first" /\ at[Precheck] = "done" /\ preparse = "ok" /\ Fault
  /\ precheck' = "last" /\ BeginReport("failed")
  /\ UNCHANGED <<workVars, cancel, copy, rowVars>>

PrecheckEnds ==
  /\ precheck \in {"first", "last"} /\ at[Precheck] = "done"
  /\ precheck' = "over"
  /\ UNCHANGED <<workVars, cancel, at, copy, preparse, rowVars, faults>>

-----------------------------------------------------------------------------
(* The worker.                                                               *)

\* runGrabTask sends the update to "running" and goes on.
RunStarts ==
  /\ worker = "queued"
  /\ worker' = "running" /\ marking' = TRUE
  /\ UNCHANGED <<flag, cancel, reportVars, rowVars, faults>>

\* updateStatus without a result: the column is left alone.
RunningLands ==
  /\ marking /\ marking' = FALSE
  /\ status' = "running"
  /\ UNCHANGED <<worker, flag, cancel, reportVars, result, behind, stale, closed, faults>>

RunningFails ==
  /\ marking /\ marking' = FALSE /\ Fault
  /\ UNCHANGED <<worker, flag, cancel, reportVars, rowVars>>

\* Seats are seen taken: several at once in a search's snapshot, one when the
\* library refuses it.  Each is reported once in a run, and not waited for.
SeatsTaken ==
  /\ worker = "running"
  /\ \E S \in SUBSET {s \in Seats : at[s] = "idle"} \ {{}} :
       at' = [w \in Reports |-> IF w \in S THEN "read" ELSE at[w]]
  /\ UNCHANGED <<workVars, cancel, copy, preparse, precheck, rowVars, faults>>

RunEnds ==
  /\ worker = "running"
  /\ worker' \in Verdicts
  /\ UNCHANGED <<marking, flag, cancel, reportVars, rowVars, faults>>

\* A cancelled run ends without a verdict.
RunStops ==
  /\ worker = "running" /\ flag
  /\ worker' = "done"
  /\ UNCHANGED <<marking, flag, cancel, reportVars, rowVars, faults>>

Final(s) == [NoResult EXCEPT !.final = IF s = "success" THEN "seat" ELSE "reason"]

\* updateStatus with a result: the whole column is replaced.
Close(s) ==
  /\ status' = s /\ result' = Final(s) /\ closed' = TRUE
  /\ Outdates("verdict") /\ stale' = stale \ {"verdict"}

\* markSuccess, markFailed.
VerdictLands ==
  /\ worker \in Verdicts
  /\ Close(worker)
  /\ worker' = "done"
  /\ UNCHANGED <<marking, flag, cancel, reportVars, faults>>

VerdictFails ==
  /\ worker \in Verdicts /\ Fault
  /\ worker' = "done"
  /\ UNCHANGED <<marking, flag, cancel, reportVars, rowVars>>

-----------------------------------------------------------------------------
(* cancel()                                                                  *)

\* Pending: the jobs are to be removed.  Running: the flag is set at once.
CancelReads ==
  /\ cancel = "idle"
  /\ \/ status = "pending" /\ cancel' = "unqueue" /\ UNCHANGED flag
     \/ status = "running" /\ cancel' = "write" /\ flag' = TRUE
  /\ UNCHANGED <<worker, marking, reportVars, rowVars, faults>>

\* A job that is being processed cannot be removed, and cancel() throws: at the main
\* job, or at the precheck job, when the main job is gone.
CancelUnqueues ==
  /\ cancel = "unqueue"
  /\ \/ worker # "done" /\ cancel' = "done" /\ UNCHANGED <<worker, precheck>>
     \/ /\ worker \in {"queued", "done"} /\ worker' = "done"
        /\ \/ precheck # "over" /\ cancel' = "done" /\ UNCHANGED precheck
           \/ precheck \in {"queued", "over"} /\ cancel' = "write" /\ precheck' = "over"
  /\ UNCHANGED <<marking, flag, at, copy, preparse, rowVars, faults>>

\* The override of a pending task by create() takes the same way and writes failed.
CancelWrites ==
  /\ cancel = "write"
  /\ Close("cancelled") \/ (~flag /\ Close("failed"))
  /\ cancel' = "done"
  /\ UNCHANGED <<workVars, reportVars, faults>>

CancelFails ==
  /\ cancel \in {"unqueue", "write"} /\ Fault
  /\ cancel' = "done"
  /\ UNCHANGED <<workVars, reportVars, rowVars>>

-----------------------------------------------------------------------------
ReportStep(w) == ReadRow(w) \/ WriteBack(w)
PrecheckStep == PrecheckReports \/ PrecheckReportFails \/ WarningFails \/ PrecheckEnds
WorkerStep == RunStarts \/ RunningLands \/ RunningFails \/ SeatsTaken \/ RunEnds
              \/ RunStops \/ VerdictLands \/ VerdictFails
CancelStep == CancelReads \/ CancelUnqueues \/ CancelWrites \/ CancelFails

Next ==
  \/ \E w \in Reports : ReportStep(w)
  \/ \E s \in Seats : SeatReportFails(s)
  \/ PrecheckStep \/ WorkerStep \/ CancelStep

Spec == Init /\ [][Next]_vars

-----------------------------------------------------------------------------
\* What the frontend shows of an ended task (the seat, or the reason) is in the
\* row, unless a report that had read the row before the last final update wrote
\* its copy after it: no report that begins later destroys a verdict.
VerdictLostOnlyToStale == closed => result.final # "none" \/ "verdict" \in stale

Recorded(w) == IF w = Precheck THEN result.preparse = preparse ELSE w \in result.taken

\* A report that has been written is in the row until the task ends, unless another
\* report had read the row before it and wrote after it.
ReportLostOnlyToOverlap ==
  \A w \in Reports : at[w] = "done" => Recorded(w) \/ closed \/ w \in stale
=============================================================================
