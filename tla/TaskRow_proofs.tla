--------------------------- MODULE TaskRow_proofs ---------------------------
(* What is true of a task's row for any preferred seats and any number of    *)
(* failing calls.                                                            *)
EXTENDS TaskRow, TLAPS

LEMMA NoResultTyped == NoResult \in Results
  BY DEF Results, NoResult, Preparses

LEMMA InitTypeOK == Init => TypeOK
<1> SUFFICES ASSUME Init PROVE TypeOK
  OBVIOUS
<1>1. status \in Statuses /\ result \in Results
  BY NoResultTyped DEF Init, Statuses
<1>2. copy \in [Reports -> Results]
  BY NoResultTyped DEF Init
<1>3. /\ at \in [Reports -> {"idle", "read", "write", "done", "failed"}]
      /\ behind \in [Reports -> SUBSET Written]
  BY DEF Init
<1> QED
  BY <1>1, <1>2, <1>3 DEF Init, TypeOK

\* A copy with a report's own part put in is a result.
LEMMA MergedTyped ==
  ASSUME TypeOK, NEW w \in Reports
  PROVE  Merged(w) \in Results
  BY DEF TypeOK, Merged, Results, Preparses, Reports

LEMMA FinalTyped ==
  ASSUME NEW s \in Statuses
  PROVE  Final(s) \in Results /\ Final(s).final # "none"
  BY DEF Final, NoResult, Results, Preparses

LEMMA CloseTyped ==
  ASSUME TypeOK, NEW s \in Terminal, Close(s)
  PROVE  /\ status' \in Statuses /\ result' \in Results /\ closed' \in BOOLEAN
         /\ behind' \in [Reports -> SUBSET Written] /\ stale' \subseteq Written
  BY FinalTyped DEF TypeOK, Close, Outdates, Statuses, Written

LEMMA NextTypeOK == TypeOK /\ [Next]_vars => TypeOK'
<1> SUFFICES ASSUME TypeOK, [Next]_vars PROVE TypeOK'
  OBVIOUS
<1> USE DEF Fault, workVars, reportVars, rowVars
<1>1. ASSUME NEW w \in Reports, ReadRow(w) PROVE TypeOK'
  BY <1>1 DEF ReadRow, TypeOK
<1>2. ASSUME NEW w \in Reports, WriteBack(w) PROVE TypeOK'
  <2>1. result' \in Results
    BY <1>2, MergedTyped DEF WriteBack
  <2>2. behind' \in [Reports -> SUBSET Written] /\ stale' \subseteq Written
    BY <1>2 DEF WriteBack, Outdates, TypeOK, Written
  <2> QED
    BY <1>2, <2>1, <2>2 DEF WriteBack, TypeOK
<1>3. ASSUME NEW s \in Seats, SeatReportFails(s) PROVE TypeOK'
  BY <1>3 DEF SeatReportFails, TypeOK, Reports
<1>4. CASE PrecheckStep
  <2>1. Precheck \in Reports
    BY DEF Reports
  <2>2. CASE PrecheckReports
    BY <2>1, <2>2 DEF PrecheckReports, BeginReport, TypeOK
  <2>3. CASE PrecheckReportFails
    BY <2>1, <2>3 DEF PrecheckReportFails, BeginReport, TypeOK
  <2>4. CASE WarningFails
    BY <2>1, <2>4 DEF WarningFails, BeginReport, TypeOK
  <2>5. CASE PrecheckEnds
    BY <2>5 DEF PrecheckEnds, TypeOK
  <2> QED
    BY <1>4, <2>2, <2>3, <2>4, <2>5 DEF PrecheckStep
<1>5. CASE WorkerStep
  <2>1. CASE RunStarts
    BY <2>1 DEF RunStarts, TypeOK
  <2>2. CASE RunningLands
    BY <2>2 DEF RunningLands, TypeOK, Statuses
  <2>3. CASE RunningFails
    <3>1. marking' \in BOOLEAN
      BY <2>3 DEF RunningFails
    <3>2. faults' \in Nat
      BY <2>3 DEF RunningFails, TypeOK
    <3> QED
      BY <2>3, <3>1, <3>2 DEF RunningFails, TypeOK
  <2>4. CASE SeatsTaken
    <3>1. at' \in [Reports -> {"idle", "read", "write", "done", "failed"}]
      BY <2>4 DEF SeatsTaken, TypeOK
    <3> QED
      BY <2>4, <3>1 DEF SeatsTaken, TypeOK
  <2>5. CASE RunEnds
    BY <2>5 DEF RunEnds, TypeOK
  <2>6. CASE RunStops
    BY <2>6 DEF RunStops, TypeOK
  <2>7. CASE VerdictLands
    <3>1. worker \in Terminal /\ Close(worker)
      BY <2>7 DEF VerdictLands, Terminal
    <3>2. /\ status' \in Statuses /\ result' \in Results /\ closed' \in BOOLEAN
          /\ behind' \in [Reports -> SUBSET Written] /\ stale' \subseteq Written
      BY <3>1, CloseTyped
    <3> QED
      BY <2>7, <3>2 DEF VerdictLands, TypeOK
  <2>8. CASE VerdictFails
    BY <2>8 DEF VerdictFails, TypeOK
  <2> QED
    BY <1>5, <2>1, <2>2, <2>3, <2>4, <2>5, <2>6, <2>7, <2>8 DEF WorkerStep
<1>6. CASE CancelStep
  <2>1. CASE CancelReads
    BY <2>1 DEF CancelReads, TypeOK
  <2>2. CASE CancelUnqueues
    BY <2>2 DEF CancelUnqueues, TypeOK
  <2>3. CASE CancelWrites
    <3>1. PICK s \in {"cancelled", "failed"} : Close(s)
      BY <2>3 DEF CancelWrites
    <3>2. s \in Terminal
      BY DEF Terminal, Verdicts
    <3>3. /\ status' \in Statuses /\ result' \in Results /\ closed' \in BOOLEAN
          /\ behind' \in [Reports -> SUBSET Written] /\ stale' \subseteq Written
      BY <3>1, <3>2, CloseTyped
    <3> QED
      BY <2>3, <3>3 DEF CancelWrites, TypeOK
  <2>4. CASE CancelFails
    BY <2>4 DEF CancelFails, TypeOK
  <2> QED
    BY <1>6, <2>1, <2>2, <2>3, <2>4 DEF CancelStep
<1>7. CASE UNCHANGED vars
  BY <1>7 DEF vars, TypeOK
<1> QED
  BY <1>1, <1>2, <1>3, <1>4, <1>5, <1>6, <1>7 DEF Next, ReportStep

\* Every variable keeps its type, for any seats and faults.
THEOREM RowTypeCorrect == Spec => []TypeOK
  BY InitTypeOK, NextTypeOK, PTL DEF Spec
-----------------------------------------------------------------------------
(* What a step can do to the row and to the copies: a report reads, a report *)
(* writes back, a final update lands, or the row is left alone.              *)

\* Nobody comes to a write who has not read, or has written who had not; and the
\* precheck's outcome changes only when its report begins.
QuietStep ==
  /\ UNCHANGED <<result, closed, stale, behind, copy>>
  /\ \A w \in Reports : /\ at'[w] = "write" => at[w] = "write"
                        /\ at'[w] = "done" => at[w] = "done"
  /\ UNCHANGED preparse \/ at'[Precheck] = "read"

CloseStep == (\E s \in Terminal : Close(s)) /\ UNCHANGED <<at, copy>>

LEMMA StepKinds ==
  ASSUME TypeOK, [Next]_vars
  PROVE  \/ QuietStep
         \/ CloseStep
         \/ \E w \in Reports : ReportStep(w)
<1> USE DEF workVars, reportVars, rowVars
<1>1. CASE \E w \in Reports : ReportStep(w)
  BY <1>1
<1>2. ASSUME NEW s \in Seats, SeatReportFails(s) PROVE QuietStep
  BY <1>2 DEF SeatReportFails, QuietStep, TypeOK, Reports
<1>3. CASE PrecheckStep
  <2>1. Precheck \in Reports
    BY DEF Reports
  <2>2. QuietStep
    BY <1>3, <2>1 DEF PrecheckStep, PrecheckReports, PrecheckReportFails, WarningFails,
                      PrecheckEnds, BeginReport, QuietStep, TypeOK
  <2> QED
    BY <2>2
<1>4. CASE WorkerStep
  <2>1. CASE SeatsTaken
    BY <2>1 DEF SeatsTaken, QuietStep, TypeOK
  <2>2. CASE VerdictLands
    BY <2>2 DEF VerdictLands, CloseStep, Terminal
  <2>3. CASE RunStarts \/ RunningLands \/ RunningFails \/ RunEnds \/ RunStops \/ VerdictFails
    BY <2>3 DEF RunStarts, RunningLands, RunningFails, RunEnds, RunStops, VerdictFails, QuietStep
  <2> QED
    BY <1>4, <2>1, <2>2, <2>3 DEF WorkerStep
<1>5. CASE CancelStep
  <2>1. CASE CancelWrites
    BY <2>1 DEF CancelWrites, CloseStep, Terminal, Verdicts
  <2>2. CASE CancelReads \/ CancelUnqueues \/ CancelFails
    BY <2>2 DEF CancelReads, CancelUnqueues, CancelFails, QuietStep
  <2> QED
    BY <1>5, <2>1, <2>2 DEF CancelStep
<1>6. CASE UNCHANGED vars
  BY <1>6 DEF vars, QuietStep
<1> QED
  BY <1>1, <1>2, <1>3, <1>4, <1>5, <1>6 DEF Next

-----------------------------------------------------------------------------
(* A verdict is lost only to a report that had read the row before it.       *)

RecordsVerdict(w) == copy[w].final # "none" \/ "verdict" \in behind[w]

\* A report about to write back either carries the verdict, or is behind on it.
VerdictInv ==
  closed => /\ result.final # "none" \/ "verdict" \in stale
            /\ \A w \in Reports : at[w] = "write" => RecordsVerdict(w) \/ "verdict" \in stale

\* A report leaves the final part of its copy alone.
LEMMA MergedFinal ==
  ASSUME TypeOK, NEW w \in Reports
  PROVE  Merged(w).final = copy[w].final
  BY DEF TypeOK, Merged, Results, Reports

\* A final update leaves a verdict in the row, and everyone behind on it.
LEMMA CloseEstablishes ==
  ASSUME TypeOK, NEW s \in Terminal, Close(s), at' = at, copy' = copy
  PROVE  VerdictInv'
<1>1. result'.final # "none"
  BY FinalTyped DEF Close, Statuses
<1>2. ASSUME NEW w \in Reports, at'[w] = "write" PROVE RecordsVerdict(w)'
  BY <1>2 DEF Close, Outdates, RecordsVerdict
<1> QED
  BY <1>1, <1>2 DEF VerdictInv

LEMMA VerdictStep ==
  ASSUME TypeOK, VerdictInv, [Next]_vars
  PROVE  VerdictInv'
<1>1. CASE QuietStep
  BY <1>1 DEF VerdictInv, QuietStep, RecordsVerdict
<1>2. CASE CloseStep
  BY <1>2, CloseEstablishes DEF CloseStep
<1>3. ASSUME NEW w \in Reports, ReadRow(w) PROVE VerdictInv'
  <2> SUFFICES ASSUME closed PROVE VerdictInv'
    BY <1>3 DEF ReadRow, VerdictInv
  <2>1. UNCHANGED <<result, stale, closed>>
    BY <1>3 DEF ReadRow
  <2>2. ASSUME NEW v \in Reports, at'[v] = "write"
        PROVE  RecordsVerdict(v)' \/ "verdict" \in stale
    BY <1>3, <2>2 DEF ReadRow, VerdictInv, RecordsVerdict, TypeOK
  <2> QED
    BY <2>1, <2>2 DEF VerdictInv
<1>4. ASSUME NEW w \in Reports, WriteBack(w) PROVE VerdictInv'
  <2> SUFFICES ASSUME closed PROVE VerdictInv'
    BY <1>4 DEF WriteBack, VerdictInv
  <2>1. "verdict" \in stale \cup behind[w] => "verdict" \in stale'
    BY <1>4, RowAssumption DEF WriteBack
  <2>2. result'.final # "none" \/ "verdict" \in stale'
    BY <1>4, <2>1, MergedFinal DEF WriteBack, VerdictInv, RecordsVerdict
  <2>3. ASSUME NEW v \in Reports, at'[v] = "write"
        PROVE  RecordsVerdict(v)' \/ "verdict" \in stale'
    BY <1>4, <2>1, <2>3 DEF WriteBack, Outdates, VerdictInv, RecordsVerdict, TypeOK
  <2> QED
    BY <2>2, <2>3 DEF VerdictInv
<1> QED
  BY <1>1, <1>2, <1>3, <1>4, StepKinds DEF ReportStep

\* No report that begins after a verdict destroys it (GT:169-203, W:837-853).
THEOREM VerdictKept == Spec => []VerdictLostOnlyToStale
<1>1. Init => VerdictInv
  BY DEF Init, VerdictInv
<1>2. VerdictInv => VerdictLostOnlyToStale
  BY DEF VerdictInv, VerdictLostOnlyToStale
<1> QED
  BY <1>1, <1>2, VerdictStep, RowTypeCorrect, PTL DEF Spec

-----------------------------------------------------------------------------
(* A report is lost only to one that overlaps it.                            *)

CopyRecords(v, w) ==
  IF w = Precheck THEN copy[v].preparse = preparse ELSE w \in copy[v].taken

\* A report about to write back either carries what has been recorded, or is behind.
ReportInv ==
  \A w \in Reports : at[w] = "done" /\ ~closed /\ w \notin stale =>
    /\ Recorded(w)
    /\ \A v \in Reports : at[v] = "write" => CopyRecords(v, w) \/ w \in behind[v]

\* A report puts its own part in and keeps those of the others.
LEMMA MergedRecords ==
  ASSUME TypeOK, NEW v \in Reports, NEW w \in Reports, WriteBack(v),
         w = v \/ CopyRecords(v, w)
  PROVE  Recorded(w)'
<1>1. /\ result' = Merged(v) /\ preparse' = preparse
      /\ copy[v] \in Results
  BY DEF WriteBack, TypeOK
<1>2. CASE v = Precheck
  <2>1. result' = [copy[v] EXCEPT !.preparse = preparse]
    BY <1>1, <1>2 DEF Merged
  <2>2. result'.preparse = preparse /\ result'.taken = copy[v].taken
    BY <1>1, <2>1 DEF Results
  <2> QED
    BY <1>1, <1>2, <2>2 DEF Recorded, CopyRecords
<1>3. CASE v # Precheck
  <2>1. result' = [copy[v] EXCEPT !.taken = copy[v].taken \cup {v}]
    BY <1>1, <1>3 DEF Merged
  <2>2. result'.preparse = copy[v].preparse /\ result'.taken = copy[v].taken \cup {v}
    BY <1>1, <2>1 DEF Results
  <2> QED
    BY <1>1, <1>3, <2>2 DEF Recorded, CopyRecords
<1> QED
  BY <1>2, <1>3

LEMMA ReportInvStep ==
  ASSUME TypeOK, ReportInv, [Next]_vars
  PROVE  ReportInv'
<1>1. CASE QuietStep
  BY <1>1 DEF ReportInv, QuietStep, Recorded, CopyRecords
<1>2. CASE CloseStep
  BY <1>2 DEF CloseStep, Close, ReportInv
<1>3. ASSUME NEW u \in Reports, ReadRow(u) PROVE ReportInv'
  BY <1>3 DEF ReadRow, ReportInv, Recorded, CopyRecords, TypeOK
<1>4. ASSUME NEW u \in Reports, WriteBack(u) PROVE ReportInv'
  <2> SUFFICES ASSUME NEW w \in Reports, at'[w] = "done", ~closed, w \notin stale'
               PROVE  /\ Recorded(w)'
                      /\ \A v \in Reports : at'[v] = "write" =>
                           CopyRecords(v, w)' \/ w \in behind'[v]
    BY <1>4 DEF WriteBack, ReportInv
  <2>1. CASE w = u
    BY <1>4, <2>1, MergedRecords DEF WriteBack, Outdates, TypeOK
  <2>2. CASE w # u
    <3>1. at[w] = "done" /\ w \notin stale /\ w \notin behind[u] /\ at[u] = "write"
      BY <1>4, <2>2 DEF WriteBack, TypeOK
    <3>2. CopyRecords(u, w)
      BY <3>1 DEF ReportInv
    <3>3. Recorded(w)'
      BY <1>4, <3>2, MergedRecords
    <3>4. ASSUME NEW v \in Reports, at'[v] = "write"
          PROVE  CopyRecords(v, w)' \/ w \in behind'[v]
      <4>1. at[v] = "write"
        BY <1>4, <3>4 DEF WriteBack, TypeOK
      <4>2. CopyRecords(v, w) \/ w \in behind[v]
        BY <3>1, <4>1 DEF ReportInv
      <4>3. behind'[v] = behind[v] \cup {u}
        BY <1>4, <4>1 DEF WriteBack, Outdates
      <4> QED
        BY <1>4, <4>2, <4>3 DEF WriteBack, CopyRecords
    <3> QED
      BY <3>3, <3>4
  <2> QED
    BY <2>1, <2>2
<1> QED
  BY <1>1, <1>2, <1>3, <1>4, StepKinds DEF ReportStep

\* A written report is in the row until the task ends, unless another had read the
\* row before it and wrote after it (GT:169-203).
THEOREM ReportKept == Spec => []ReportLostOnlyToOverlap
<1>1. Init => ReportInv
  BY DEF Init, ReportInv
<1>2. ReportInv => ReportLostOnlyToOverlap
  BY DEF ReportInv, ReportLostOnlyToOverlap
<1> QED
  BY <1>1, <1>2, ReportInvStep, RowTypeCorrect, PTL DEF Spec
=============================================================================
