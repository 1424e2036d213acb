----------------------------- MODULE MCTaskPage -----------------------------
(* TaskPage with two accounts, two tasks (of one account or of each), one    *)
(* click handled at a time and two overlapping polls.  The choices of owners  *)
(* are those that differ by more than the names of the accounts; the job of   *)
(* the task whose card is not followed may be delivered again.               *)
EXTENDS TaskPage

CONSTANTS a1, a2, t1, t2, c1

MCAccounts == {a1, a2}
MCTasks == {t1, t2}
MCClicks == {c1}
MCStalling == {t2}
MCOwners == {[t \in MCTasks |-> a1], [t \in MCTasks |-> IF t = t1 THEN a1 ELSE a2]}
=============================================================================
