------------------------ MODULE MCGrabTaskLifecycle ------------------------
(* GrabTaskLifecycle with two tasks of one account: override, refusal and   *)
(* overlap all need a second task of the same account.                      *)
EXTENDS GrabTaskLifecycle, TLC

CONSTANTS t1, t2, a1

MCTasks == {t1, t2}
MCAccounts == {a1}
MCAccountOf == [t \in MCTasks |-> a1]
Symmetry == Permutations(MCTasks)

\* The tasks that are or may become pending; once past it a task never is again.
Untouched == {t \in Tasks : status[t] \in {"absent", "pending"}}

\* What the invariants of lifecycle_disturbed and the steps that follow can tell apart.  The
\* deadline of a run matters while it is on (LoadTask sets it anew), a booking once the
\* verdict is to rest on it (RoundBooks enters it anew), a report only when it is a
\* success; what has been left behind or not been seen while it may still be pending; that
\* a cancel() has returned never.
View ==
  <<status, job, stalls, cancelFlag, createPc, victims, victim, cancelPc, run,
    {t \in expired : run[t] \notin {"idle", "find"}},
    runningWrite,
    {t \in booked : status[t] = "success" \/ run[t] \in {"win", "tellWin"}
                      \/ <<t, "success">> \in told},
    {t \in Tasks : <<t, "success">> \in told},
    aborted \cap Untouched,
    [t \in Untouched |-> unseen[t] \cap Untouched],
    cancels, crashes, faults>>
=============================================================================
