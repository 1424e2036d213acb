------------------------------ MODULE TaskLife ------------------------------
(***************************************************************************)
(* What the backend promises of each grab task while its process lives:    *)
(* the row is inserted once and leaves "pending" once, the task is served  *)
(* by one run of a worker, which alone books for it, judges it at most     *)
(* once and tells the user at most once what it has judged; and a user's   *)
(* cancel or a newer task overwrites the row only when nobody will start   *)
(* serving it.                                                             *)
(***************************************************************************)
CONSTANTS Tasks

VARIABLES
  status, \* of the row
  phase,  \* of the service: before it, in it, the verdict that is to be told, after it
  booked, \* tasks for which the library has booked
  told    \* <<task, verdict>> told to the user

vars == <<status, phase, booked, told>>

Verdicts == {"success", "failed"}

Init ==
  /\ status = [t \in Tasks |-> "absent"]
  /\ phase = [t \in Tasks |-> "waiting"]
  /\ booked = {} /\ told = {}

Enter(t, from, to) == phase[t] = from /\ phase' = [phase EXCEPT ![t] = to]
Write(t, s) == status' = [status EXCEPT ![t] = s]

Insert(t) ==
  /\ status[t] = "absent" /\ phase[t] = "waiting"
  /\ Write(t, "pending")
  /\ UNCHANGED <<phase, booked, told>>

Serve(t) ==
  /\ status[t] # "absent"
  /\ Enter(t, "waiting", "served")
  /\ UNCHANGED <<status, booked, told>>

\* The row of a task shows that it is served, or was.
ShowRunning(t) ==
  /\ status[t] = "pending" /\ phase[t] # "waiting"
  /\ Write(t, "running")
  /\ UNCHANGED <<phase, booked, told>>

Book(t) ==
  /\ phase[t] = "served"
  /\ booked' = booked \cup {t}
  /\ UNCHANGED <<status, phase, told>>

Judge(t, v) ==
  /\ v = "success" => t \in booked
  /\ Enter(t, "served", v)
  /\ Write(t, v)
  /\ UNCHANGED <<booked, told>>

Tell(t, v) ==
  /\ Enter(t, v, "over")
  /\ told' = told \cup {<<t, v>>}
  /\ UNCHANGED <<status, booked>>

\* The job is taken away, create() is refused, the run is cancelled, a call fails.
End(t) ==
  /\ \E p \in {"waiting", "served"} \cup Verdicts : Enter(t, p, "over")
  /\ UNCHANGED <<status, booked, told>>

\* By the user, also while the task is served.
Cancel(t) ==
  /\ status[t] # "absent" /\ phase[t] # "waiting"
  /\ Write(t, "cancelled")
  /\ UNCHANGED <<phase, booked, told>>

\* By a newer task of the account.
Override(t) ==
  /\ status[t] # "absent" /\ phase[t] = "over"
  /\ Write(t, "failed")
  /\ UNCHANGED <<phase, booked, told>>

Next ==
  \E t \in Tasks :
    \/ Insert(t) \/ Serve(t) \/ ShowRunning(t) \/ Book(t)
    \/ \E v \in Verdicts : Judge(t, v) \/ Tell(t, v)
    \/ End(t) \/ Cancel(t) \/ Override(t)

Spec == Init /\ [][Next]_vars
=============================================================================
