------------------------------- MODULE GrabRun -------------------------------
(***************************************************************************)
(* What one run of the grab seat worker promises: requests are sent until  *)
(* the library has confirmed one, and the run reports at most once, success *)
(* if and only if a booking was confirmed.  A request whose answer is lost  *)
(* may be accepted behind the run's back, even after its end.               *)
(***************************************************************************)
CONSTANTS Seats, None

VARIABLES
  running, \* the run goes on
  sent,    \* seats with a request that the library may still accept
  booked,  \* seats the library has booked
  known,   \* the seat the library has confirmed
  verdict  \* what the run has reported

vars == <<running, sent, booked, known, verdict>>

Init ==
  /\ running = TRUE /\ sent = {} /\ booked = {}
  /\ known = None /\ verdict = "none"

Send(s) ==
  /\ running /\ known = None
  /\ sent' = sent \cup {s}
  /\ UNCHANGED <<running, booked, known, verdict>>

\* The library accepts and the answer does not arrive; or it refuses.
Accept(s) ==
  /\ s \in sent \ booked
  /\ booked' = booked \cup {s}
  /\ sent' \in {sent, sent \ {s}}
  /\ UNCHANGED <<running, known, verdict>>

Refuse(s) ==
  /\ sent' = sent \ {s}
  /\ UNCHANGED <<running, booked, known, verdict>>

Confirm(s) ==
  /\ running /\ known = None /\ s \in sent \ booked
  /\ known' = s
  /\ booked' = booked \cup {s}
  /\ sent' \in {sent, sent \ {s}}
  /\ UNCHANGED <<running, verdict>>

Report ==
  /\ running /\ verdict = "none"
  /\ verdict' = IF known = None THEN "failed" ELSE "success"
  /\ running' = FALSE
  /\ UNCHANGED <<sent, booked, known>>

\* Cancelled, or a call has thrown.
Stop ==
  /\ running
  /\ running' = FALSE
  /\ UNCHANGED <<sent, booked, known, verdict>>

Next ==
  \/ \E s \in Seats : Send(s) \/ Accept(s) \/ Refuse(s) \/ Confirm(s)
  \/ Report \/ Stop

Spec == Init /\ [][Next]_vars
=============================================================================
