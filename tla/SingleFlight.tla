---------------------------- MODULE SingleFlight ----------------------------
(***************************************************************************)
(* What the login lock of one account promises.  Callers form groups, one  *)
(* for each login in flight.  Whoever asks joins the group of the login    *)
(* that holds the lock, or founds a new one when the lock is free; the end *)
(* of a login answers its whole group and nobody else.                     *)
(*                                                                         *)
(* The lock can be lost while its login goes on: AccountService replaces   *)
(* or drops the entry the lock is kept in, and a login that has lost the   *)
(* lock releases it, when it ends, for whoever holds it then.              *)
(***************************************************************************)
CONSTANT Callers

VARIABLES
  groups,  \* the sets of callers that wait for the same login
  holder   \* the group whose login holds the lock; {} when it is free

Init == groups = {} /\ holder = {}

Ask(c) ==
  /\ \A g \in groups : c \notin g
  /\ holder' = holder \cup {c}
  /\ groups' = (groups \ {holder}) \cup {holder'}

End(g) ==
  /\ g \in groups
  /\ groups' = groups \ {g}
  /\ holder' = {}

LockLost == holder' = {} /\ groups' = groups

\* The process dies.
Die == groups' = {} /\ holder' = {}

Next ==
  \/ \E c \in Callers : Ask(c)
  \/ \E g \in groups : End(g)
  \/ LockLost \/ Die

Spec == Init /\ [][Next]_<<groups, holder>>
=============================================================================
