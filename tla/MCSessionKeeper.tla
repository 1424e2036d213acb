-------------------------- MODULE MCSessionKeeper --------------------------
(* SessionKeeper with one user, one heartbeat tick and the start-up login:  *)
(* three callers that can meet at the lock.                                 *)
EXTENDS SessionKeeper

CONSTANTS u1, h1, l1, l2, l3, l4, l5

MCUsers == {u1}
MCTicks == {h1}
MCLogins == {l1, l2, l3, l4, l5}
=============================================================================
