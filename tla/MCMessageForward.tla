-------------------------- MODULE MCMessageForward --------------------------
(* MessageForward with two firings of the timer that may overlap.           *)
EXTENDS MessageForward

CONSTANTS r1, r2, a1, a2, m1, m2, t1, t2

MCRounds   == {r1, r2}
MCAccounts == {a1, a2}
MCMessages == {m1, m2}
MCAccountOf == [m \in MCMessages |-> a1]
MCTitleOf   == [m \in MCMessages |-> IF m = m1 THEN t1 ELSE t2]
=============================================================================
