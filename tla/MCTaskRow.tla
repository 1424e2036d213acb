----------------------------- MODULE MCTaskRow -----------------------------
(* TaskRow with two preferred seats and the precheck: three writers of the   *)
(* result that can overlap, beside the worker and one cancel.                *)
EXTENDS TaskRow, TLC

CONSTANTS s1, s2

MCSeats == {s1, s2}
SeatSymmetry == Permutations(MCSeats)
=============================================================================
