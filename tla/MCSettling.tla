----------------------------- MODULE MCSettling -----------------------------
(* Settling for TLC: two workers, two operations, one row per claim. *)
EXTENDS Settling

CONSTANTS o1, o2, w1, w2

TwoOps     == {o1, o2}
TwoWorkers == {w1, w2}
=============================================================================
