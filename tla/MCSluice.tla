------------------------------ MODULE MCSluice ------------------------------
(* Instances of Sluice for TLC; the cfg files fix the other constants. *)
EXTENDS SluicePayment, SluiceProgress, TLC

CONSTANTS o1, o2, w1, w2

OneOp      == {o1}
TwoOps     == {o1, o2}
OneWorker  == {w1}
TwoWorkers == {w1, w2}
OnePayment == {"p"}
PayOne     == [o \in OneOp |-> "p"]
PaySameTwice == [o \in TwoOps |-> "p"]

RightKey(t) == TRUE

(* For a while the workers sign with a key the node does not accept. *)
KeySwapped(t) == t.ts # 1

WorkerSymmetry == Permutations(TwoWorkers)
TwinSymmetry   == WorkerSymmetry \cup Permutations(TwoOps)
=============================================================================
