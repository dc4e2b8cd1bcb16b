------------------------------ MODULE MCTronNet -----------------------------
(* Two envelopes of the same payment, with different deadlines, and one     *)
(* that a signer with another key has signed.                               *)
EXTENDS TronNet

TwoPayments == {"p", "q"}
Envelopes == {[pay |-> "p", ref |-> 1, ts |-> 0, exp |-> e] : e \in {2, 3}}
               \cup {[pay |-> "q", ref |-> 1, ts |-> 0, exp |-> 2]}
RightKey(t) == t.pay = "p"
=============================================================================
