------------------------------- MODULE Payment ------------------------------
(***************************************************************************)
(* What sluice promises a client, without workers, leases, envelopes or    *)
(* clocks: a withdrawal is requested, its money moves at most once, and it *)
(* is closed with the answer that tells whether the money has moved. The   *)
(* client reads status with GET /v1/withdrawals; transfers[o] holds the    *)
(* successful transactions on the chain that pay for o.                    *)
(***************************************************************************)
CONSTANT Ops

VARIABLES
  status,    \* "none", "open", "confirmed" or "refused"
  transfers

payVars == <<status, transfers>>

PayInit ==
  /\ status = [o \in Ops |-> "none"]
  /\ transfers = [o \in Ops |-> {}]

Request(o) ==
  /\ status[o] = "none"
  /\ status' = [status EXCEPT ![o] = "open"]
  /\ UNCHANGED transfers

(* One block pays every withdrawal of paid: each for the first time, while *)
(* it is open, with one transfer that pays for no other.                   *)
Transfer(paid) ==
  /\ \A o \in paid : status[o] = "open" /\ transfers[o] = {}
  /\ \A o \in paid : \E t \in transfers'[o] : transfers'[o] = {t}
  /\ \A o \in Ops \ paid : transfers'[o] = transfers[o]
  /\ \A o, p \in Ops : o # p => transfers'[o] \cap transfers'[p] = {}
  /\ UNCHANGED status

(* The withdrawal is closed for good, and truthfully. *)
Close(o) ==
  /\ status[o] = "open"
  /\ status' = [status EXCEPT ![o] = IF transfers[o] = {} THEN "refused" ELSE "confirmed"]
  /\ UNCHANGED transfers

PayNext ==
  \/ \E o \in Ops : Request(o) \/ Close(o)
  \/ \E paid \in SUBSET Ops : Transfer(paid)

PaySpec == PayInit /\ [][PayNext]_payVars
=============================================================================
