---------------------------- MODULE SluicePayment ---------------------------
(***************************************************************************)
(* How the store and the chain of Sluice read as the abstract payments of  *)
(* Payment.                                                                *)
(***************************************************************************)
EXTENDS SluiceInv

StatusOf(state) ==
  CASE state = "absent"                 -> "none"
    [] state = "confirmed"              -> "confirmed"
    [] state \in {"failed", "rejected"} -> "refused"
    [] OTHER                            -> "open"

PayStatus == [o \in Ops |-> StatusOf(rows[o].state)]

(* The transfers an operation's log accounts for. *)
PaidFor == [o \in Ops |-> {t \in writeAhead[o] : Paid(t)}]

Promise == INSTANCE Payment WITH status <- PayStatus, transfers <- PaidFor

(* Workers, leases, crashes, lost answers and rebuilds implement the        *)
(* abstract payment: the money moves at most once and only while the row is *)
(* open, one transfer never pays for two operations, and a row is closed    *)
(* once, with the answer the chain gives then and for ever.                 *)
PaysOnce == Promise!PaySpec
=============================================================================
