------------------------------- MODULE TronNet ------------------------------
(***************************************************************************)
(* The node by itself, with clients that send any envelope of Wallet at    *)
(* any time and any number of times: what the rebuild rule of the pipeline *)
(* may rely on whoever is sending.                                         *)
(***************************************************************************)
EXTENDS TronNode

CONSTANTS
  Wallet,       \* the envelopes that exist
  SafetyMargin  \* expiration_safety_seconds

ASSUME NetAssumption == Wallet \subseteq Txids /\ SafetyMargin \in Nat

netVars == <<now, nodeVars>>

SendAny == \E t \in Wallet : \E code \in BroadcastCode \cup {NodeTimeout} : broadcast(t, code)

NetNext == Tick \/ produce_block \/ SendAny

NetSpec == NodeInit /\ [][NetNext]_netVars

(* What _proof_of_death takes for a proof when the lookup and the solid    *)
(* time are read at one instant.                                           *)
ProvenDead(t) == find_tx(t) = "unknown" /\ solid_now >= t.exp + SafetyMargin

(* "Why that proves the old txid can never land": a transaction the node    *)
(* does not know once solid chain time is past its expiration plus the      *)
(* margin is in no block from then on, however often it is sent again.      *)
RebuildTheorem == \A t \in Wallet : [](ProvenDead(t) => []~Landed(t))

(* A receipt is final: a transaction once in a block stays in that block    *)
(* with that receipt, so a verdict read from a solid block cannot change.   *)
ReceiptsFinal ==
  [][\A t \in Wallet : Landed(t) => t \in DOMAIN txs' /\ txs'[t] = txs[t]]_netVars
=============================================================================
