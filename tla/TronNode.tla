------------------------------ MODULE TronNode ------------------------------
(***************************************************************************)
(* The TRON node as the repository has it (sluice/tron/mocknet.py), the    *)
(* clock it shares with the workers (sluice/config.py) and the envelope    *)
(* and code types (sluice/tron/types.py).                                  *)
(*                                                                         *)
(* Scripted faults are a nondeterministic choice made by the node on each  *)
(* call: every script of the fault queues is some sequence of choices.     *)
(***************************************************************************)
EXTENDS Integers

CONSTANTS
  Payments,        \* (destination, amount) pairs an operation may ask for
  SolidityLag,     \* blocks between the head and the latest solid block
  InclusionDelay,  \* blocks a transaction waits after its acceptance
  Verifies(_),     \* the envelope was signed with the key the node verifies with
  MaxTime,         \* bound on the clock
  MaxHead          \* bound on the number of blocks

ASSUME NodeAssumption ==
  /\ SolidityLag \in Nat /\ InclusionDelay \in Nat
  /\ MaxTime \in Nat /\ MaxHead \in Nat

VARIABLES
  now,        \* Clock.now()
  head,       \* _head
  blockTime,  \* _block_time: height -> timestamp
  txs         \* _txs: accepted envelope -> [at, block, receipt]; block 0 is None

nodeVars == <<head, blockTime, txs>>

-----------------------------------------------------------------------------
(* compute_txid hashes raw_data, so an envelope stands for its own txid.   *)
(* raw_data holds the payment, the reference block, the build timestamp    *)
(* and the expiration, and does not hold the operation's id.               *)
Txids == [pay : Payments, ref : Nat, ts : Nat, exp : Nat]

Receipts == {"SUCCESS", "REVERTED"}

TxRecords == [at : Nat, block : Nat, receipt : Receipts \cup {"none"}]

ACCEPTED         == {"SUCCESS", "DUP_TRANSACTION"}
HARD_REJECT      == {"SIGERROR", "CONTRACT_VALIDATE_ERROR"}
STALE_ENVELOPE   == {"TAPOS_ERROR", "TRANSACTION_EXPIRATION_ERROR"}
RETRY_SAME_BYTES == {"SERVER_BUSY"}
(* The code no table lists: Fault.UNKNOWN_CODE answers with it. *)
UnknownCode      == "PLEASE_INSERT_COIN"
(* NodeTimeout is an exception and not a code; no answer reached the caller. *)
NodeTimeout      == "timeout"

BroadcastCode ==
  ACCEPTED \cup HARD_REJECT \cup STALE_ENVELOPE \cup RETRY_SAME_BYTES \cup {UnknownCode}

-----------------------------------------------------------------------------
NodeInit ==
  /\ now = 0
  /\ head = 1
  /\ blockTime = [h \in 1..1 |-> 0]
  /\ txs = [t \in {} |-> 0]

(* Clock.advance. The clock never goes back. *)
Tick ==
  /\ now < MaxTime
  /\ now' = now + 1
  /\ UNCHANGED nodeVars

solid_block == head - SolidityLag

(* A chain younger than the lag answers with its earliest block. *)
SolidHeight == IF solid_block >= 1 THEN solid_block ELSE 1

ref_block == SolidHeight

solid_now == blockTime[SolidHeight]

(* Mutant: a block takes the clock's time. *)
NextBlockTime_Clock == now

(* Block time rises strictly even while the clock stands still. *)
NextBlockTime ==
  IF now > blockTime[head] THEN now ELSE blockTime[head] + 1

(* Mutants: expiry judged by the wall clock; a transaction included anew. *)
Includable_WallClock(t) ==
  txs[t].block = 0 /\ t.exp > now /\ (head + 1) - txs[t].at >= InclusionDelay

Includable_Again(t) ==
  t.exp > NextBlockTime /\ (head + 1) - txs[t].at >= InclusionDelay

Includable(t) ==
  /\ txs[t].block = 0
  /\ t.exp > NextBlockTime
  /\ (head + 1) - txs[t].at >= InclusionDelay

(* One iteration of produce_blocks; any included transfer may revert. *)
produce_block ==
  /\ head < MaxHead
  /\ head' = head + 1
  /\ blockTime' = [h \in 1..(head + 1) |-> IF h = head + 1 THEN NextBlockTime ELSE blockTime[h]]
  /\ \E reverted \in SUBSET {t \in DOMAIN txs : Includable(t)} :
       txs' = [t \in DOMAIN txs |->
                 IF Includable(t)
                   THEN [at      |-> txs[t].at,
                         block   |-> head + 1,
                         receipt |-> IF t \in reverted THEN "REVERTED" ELSE "SUCCESS"]
                   ELSE txs[t]]
  /\ UNCHANGED now

(* Mutant: the signature is the last thing checked, when the transaction    *)
(* has been taken in.                                                       *)
broadcast_SignatureLast(t, code) ==
  /\ \/ /\ code \in {NodeTimeout, "SERVER_BUSY", UnknownCode}
        /\ UNCHANGED txs
     \/ /\ t.exp <= now
        /\ code = "TRANSACTION_EXPIRATION_ERROR"
        /\ UNCHANGED txs
     \/ /\ t.exp > now /\ t \in DOMAIN txs
        /\ code = "DUP_TRANSACTION"
        /\ UNCHANGED txs
     \/ /\ t.exp > now /\ t \notin DOMAIN txs
        /\ code \in IF Verifies(t) THEN {"SUCCESS", NodeTimeout} ELSE {"SIGERROR"}
        /\ txs' = [u \in DOMAIN txs \cup {t} |->
                     IF u = t THEN [at |-> head, block |-> 0, receipt |-> "none"] ELSE txs[u]]
  /\ UNCHANGED <<now, head, blockTime>>

(* broadcast(t) answering code, in the order the node makes its checks. *)
broadcast(t, code) ==
  /\ \/ /\ code \in {NodeTimeout, "SERVER_BUSY", UnknownCode}
        /\ UNCHANGED txs
     \/ /\ ~Verifies(t)
        /\ code = "SIGERROR"
        /\ UNCHANGED txs
     \/ /\ Verifies(t) /\ t.exp <= now
        /\ code = "TRANSACTION_EXPIRATION_ERROR"
        /\ UNCHANGED txs
     \/ /\ Verifies(t) /\ t.exp > now /\ t \in DOMAIN txs
        /\ code = "DUP_TRANSACTION"
        /\ UNCHANGED txs
     \/ /\ Verifies(t) /\ t.exp > now /\ t \notin DOMAIN txs
        /\ code \in {"SUCCESS", NodeTimeout}
        /\ txs' = [u \in DOMAIN txs \cup {t} |->
                     IF u = t THEN [at |-> head, block |-> 0, receipt |-> "none"] ELSE txs[u]]
  /\ UNCHANGED <<now, head, blockTime>>

Landed(t) == t \in DOMAIN txs /\ txs[t].block # 0

(* An accepted transaction that expired unmined looks unknown to a lookup. *)
find_tx(t) ==
  IF Landed(t) THEN "included"
  ELSE IF t \in DOMAIN txs /\ t.exp > now THEN "pending"
  ELSE "unknown"

IsSolid(t) == txs[t].block <= solid_block

(* No block, past or future, holds t. *)
Dead(t) == ~Landed(t) /\ (t.exp <= now \/ t.exp <= blockTime[head])

-----------------------------------------------------------------------------
NodeTypeOK ==
  /\ now \in Nat
  /\ head \in Nat \ {0}
  /\ blockTime \in [1..head -> Nat]
  /\ DOMAIN txs \subseteq Txids
  /\ \A t \in DOMAIN txs : txs[t] \in TxRecords

(* The validity rules the node keeps: block times rise with height, a block *)
(* holds no transaction that expired before it, an included transaction has *)
(* a receipt, and nothing is accepted on a signature that does not verify   *)
(* (produce_blocks and broadcast of the node).                              *)
ChainRules ==
  /\ \A i, j \in 1..head : i < j => blockTime[i] < blockTime[j]
  /\ \A t \in DOMAIN txs : txs[t].block # 0 =>
       /\ txs[t].block \in 1..head
       /\ blockTime[txs[t].block] < t.exp
       /\ txs[t].receipt \in Receipts
  /\ \A t \in DOMAIN txs : Verifies(t)
=============================================================================
