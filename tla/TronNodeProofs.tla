--------------------------- MODULE TronNodeProofs ---------------------------
(***************************************************************************)
(* Facts about the node's operations, for every value of its constants;    *)
(* and, for the node with any clients (TronNet), that the rebuild rule is  *)
(* sound for every wallet, margin, solidity lag and inclusion delay.       *)
(***************************************************************************)
EXTENDS TronNet, TLAPS

(* The chain the node starts with obeys its own rules. *)
LEMMA NodeInitGood == NodeInit => NodeTypeOK /\ ChainRules
BY DEF NodeInit, NodeTypeOK, ChainRules

(* The next block's time is a natural number past the head's, and not before the clock. *)
LEMMA NextBlockTimeRises ==
  ASSUME NodeTypeOK
  PROVE  /\ NextBlockTime \in Nat
         /\ NextBlockTime > blockTime[head]
         /\ NextBlockTime >= now
<1>1. now \in Nat /\ blockTime[head] \in Nat
  BY DEF NodeTypeOK
<1>2. QED
  BY <1>1 DEF NextBlockTime

(* The solid block is a block of the chain, and the head is not older. *)
LEMMA SolidNotAhead ==
  ASSUME NodeTypeOK, ChainRules
  PROVE  /\ SolidHeight \in 1..head
         /\ solid_now \in Nat
         /\ solid_now <= blockTime[head]
<1>1. SolidHeight \in 1..head
  BY NodeAssumption DEF NodeTypeOK, SolidHeight, solid_block
<1>2. blockTime[SolidHeight] \in Nat /\ blockTime[head] \in Nat
  BY <1>1 DEF NodeTypeOK
<1>3. SolidHeight = head \/ SolidHeight < head
  BY <1>1 DEF NodeTypeOK
<1>4. CASE SolidHeight < head
  <2>1. head \in 1..head
    BY DEF NodeTypeOK
  <2>2. blockTime[SolidHeight] < blockTime[head]
    BY <1>1, <1>4, <2>1 DEF ChainRules
  <2>3. QED
    BY <1>1, <1>2, <2>2 DEF solid_now
<1>5. QED
  BY <1>1, <1>2, <1>3, <1>4 DEF solid_now

(* A clock tick keeps the types, the rules and every death. *)
LEMMA TickKeepsNode ==
  ASSUME NodeTypeOK, ChainRules, Tick
  PROVE  /\ NodeTypeOK' /\ ChainRules'
         /\ \A t \in Txids : Dead(t) => Dead(t)'
         /\ \A t \in Txids : Landed(t)' <=> Landed(t)
<1>1. NodeTypeOK' /\ ChainRules'
  BY DEF NodeTypeOK, ChainRules, Tick, nodeVars
<1>2. \A t \in Txids : Landed(t)' <=> Landed(t)
  BY DEF Tick, nodeVars, Landed
<1>3. \A t \in Txids : Dead(t) => Dead(t)'
  BY DEF Tick, nodeVars, Landed, Dead, NodeTypeOK, Txids
<1>4. QED
  BY <1>1, <1>2, <1>3

(* A broadcast, whatever its answer, keeps the types, the rules and every  *)
(* death, puts nothing into a block, and accepts nothing but its argument. *)
LEMMA BroadcastKeepsNode ==
  ASSUME NodeTypeOK, ChainRules,
         NEW t \in Txids, NEW code, broadcast(t, code)
  PROVE  /\ NodeTypeOK' /\ ChainRules'
         /\ \A u \in Txids : Dead(u) => Dead(u)'
         /\ \A u \in Txids : Landed(u)' <=> Landed(u)
         /\ \A u \in DOMAIN txs : txs'[u] = txs[u]
         /\ DOMAIN txs \subseteq DOMAIN txs' /\ DOMAIN txs' \subseteq DOMAIN txs \cup {t}
         /\ code \in HARD_REJECT => ~Verifies(t)
         /\ now' = now /\ head' = head /\ blockTime' = blockTime
<1>0. now' = now /\ head' = head /\ blockTime' = blockTime
  BY DEF broadcast
<1>1. code \in HARD_REJECT => ~Verifies(t)
  BY DEF broadcast, HARD_REJECT, NodeTimeout, UnknownCode
<1>2. \/ txs' = txs
      \/ /\ Verifies(t)
         /\ t \notin DOMAIN txs
         /\ txs' = [u \in DOMAIN txs \cup {t} |->
                      IF u = t THEN [at |-> head, block |-> 0, receipt |-> "none"] ELSE txs[u]]
  BY DEF broadcast
<1>3. CASE txs' = txs
  BY <1>0, <1>1, <1>3 DEF NodeTypeOK, ChainRules, Dead, Landed
<1>4. CASE /\ Verifies(t)
           /\ t \notin DOMAIN txs
           /\ txs' = [u \in DOMAIN txs \cup {t} |->
                        IF u = t THEN [at |-> head, block |-> 0, receipt |-> "none"] ELSE txs[u]]
  <2>1. DOMAIN txs' = DOMAIN txs \cup {t} /\ \A u \in DOMAIN txs : txs'[u] = txs[u]
    BY <1>4
  <2>2. txs'[t] = [at |-> head, block |-> 0, receipt |-> "none"]
    BY <1>4
  <2>3. NodeTypeOK'
    BY <1>0, <2>1, <2>2 DEF NodeTypeOK, TxRecords, Receipts
  <2>4. ChainRules'
    BY <1>0, <1>4, <2>1, <2>2 DEF ChainRules
  <2>5. \A u \in Txids : Landed(u)' <=> Landed(u)
    BY <1>4, <2>1, <2>2 DEF Landed
  <2>6. \A u \in Txids : Dead(u) => Dead(u)'
    BY <1>0, <2>5 DEF Dead
  <2>7. QED
    BY <1>0, <1>1, <2>1, <2>3, <2>4, <2>5, <2>6
<1>5. QED
  BY <1>2, <1>3, <1>4

(* A new block keeps the types, the rules and every death; what it puts in *)
(* carries its time, and what was in a block stays as it was.              *)
LEMMA BlockKeepsNode ==
  ASSUME NodeTypeOK, ChainRules, produce_block
  PROVE  /\ NodeTypeOK' /\ ChainRules'
         /\ now' = now /\ blockTime'[head'] = NextBlockTime
         /\ \A t \in Txids : Dead(t) => Dead(t)'
         /\ DOMAIN txs' = DOMAIN txs
         /\ \A t \in DOMAIN txs : Landed(t) =>
              /\ txs'[t] = txs[t]
              /\ blockTime'[txs'[t].block] = blockTime[txs[t].block]
         /\ \A t \in DOMAIN txs : Landed(t)' /\ ~Landed(t) =>
              blockTime'[txs'[t].block] = NextBlockTime
<1> DEFINE N == NextBlockTime
<1>1. N \in Nat /\ N > blockTime[head] /\ N >= now
  BY NextBlockTimeRises
<1>2. head' = head + 1 /\ now' = now /\ head \in Nat \ {0} /\ now \in Nat
  BY DEF produce_block, NodeTypeOK
<1>3. blockTime' = [h \in 1..(head + 1) |-> IF h = head + 1 THEN N ELSE blockTime[h]]
  BY DEF produce_block
<1>4. PICK reverted \in SUBSET {t \in DOMAIN txs : Includable(t)} :
        txs' = [t \in DOMAIN txs |->
                  IF Includable(t)
                    THEN [at |-> txs[t].at, block |-> head + 1,
                          receipt |-> IF t \in reverted THEN "REVERTED" ELSE "SUCCESS"]
                    ELSE txs[t]]
  BY Zenon DEF produce_block
<1> HIDE DEF N
<1>5. /\ DOMAIN txs' = DOMAIN txs
      /\ \A t \in DOMAIN txs : ~Includable(t) => txs'[t] = txs[t]
      /\ \A t \in DOMAIN txs : Includable(t) =>
           /\ txs'[t] \in TxRecords
           /\ txs'[t].block = head + 1
           /\ txs'[t].receipt \in Receipts
  <2>1. DOMAIN txs' = DOMAIN txs
    BY <1>4
  <2>2. ASSUME NEW t \in DOMAIN txs, ~Includable(t) PROVE txs'[t] = txs[t]
    BY <1>4, <2>2
  <2>3. ASSUME NEW t \in DOMAIN txs, Includable(t)
        PROVE  txs'[t] \in TxRecords /\ txs'[t].block = head + 1 /\ txs'[t].receipt \in Receipts
    <3>1. txs'[t] = [at |-> txs[t].at, block |-> head + 1,
                     receipt |-> IF t \in reverted THEN "REVERTED" ELSE "SUCCESS"]
      BY <1>4, <2>3
    <3>2. txs[t].at \in Nat /\ head + 1 \in Nat
      BY <1>2 DEF NodeTypeOK, TxRecords
    <3>3. QED
      BY <3>1, <3>2 DEF TxRecords, Receipts
  <2>4. QED
    BY <2>1, <2>2, <2>3
<1>6. /\ blockTime' \in [1..head' -> Nat]
      /\ blockTime'[head'] = N
      /\ \A h \in 1..head : blockTime'[h] = blockTime[h]
  BY <1>1, <1>2, <1>3 DEF NodeTypeOK
<1>7. NodeTypeOK'
  <2>1. \A t \in DOMAIN txs' : txs'[t] \in TxRecords
    BY <1>5 DEF NodeTypeOK
  <2>2. QED
    BY <1>2, <1>5, <1>6, <2>1 DEF NodeTypeOK
<1>8. \A t \in DOMAIN txs : Includable(t) => txs[t].block = 0 /\ t.exp > N
  BY DEF Includable, N
<1>9. \A i \in 1..head : blockTime[i] \in Nat /\ blockTime[i] <= blockTime[head]
  <2>1. head \in 1..head /\ blockTime[head] \in Nat
    BY <1>2 DEF NodeTypeOK
  <2>2. TAKE i \in 1..head
  <2>3. blockTime[i] \in Nat
    BY DEF NodeTypeOK
  <2>4. CASE i = head
    BY <2>1, <2>4
  <2>5. CASE i < head
    BY <2>1, <2>3, <2>5 DEF ChainRules
  <2>6. QED
    BY <1>2, <2>3, <2>4, <2>5
<1>10. ChainRules'
  <2>1. ASSUME NEW i \in 1..head', NEW j \in 1..head', i < j
        PROVE  blockTime'[i] < blockTime'[j]
    <3>1. i \in 1..head
      BY <1>2, <2>1
    <3>2. CASE j = head'
      BY <1>1, <1>2, <1>6, <1>9, <3>1, <3>2
    <3>3. CASE j # head'
      <4>1. j \in 1..head
        BY <1>2, <3>3
      <4>2. QED
        BY <1>6, <2>1, <3>1, <4>1 DEF ChainRules
    <3>4. QED
      BY <3>2, <3>3
  <2>2. ASSUME NEW t \in DOMAIN txs', txs'[t].block # 0
        PROVE  /\ txs'[t].block \in 1..head'
               /\ blockTime'[txs'[t].block] < t.exp
               /\ txs'[t].receipt \in Receipts
    <3>1. CASE Includable(t)
      BY <1>1, <1>2, <1>5, <1>6, <1>8, <3>1
    <3>2. CASE ~Includable(t)
      <4>1. txs'[t] = txs[t] /\ t \in DOMAIN txs
        BY <1>5, <3>2
      <4>2. txs[t].block \in 1..head /\ blockTime[txs[t].block] < t.exp /\ txs[t].receipt \in Receipts
        BY <2>2, <4>1 DEF ChainRules
      <4>3. QED
        BY <1>2, <1>6, <4>1, <4>2
    <3>3. QED
      BY <3>1, <3>2
  <2>3. \A t \in DOMAIN txs' : Verifies(t)
    BY <1>5 DEF ChainRules
  <2>4. QED
    BY <2>1, <2>2, <2>3 DEF ChainRules
<1>11. ASSUME NEW t \in Txids, Dead(t) PROVE Dead(t)'
  <2>1. t.exp \in Nat /\ blockTime[head] \in Nat
    BY <1>2, <1>9 DEF Txids
  <2>2. t.exp <= N
    BY <1>1, <1>2, <1>11, <2>1 DEF Dead
  <2>3. ~Landed(t)'
    <3>1. CASE t \in DOMAIN txs
      <4>1. ~Includable(t)
        BY <1>1, <1>8, <2>1, <2>2, <3>1
      <4>2. QED
        BY <1>5, <1>11, <3>1, <4>1 DEF Dead, Landed
    <3>2. CASE t \notin DOMAIN txs
      BY <1>5, <3>2 DEF Landed
    <3>3. QED
      BY <3>1, <3>2
  <2>4. QED
    BY <1>6, <2>2, <2>3 DEF Dead
<1>12. ASSUME NEW t \in DOMAIN txs, Landed(t)
       PROVE  txs'[t] = txs[t] /\ blockTime'[txs'[t].block] = blockTime[txs[t].block]
  <2>1. txs'[t] = txs[t]
    BY <1>5, <1>8, <1>12 DEF Landed
  <2>2. txs[t].block \in 1..head
    BY <1>12 DEF ChainRules, Landed
  <2>3. QED
    BY <1>6, <2>1, <2>2
<1>13. ASSUME NEW t \in DOMAIN txs, Landed(t)', ~Landed(t)
       PROVE  blockTime'[txs'[t].block] = N
  <2>1. Includable(t)
    BY <1>5, <1>13 DEF Landed
  <2>2. QED
    BY <1>2, <1>5, <1>6, <2>1
<1>14. QED
  BY <1>2, <1>5, <1>6, <1>7, <1>10, <1>11, <1>12, <1>13 DEF N

-----------------------------------------------------------------------------
(*                         The node and its clients                        *)

(* Every step of the net keeps the node's types and rules, keeps every     *)
(* death, and leaves a transaction that is in a block as it was.           *)
LEMMA NetStep ==
  ASSUME NodeTypeOK, ChainRules, [NetNext]_netVars
  PROVE  /\ NodeTypeOK' /\ ChainRules'
         /\ \A t \in Txids : Dead(t) => Dead(t)'
         /\ \A t \in Txids : Landed(t) => t \in DOMAIN txs' /\ txs'[t] = txs[t]
<1>1. CASE Tick
  <2>1. txs' = txs
    BY <1>1 DEF Tick, nodeVars
  <2>2. QED
    BY <1>1, <2>1, TickKeepsNode DEF Landed
<1>2. CASE produce_block
  BY <1>2, BlockKeepsNode DEF Landed
<1>3. CASE SendAny
  <2>1. PICK t \in Txids, code \in BroadcastCode \cup {NodeTimeout} : broadcast(t, code)
    BY <1>3, NetAssumption DEF SendAny
  <2>2. QED
    BY <2>1, BroadcastKeepsNode DEF Landed
<1>4. CASE UNCHANGED netVars
  BY <1>4 DEF netVars, nodeVars, NodeTypeOK, ChainRules, Dead, Landed
<1>5. QED
  BY <1>1, <1>2, <1>3, <1>4 DEF NetNext

(* The node keeps its types and the chain's validity rules, whatever is    *)
(* sent to it (produce_blocks, broadcast).                                 *)
THEOREM NetChainRules == NetSpec => [](NodeTypeOK /\ ChainRules)
<1>1. NodeInit => NodeTypeOK /\ ChainRules
  BY NodeInitGood
<1>2. NodeTypeOK /\ ChainRules /\ [NetNext]_netVars => (NodeTypeOK /\ ChainRules)'
  BY NetStep
<1>3. QED
  BY <1>1, <1>2, PTL DEF NetSpec

(* At the instant of a proof of death the transaction is dead. *)
LEMMA ProofShowsDeath ==
  ASSUME NodeTypeOK, ChainRules, NEW t \in Txids, ProvenDead(t)
  PROVE  Dead(t)
<1>1. ~Landed(t)
  BY DEF ProvenDead, find_tx
<1>2. t.exp \in Nat /\ SafetyMargin \in Nat /\ blockTime[head] \in Nat
  BY NetAssumption DEF Txids, NodeTypeOK
<1>3. t.exp <= blockTime[head]
  BY <1>2, SolidNotAhead DEF ProvenDead
<1>4. QED
  BY <1>1, <1>3 DEF Dead

(* The rebuild theorem for one envelope. *)
LEMMA RebuildTheoremOne ==
  ASSUME NEW t \in Wallet
  PROVE  NetSpec => [](ProvenDead(t) => []~Landed(t))
<1>1. t \in Txids
  BY NetAssumption
<1>2. NodeTypeOK /\ ChainRules /\ ProvenDead(t) => Dead(t)
  BY <1>1, ProofShowsDeath
<1>3. NodeTypeOK /\ ChainRules /\ [NetNext]_netVars /\ Dead(t) => Dead(t)'
  BY <1>1, NetStep
<1>4. Dead(t) => ~Landed(t)
  BY DEF Dead
<1>5. QED
  BY <1>2, <1>3, <1>4, NetChainRules, PTL DEF NetSpec

(* "Why that proves the old txid can never land" (_proof_of_death): an     *)
(* envelope unknown to the node once solid chain time is past its deadline *)
(* is in no block from then on.                                            *)
THEOREM NetRebuild == NetSpec => RebuildTheorem
BY RebuildTheoremOne DEF RebuildTheorem

(* A verdict read from a block never changes. *)
THEOREM NetReceiptsFinal == NetSpec => ReceiptsFinal
<1>1. NodeTypeOK /\ ChainRules /\ [NetNext]_netVars =>
        [\A t \in Wallet : Landed(t) => t \in DOMAIN txs' /\ txs'[t] = txs[t]]_netVars
  BY NetStep, NetAssumption
<1>2. QED
  BY <1>1, NetChainRules, PTL DEF NetSpec, ReceiptsFinal
=============================================================================
