---------------------------- MODULE PaymentProofs ---------------------------
(***************************************************************************)
(* The money moves at most once, for any number of workers, operations,    *)
(* crashes and rebuilds, and every verdict is the chain's. FencingInv and  *)
(* MoneyInv together are inductive under the two assumptions of SluiceInv: *)
(* SafeTiming (a lookup is not older than the safety margin when the proof *)
(* of death is made) and DistinctTxids. Under them Sluice implements       *)
(* Payment; every write is a legal transition, and a fenced worker writes  *)
(* nothing.                                                                *)
(***************************************************************************)
EXTENDS SluicePayment, FencingProofs

\* Zenon takes every leaf that names no other prover.
USE Zenon

-----------------------------------------------------------------------------
(*                       Steps that do not write a row                     *)

(* The node knows what it knew: nothing dead revives, nothing landed is    *)
(* lost or changed, what is solid stays solid.                             *)
NodeMonotone ==
  /\ \A t \in Txids : Dead(t) => Dead(t)'
  /\ \A t \in Txids : Landed(t) => Landed(t)' /\ txs'[t] = txs[t]
  /\ \A t \in Txids : Landed(t) /\ IsSolid(t) => IsSolid(t)'

(* The node at rest, and each of its moves. *)
LEMMA RestMonotone ==
  ASSUME UNCHANGED <<now, nodeVars>>
  PROVE  NodeMonotone /\ txs' = txs
BY DEF nodeVars, NodeMonotone, Dead, Landed, IsSolid, solid_block

(* A verdict keeps what backs it. *)
LEMMA VerdictStays ==
  ASSUME FencingInv, NodeMonotone, NEW o \in Ops, VerdictBacked(rows[o]),
         rows'[o].state = rows[o].state, rows'[o].signed = rows[o].signed
  PROVE  VerdictBacked(rows[o])'
<1>1. rows[o].signed \in Txids \cup {NoTx}
  BY DEF Rows, FencingInv, TypeOK
<1>2. rows[o].state = "confirmed" => rows[o].signed # NoTx
  BY DEF FencingInv, Coherent, RowGood
<1>3. \A t \in Txids : /\ Landed(t) => Landed(t)' /\ txs'[t] = txs[t]
                       /\ Landed(t) /\ IsSolid(t) => IsSolid(t)'
  BY DEF NodeMonotone
<1>4. CASE rows[o].signed = NoTx
  BY <1>2, <1>4 DEF VerdictBacked
<1>5. CASE rows[o].signed \in Txids
  <2>1. PICK t \in Txids : t = rows[o].signed
    BY <1>5
  <2>2. rows'[o].signed = t
    BY <2>1
  <2>3. /\ Landed(t) => Landed(t)' /\ txs'[t] = txs[t]
        /\ Landed(t) /\ IsSolid(t) => IsSolid(t)'
    BY <1>3
  <2>4. QED
    BY <2>1, <2>2, <2>3 DEF VerdictBacked, Landed, IsSolid
<1>6. QED
  BY <1>1, <1>4, <1>5

(* No row is written and nothing new is written ahead. *)
LEMMA QuietKeepsLedger ==
  ASSUME FencingInv, LedgerInv, RowsStill, writeAhead' = writeAhead, NodeMonotone, SentWasLogged'
  PROVE  LedgerInv'
<1>1. TxidsUnique'
  BY SMT DEF LedgerInv, TxidsUnique, RowsStill
<1>2. RetiredStaysDead'
  <2>1. \A o \in Ops : writeAhead[o] \subseteq Txids
    BY DEF FencingInv, TypeOK
  <2>2. ASSUME NEW o \in Ops, NEW t \in writeAhead[o], t # rows[o].signed PROVE Dead(t)'
    BY <2>1, <2>2 DEF LedgerInv, RetiredStaysDead, NodeMonotone
  <2>3. QED
    BY <2>2 DEF RetiredStaysDead, RowsStill
<1>3. SignedFresh'
  <2>1. ASSUME NEW o \in Ops, NEW p \in Ops,
               rows'[o].state = "signed", rows'[o].signed \in writeAhead'[p]
        PROVE  Dead(rows[o].signed)'
    <3>1. rows[o].signed \in Txids /\ Dead(rows[o].signed)
      BY <2>1 DEF LedgerInv, SignedFresh, RowsStill, FencingInv, TypeOK
    <3>2. rows'[o].signed = rows[o].signed
      BY DEF RowsStill
    <3>3. PICK t \in Txids : t = rows[o].signed
      BY <3>1
    <3>4. Dead(t)'
      BY <3>1, <3>3 DEF NodeMonotone
    <3>5. QED
      BY <3>2, <3>3, <3>4 DEF Dead, Landed
  <2>2. QED
    BY <2>1 DEF SignedFresh
<1>4. \A o \in Ops : VerdictBacked(rows[o])'
  BY VerdictStays DEF LedgerInv, RowsStill
<1>5. QED
  BY <1>1, <1>2, <1>3, <1>4 DEF LedgerInv

-----------------------------------------------------------------------------
(*                              A cas that matches                         *)

(* What the ledger asks of the row w writes, and of the one it replaces. *)
LEMMA WriteKeepsLedger ==
  ASSUME FencingInv, FencingInv', LedgerInv,
         NEW w \in Workers, NEW row, cur[w] \in Ops, Write(w, row),
         writeAhead' = writeAhead \/
           (/\ writeAhead' = [writeAhead EXCEPT ![cur[w]] = @ \cup {row.signed}]
            /\ row.state = "broadcasting"),
         \A p \in Ops \ {cur[w]} : row.txid = rows[p].txid => row.txid = NoTx,
         \/ row.signed = rows[cur[w]].signed
         \/ rows[cur[w]].signed \in writeAhead[cur[w]] => Dead(rows[cur[w]].signed),
         row.state = "signed" =>
           \A p \in Ops : row.signed \in writeAhead[p] => Dead(row.signed),
         VerdictBacked(row)
  PROVE  LedgerInv'
<1> DEFINE c == cur[w]
<1>1. /\ c \in Ops /\ rows' = [rows EXCEPT ![c] = row]
      /\ now' = now /\ head' = head /\ blockTime' = blockTime /\ txs' = txs
  BY DEF Write, nodeVars
<1>2. rows'[c] = row /\ \A o \in Ops \ {c} : rows'[o] = rows[o]
  BY <1>1 DEF FencingInv, TypeOK
<1>3. /\ \A o \in Ops \ {c} : writeAhead'[o] = writeAhead[o]
      /\ writeAhead[c] \subseteq writeAhead'[c]
      /\ writeAhead'[c] \subseteq writeAhead[c] \cup {row.signed}
      /\ writeAhead' # writeAhead => row.state = "broadcasting"
  BY <1>1, SMT DEF FencingInv, TypeOK
<1>4. \A t : (Dead(t)' <=> Dead(t)) /\ (Landed(t)' <=> Landed(t))
  BY <1>1 DEF Dead, Landed
<1> HIDE DEF c
<1>5. TxidsUnique'
  BY <1>1, <1>2, SMT DEF LedgerInv, TxidsUnique, c
<1>6. SentWasLogged'
  <2>1. \A o \in Ops : writeAhead[o] \subseteq writeAhead'[o]
    BY <1>3
  <2>2. QED
    BY <1>1, <2>1 DEF LedgerInv, SentWasLogged
<1>7. RetiredStaysDead'
  <2>1. ASSUME NEW o \in Ops, NEW t \in writeAhead'[o], t # rows'[o].signed
        PROVE  Dead(t)'
    <3>1. CASE o = c
      <4>1. t \in writeAhead[c] /\ t # row.signed
        BY <1>2, <1>3, <2>1, <3>1
      <4>2. CASE t = rows[c].signed
        BY <1>4, <4>1, <4>2 DEF c
      <4>3. CASE t # rows[c].signed
        BY <1>1, <1>4, <4>1, <4>3 DEF LedgerInv, RetiredStaysDead
      <4>4. QED
        BY <4>2, <4>3
    <3>2. CASE o # c
      BY <1>2, <1>3, <1>4, <2>1, <3>2 DEF LedgerInv, RetiredStaysDead
    <3>3. QED
      BY <3>1, <3>2
  <2>2. QED
    BY <2>1 DEF RetiredStaysDead
<1>8. SignedFresh'
  <2>1. ASSUME NEW o \in Ops, NEW p \in Ops, NEW t, t = rows'[o].signed,
               rows'[o].state = "signed", t \in writeAhead'[p]
        PROVE  Dead(t)'
    <3>1. CASE o = c
      <4>1. writeAhead' = writeAhead /\ rows'[o] = row
        BY <1>2, <1>3, <2>1, <3>1
      <4>2. QED
        BY <1>4, <2>1, <4>1
    <3>2. CASE o # c /\ t \in writeAhead[p]
      BY <1>2, <1>4, <2>1, <3>2 DEF LedgerInv, SignedFresh
    <3>3. CASE o # c /\ t \notin writeAhead[p]
      <4>1. p = c /\ rows'[o] = rows[o] /\ rows'[o].signed = rows'[c].signed
        BY <1>2, <1>3, <2>1, <3>3
      <4>2. /\ rows'[o].signed # NoTx /\ rows'[o].signed = rows'[o].txid
            /\ rows'[c].signed = rows'[c].txid
        BY <1>1, <2>1, <4>1, ZenonT(30) DEF FencingInv, Coherent, RowGood
      <4>3. QED
        BY <1>1, <1>5, <3>3, <4>1, <4>2 DEF TxidsUnique
    <3>4. QED
      BY <3>1, <3>2, <3>3
  <2>2. QED
    BY <2>1 DEF SignedFresh, Dead, Landed
<1>9. ASSUME NEW o \in Ops PROVE VerdictBacked(rows[o])'
  <2>1. CASE o = c
    <3>1. rows'[o] = row
      BY <1>2, <2>1
    <3>2. QED
      BY <1>1, <3>1 DEF VerdictBacked, Landed, IsSolid, solid_block
  <2>2. CASE o # c
    <3>1. VerdictBacked(rows[o]) /\ rows'[o] = rows[o]
      BY <1>2, <2>2 DEF LedgerInv
    <3>2. QED
      BY <1>1, <3>1 DEF VerdictBacked, Landed, IsSolid, solid_block
  <2>3. QED
    BY <2>1, <2>2
<1>10. QED
  BY <1>5, <1>6, <1>7, <1>8, <1>9 DEF LedgerInv

(* A cas that leaves the envelope alone. *)
LEMMA AdvanceKeepsLedger ==
  ASSUME FencingInv, FencingInv', LedgerInv,
         NEW w \in Workers, NEW to \in OpState \ {"signed"}, pc[w] # "idle",
         Write(w, Committed(rows[cur[w]], to)),
         writeAhead' = writeAhead \/
           (/\ writeAhead' = [writeAhead EXCEPT ![cur[w]] = @ \cup {op(w).signed}]
            /\ to = "broadcasting"),
         to = "confirmed" => /\ Landed(op(w).signed) /\ IsSolid(op(w).signed)
                             /\ txs[op(w).signed].receipt = "SUCCESS",
         to = "failed" =>
           \/ op(w).signed = NoTx
           \/ /\ Landed(op(w).signed) /\ IsSolid(op(w).signed)
              /\ txs[op(w).signed].receipt = "REVERTED"
           \/ ~Verifies(op(w).signed)
  PROVE  LedgerInv'
<1> DEFINE row == Committed(rows[cur[w]], to)
<1>1. /\ row.state = to /\ row.txid = rows[cur[w]].txid /\ row.signed = rows[cur[w]].signed
      /\ cur[w] \in Ops /\ op(w) = rows[cur[w]]
  BY Busy, HitIsFresh, CommittedRow, SMTT(30) DEF Write
<1>2. Write(w, row)
  OBVIOUS
<1> HIDE DEF row
<1>3. VerdictBacked(row)
  BY <1>1 DEF VerdictBacked
<1>4. \A p \in Ops \ {cur[w]} : row.txid = rows[p].txid => row.txid = NoTx
  BY <1>1 DEF LedgerInv, TxidsUnique
<1>5. QED
  BY <1>1, <1>2, <1>3, <1>4, WriteKeepsLedger

(* _rebuild of an envelope that is dead if it was ever sent. *)
LEMMA RebuildKeepsLedger ==
  ASSUME FencingInv, FencingInv', LedgerInv, NEW w \in Workers, pc[w] # "idle", Rebuild(w),
         op(w).signed \in writeAhead[cur[w]] => Dead(op(w).signed)
  PROVE  LedgerInv'
<1> DEFINE r == Committed(rows[cur[w]], "signing")
           row == [r EXCEPT !.attempts = op(w).attempts + 1, !.txid = NoTx, !.signed = NoTx]
<1>1. Write(w, row) /\ writeAhead' = writeAhead
  BY DEF Rebuild, RowOf, WriteAndReturn, Unlogged
<1>2. cur[w] \in Ops /\ op(w) = rows[cur[w]] /\ r \in Rows /\ r.state = "signing"
  BY <1>1, Busy, HitIsFresh, CommittedRow DEF Write, OpState
<1> HIDE DEF r
<1>3. row.state = "signing" /\ row.txid = NoTx /\ row.signed = NoTx
  BY <1>2 DEF Rows
<1> HIDE DEF row
<1>4. VerdictBacked(row)
  BY <1>3 DEF VerdictBacked
<1>5. QED
  BY <1>1, <1>2, <1>3, <1>4, WriteKeepsLedger

(* A new envelope has a txid no other row carries. *)
LEMMA PersistKeepsLedger ==
  ASSUME DistinctTxids, FencingInv, FencingInv', LedgerInv, NEW w \in Workers, PersistEnvelope(w)
  PROVE  LedgerInv'
<1> DEFINE r == Committed(rows[cur[w]], "signing")
           row == [r EXCEPT !.txid = draft[w], !.signed = NoTx]
<1>1. /\ pc[w] # "idle" /\ Write(w, row) /\ writeAhead' = writeAhead
      /\ ~TxidTaken(cur[w], draft[w])
      /\ draft[w] \in Txids /\ draft[w].pay = Pay[cur[w]] /\ op(w).state = "signing"
  BY DEF PersistEnvelope, RowOf, FencingInv, Control, ControlOf
<1>2. /\ cur[w] \in Ops /\ op(w) = rows[cur[w]] /\ r \in Rows /\ r.state = "signing"
      /\ op(w).signed = NoTx
  BY <1>1, Busy, HitIsFresh, CommittedRow, ZenonT(30) DEF Write, OpState, RowGood
<1> HIDE DEF r
<1>3. row.state = "signing" /\ row.txid = draft[w] /\ row.signed = NoTx
  BY <1>2 DEF Rows
<1> HIDE DEF row
<1>4. VerdictBacked(row)
  BY <1>3 DEF VerdictBacked
<1>5. ASSUME NEW p \in Ops \ {cur[w]}, draft[w] = rows[p].txid PROVE FALSE
  <2>1. StoreKind # "postgres"
    BY <1>1, <1>5 DEF TxidTaken
  <2>2. Pay[p] # Pay[cur[w]]
    BY <1>2, <2>1 DEF DistinctTxids
  <2>3. rows[p].txid.pay = Pay[p]
    BY <1>1, <1>5, StoreAssumption, SMTT(30) DEF FencingInv, Coherent, RowGood
  <2>4. QED
    BY <1>1, <1>5, <2>2, <2>3
<1>6. QED
  BY <1>1, <1>2, <1>3, <1>4, <1>5, WriteKeepsLedger

(* What is signed has been written ahead by nobody, or is dead. *)
LEMMA SignKeepsLedger ==
  ASSUME FencingInv, FencingInv', LedgerInv, NEW w \in Workers, Sign(w)
  PROVE  LedgerInv'
<1> DEFINE r == Committed(rows[cur[w]], "signed")
           row == [r EXCEPT !.signed = op(w).txid]
<1>1. /\ pc[w] # "idle" /\ Write(w, row) /\ writeAhead' = writeAhead
      /\ op(w).txid # NoTx /\ op(w).state = "signing"
  BY DEF Sign, RowOf, WriteAndReturn, Unlogged, FencingInv, Control, ControlOf
<1>2. /\ cur[w] \in Ops /\ op(w) = rows[cur[w]] /\ r \in Rows /\ r.state = "signed"
      /\ r.txid = op(w).txid /\ op(w).signed = NoTx
  BY <1>1, Busy, HitIsFresh, CommittedRow, SMT DEF Write, OpState, RowGood
<1> HIDE DEF r
<1>3. row.state = "signed" /\ row.txid = op(w).txid /\ row.signed = op(w).txid
  BY <1>2 DEF Rows
<1> HIDE DEF row
<1>4. VerdictBacked(row)
  BY <1>3 DEF VerdictBacked
<1>5. \A p \in Ops \ {cur[w]} : row.txid = rows[p].txid => row.txid = NoTx
  BY <1>2, <1>3 DEF LedgerInv, TxidsUnique
<1>6. ASSUME NEW p \in Ops, op(w).txid \in writeAhead[p] PROVE Dead(op(w).txid)
  <2>1. CASE op(w).txid # rows[p].signed
    BY <1>6, <2>1 DEF LedgerInv, RetiredStaysDead
  <2>2. CASE op(w).txid = rows[p].signed
    <3>1. p # cur[w]
      BY <1>1, <1>2, <2>2
    <3>2. rows[p].signed = rows[p].txid
      BY <1>1, <2>2 DEF FencingInv, Coherent, RowGood
    <3>3. QED
      BY <1>1, <1>2, <2>2, <3>1, <3>2 DEF LedgerInv, TxidsUnique
  <2>3. QED
    BY <2>1, <2>2
<1>7. NoTx \notin writeAhead[cur[w]]
  BY <1>2, StoreAssumption DEF FencingInv, TypeOK
<1>8. QED
  BY <1>1, <1>2, <1>3, <1>4, <1>5, <1>6, <1>7, WriteKeepsLedger

-----------------------------------------------------------------------------
(*                        The worker that takes the step                   *)

(* The steps of a worker that write a row, Send apart. *)
LEMMA WritesKeepLedger ==
  ASSUME SafeTiming, DistinctTxids, FencingInv, FencingInv', MoneyInv,
         NEW w \in Workers, WorkerStep(w), ~QuietStep(w), ~Send(w)
  PROVE  LedgerInv' /\ UNCHANGED <<now, nodeVars>>
<1>0. LedgerInv /\ AnswerBacked(w)
  BY DEF MoneyInv
<1>1. ASSUME NEW row, Write(w, row) PROVE UNCHANGED <<now, nodeVars>>
  BY <1>1 DEF Write
<1>2. CASE Validate(w)
  <2>1. PICK to \in {"validated", "rejected"} : WriteAndReturn(w, Committed(rows[cur[w]], to))
    BY <1>2 DEF Validate, RowOf
  <2>2. QED
    BY <1>0, <1>1, <1>2, <2>1, AdvanceKeepsLedger DEF Validate, AtStep, WriteAndReturn, Unlogged, OpState
<1>3. CASE BeginSigning(w)
  BY <1>0, <1>1, <1>3, AdvanceKeepsLedger DEF BeginSigning, AtStep, RowOf, Unlogged, OpState
<1>4. CASE GiveUp(w)
  <2>1. pc[w] # "idle" /\ op(w).state = "signing"
    BY <1>4 DEF GiveUp, AtBuild, AtStep, FencingInv, Control, ControlOf
  <2>2. op(w).signed = NoTx
    BY <2>1, Busy DEF RowGood
  <2>3. QED
    BY <1>0, <1>1, <1>4, <2>1, <2>2, AdvanceKeepsLedger DEF GiveUp, RowOf, WriteAndReturn, Unlogged, OpState
<1>5. CASE PersistEnvelope(w)
  BY <1>0, <1>1, <1>5, PersistKeepsLedger DEF PersistEnvelope
<1>6. CASE Sign(w)
  BY <1>0, <1>1, <1>6, SignKeepsLedger DEF Sign, WriteAndReturn
<1>7. CASE RebuildUnsent(w)
  <2>1. pc[w] # "idle" /\ op(w).state = "signed" /\ Rebuild(w) /\ CasHit(w)
    BY <1>7 DEF RebuildUnsent, AtStep, Rebuild, WriteAndReturn, Write
  <2>2. op(w).signed \in writeAhead[cur[w]] => Dead(op(w).signed)
    BY <1>0, <2>1, HitIsFresh, Busy, SMT DEF LedgerInv, SignedFresh
  <2>3. QED
    BY <1>0, <1>1, <2>1, <2>2, RebuildKeepsLedger DEF Rebuild, WriteAndReturn
<1>8. CASE WriteAhead(w)
  BY <1>0, <1>1, <1>8, AdvanceKeepsLedger DEF WriteAhead, RowOf, OpState, FencingInv, Control, ControlOf
<1>9. CASE Settle(w)
  <2>1. /\ pc[w] = "settle" /\ answer[w] \notin RETRY_SAME_BYTES
        /\ WriteAndReturn(w, Committed(rows[cur[w]], Verdict(answer[w])))
    BY <1>9 DEF Settle, RowOf, QuietStep
  <2>2. /\ Verdict(answer[w]) \in {"broadcast", "failed", "broadcasting"}
        /\ Verdict(answer[w]) = "failed" => answer[w] \in HARD_REJECT
    BY DEF Verdict
  <2>3. Verdict(answer[w]) = "failed" => ~Verifies(op(w).signed)
    BY <1>0, <2>1, <2>2 DEF AnswerBacked
  <2>4. QED
    BY <1>0, <1>1, <2>1, <2>2, <2>3, AdvanceKeepsLedger DEF WriteAndReturn, Unlogged, OpState
<1>10. CASE MarkBroadcast(w)
  BY <1>0, <1>1, <1>10, AdvanceKeepsLedger DEF MarkBroadcast, RowOf, WriteAndReturn, Unlogged, OpState
<1>11. CASE Confirm(w)
  <2> DEFINE to == IF answer[w] = "SUCCESS" THEN "confirmed" ELSE "failed"
  <2>1. /\ pc[w] = "confirm" /\ WriteAndReturn(w, Committed(rows[cur[w]], to))
    BY ZenonT(30), <1>11 DEF Confirm, RowOf
  <2>2. /\ Landed(op(w).signed) /\ IsSolid(op(w).signed)
        /\ txs[op(w).signed].receipt = answer[w] /\ answer[w] \in Receipts
    BY <1>0, <2>1 DEF AnswerBacked, Landed, FencingInv, ChainRules
  <2>3. /\ to \in {"confirmed", "failed"}
        /\ to = "confirmed" => answer[w] = "SUCCESS"
        /\ to = "failed" => answer[w] = "REVERTED"
    BY <2>2 DEF Receipts
  <2> HIDE DEF to
  <2>4. QED
    BY <1>0, <1>1, <2>1, <2>2, <2>3, AdvanceKeepsLedger DEF WriteAndReturn, Unlogged, OpState
<1>12. CASE RebuildDead(w)
  <2>1. pc[w] # "idle" /\ Rebuild(w) /\ Dead(op(w).signed)
    BY <1>0, <1>12, ProofOfDeath DEF RebuildDead
  <2>2. QED
    BY <1>0, <1>1, <2>1, RebuildKeepsLedger DEF Rebuild, WriteAndReturn
<1>13. QED
  BY <1>2, <1>3, <1>4, <1>5, <1>6, <1>7, <1>8, <1>9, <1>10, <1>11, <1>12 DEF WorkerStep, QuietStep

(* After a step other than Send a worker's answers are backed. *)
LEMMA OwnAnswerBacked ==
  ASSUME FencingInv, NEW w \in Workers, WorkerStep(w) \/ Crash(w), ~Send(w)
  PROVE  AnswerBacked(w)'
<1>1. pc \in [Workers -> Labels] /\ NodeTypeOK
  BY DEF FencingInv, TypeOK
<1>2. ASSUME NEW label, Goto(w, label), label \notin {"proof", "settle", "confirm"}
      PROVE  AnswerBacked(w)'
  BY <1>1, <1>2 DEF Goto, AnswerBacked
<1>3. ASSUME NEW to, StepReturned(w, to) PROVE AnswerBacked(w)'
  BY <1>2, <1>3 DEF StepReturned, NextOp
<1>4. CASE \/ Validate(w) \/ GiveUp(w) \/ Sign(w) \/ RebuildUnsent(w) \/ MarkBroadcast(w)
           \/ Confirm(w) \/ RebuildDead(w)
  BY <1>3, <1>4 DEF Validate, GiveUp, Sign, RebuildUnsent, MarkBroadcast, Confirm, RebuildDead,
     Rebuild, WriteAndReturn
<1>5. CASE Settle(w) \/ QueryTimeout(w) \/ AwaitSolidity(w) \/ NotDead(w)
  BY <1>2, <1>3, <1>5 DEF Settle, QueryTimeout, AwaitSolidity, NotDead, Park, WriteAndReturn
<1>6. CASE \/ Claim(w) \/ BeginSigning(w) \/ BuildEnvelope(w) \/ PersistEnvelope(w)
           \/ HandlerError(w) \/ CheckExpiry(w) \/ WriteAhead(w) \/ LookupFound(w)
           \/ LostClaim(w) \/ Release(w) \/ Crash(w)
  BY <1>2, <1>6 DEF Claim, BeginSigning, BuildEnvelope, PersistEnvelope, HandlerError,
     CheckExpiry, WriteAhead, LookupFound, LostClaim, Release, Crash, NextOp
<1>7. CASE LookupSolid(w)
  <2>1. /\ pc'[w] = "confirm" /\ snap' = snap /\ cur' = cur /\ txs' = txs /\ head' = head
        /\ answer'[w] = txs[op(w).signed].receipt
    BY <1>1, <1>7 DEF LookupSolid, Goto, driveVars, nodeVars, FencingInv, TypeOK
  <2>2. Landed(op(w).signed) /\ IsSolid(op(w).signed)
    BY <1>7 DEF LookupSolid, find_tx
  <2>3. QED
    BY <2>1, <2>2 DEF AnswerBacked, op, Landed, IsSolid, solid_block
<1>8. CASE LookupUnknown(w)
  <2>1. /\ pc'[w] = "proof" /\ snap' = snap /\ cur' = cur /\ seen'[w] = blockTime[head]
        /\ txs' = txs /\ blockTime' = blockTime /\ head' = head
    BY <1>1, <1>8, ZenonT(30) DEF LookupUnknown, Goto, driveVars, nodeVars, FencingInv, TypeOK
  <2>2. ~Landed(op(w).signed)
    BY <1>8 DEF LookupUnknown, find_tx
  <2>3. blockTime[head] \in Nat /\ MaxStall \in Nat
    BY <1>1, SluiceAssumption, SMTT(30) DEF NodeTypeOK
  <2>4. ~Landed(op(w).signed)'
    BY <2>1, <2>2 DEF op, Landed
  <2>5. seen'[w] <= blockTime'[head'] /\ blockTime'[head'] <= seen'[w] + MaxStall
    BY <2>1, <2>3, SMT
  <2>6. QED
    BY ZenonT(30), <2>1, <2>4, <2>5 DEF AnswerBacked
<1>9. QED
  BY <1>4, <1>5, <1>6, <1>7, <1>8 DEF WorkerStep

(* The envelope a worker asks the node about. *)
LEMMA AskedEnvelope ==
  ASSUME FencingInv, NEW v \in Workers, pc[v] \in {"proof", "confirm"}
  PROVE  op(v).signed \in Txids
BY SignedEnvelope DEF FencingInv, Control, ControlOf

(* The answers of the workers that do not move stay backed while the node  *)
(* moves on, if it does not move too far from a lookup.                    *)
LEMMA AnswerStays ==
  ASSUME FencingInv, NodeMonotone, NEW v \in Workers, AnswerBacked(v),
         pc'[v] = pc[v], cur'[v] = cur[v], snap'[v] = snap[v],
         answer'[v] = answer[v], seen'[v] = seen[v],
         pc[v] = "proof" =>
           /\ seen[v] <= blockTime'[head'] /\ blockTime'[head'] <= seen[v] + MaxStall
           /\ \A t \in Txids : Landed(t)' =>
                IF Landed(t) THEN blockTime'[txs'[t].block] = blockTime[txs[t].block]
                             ELSE seen[v] < blockTime'[txs'[t].block]
  PROVE  AnswerBacked(v)'
<1>1. CASE pc[v] = "proof"
  <2>1. PICK t \in Txids : t = op(v).signed
    BY ZenonT(30), <1>1, AskedEnvelope
  <2>2. snap'[v][cur'[v]].signed = t /\ snap[v][cur[v]].signed = t
    BY <2>1 DEF op
  <2>3. Landed(t)' => seen[v] < blockTime'[txs'[t].block]
    BY ZenonT(30), <1>1, <2>1 DEF AnswerBacked
  <2>4. QED
    BY <1>1, <2>2, <2>3 DEF AnswerBacked, op, Landed
<1>2. CASE pc[v] = "confirm"
  <2>1. PICK t \in Txids : t = op(v).signed
    BY ZenonT(30), <1>2, AskedEnvelope
  <2>2. snap'[v][cur'[v]].signed = t /\ snap[v][cur[v]].signed = t
    BY <2>1 DEF op
  <2>3. Landed(t)' /\ IsSolid(t)' /\ txs'[t] = txs[t] /\ txs[t].receipt = answer[v]
    BY ZenonT(30), <1>2, <2>1 DEF AnswerBacked, NodeMonotone
  <2>4. QED
    BY <1>2, <2>2, <2>3 DEF AnswerBacked, op, Landed, IsSolid
<1>3. CASE pc[v] \notin {"proof", "confirm"}
  <2>1. snap'[v][cur'[v]].signed = snap[v][cur[v]].signed
    OBVIOUS
  <2>2. QED
    BY <1>3, <2>1 DEF AnswerBacked, op
<1>4. QED
  BY ZenonT(30), <1>1, <1>2, <1>3

(* Node at rest: nothing changes for a worker that does not move. *)
LEMMA AnswerAtRest ==
  ASSUME FencingInv, UNCHANGED <<now, nodeVars>>, NEW v \in Workers, AnswerBacked(v),
         pc'[v] = pc[v], cur'[v] = cur[v], snap'[v] = snap[v],
         answer'[v] = answer[v], seen'[v] = seen[v]
  PROVE  AnswerBacked(v)'
BY DEF AnswerBacked, op, Landed, IsSolid, solid_block, nodeVars

(* node.broadcast: only what is written ahead enters the node, and a hard  *)
(* reject comes from a node that trusts another key.                       *)
LEMMA SendKeepsMoney ==
  ASSUME FencingInv, MoneyInv, NEW w \in Workers, Send(w)
  PROVE  MoneyInv'
<1>1. /\ pc[w] = "send" /\ rows' = rows /\ writeAhead' = writeAhead /\ snap' = snap
  BY DEF Send, storeVars
<1>2. PICK code \in BroadcastCode \cup {NodeTimeout} :
        /\ broadcast(op(w).signed, code)
        /\ IF code = NodeTimeout
             THEN StepReturned(w, op(w).state) /\ UNCHANGED answer
             ELSE /\ answer' = [answer EXCEPT ![w] = code]
                  /\ Goto(w, "settle") /\ UNCHANGED driveVars
  BY DEF Send
<1>3. /\ op(w).signed \in Txids /\ op(w).signed \in writeAhead[cur[w]] /\ cur[w] \in Ops
  BY <1>1, SignedEnvelope, Busy DEF FencingInv, Control, ControlOf
<1>4. /\ \A u \in Txids : Dead(u) => Dead(u)'
      /\ \A u \in Txids : Landed(u)' <=> Landed(u)
      /\ \A u \in DOMAIN txs : txs'[u] = txs[u]
      /\ DOMAIN txs' \subseteq DOMAIN txs \cup {op(w).signed}
      /\ code \in HARD_REJECT => ~Verifies(op(w).signed)
      /\ head' = head /\ blockTime' = blockTime
  BY <1>2, <1>3, BroadcastKeepsNode DEF FencingInv, TypeOK
<1>5. NodeMonotone
  <2>1. \A u \in Txids : Landed(u) => u \in DOMAIN txs
    BY DEF Landed
  <2>2. \A u \in Txids : Landed(u) /\ IsSolid(u) => IsSolid(u)'
    BY <1>4, <2>1 DEF IsSolid, solid_block
  <2>3. QED
    BY <1>4, <2>1, <2>2 DEF NodeMonotone
<1>6. SentWasLogged'
  BY <1>1, <1>3, <1>4 DEF MoneyInv, LedgerInv, SentWasLogged
<1>7. LedgerInv'
  BY <1>1, <1>5, <1>6, QuietKeepsLedger DEF RowsStill, MoneyInv
<1>8. ASSUME NEW v \in Workers \ {w} PROVE AnswerBacked(v)'
  <2>1. /\ pc'[v] = pc[v] /\ cur'[v] = cur[v] /\ snap'[v] = snap[v]
        /\ answer'[v] = answer[v] /\ seen'[v] = seen[v]
    BY StepUndisturbed DEF WorkerStep, Undisturbed
  <2>2. \A t \in Txids : Landed(t)' => Landed(t) /\ blockTime'[txs'[t].block] = blockTime[txs[t].block]
    BY <1>4 DEF Landed
  <2>3. QED
    BY <1>4, <1>5, <2>1, <2>2, AnswerStays DEF MoneyInv, AnswerBacked
<1>9. AnswerBacked(w)'
  <2>1. pc \in [Workers -> Labels] /\ answer \in [Workers -> BroadcastCode \cup Receipts \cup {NoAnswer}]
    BY DEF FencingInv, TypeOK
  <2>2. CASE code = NodeTimeout
    <3>1. pc'[w] \in {"idle", "step", "release"}
      BY <1>2, <2>1, <2>2 DEF StepReturned, NextOp, Goto
    <3>2. QED
      BY <3>1 DEF AnswerBacked
  <2>3. CASE code # NodeTimeout
    <3>1. pc'[w] = "settle" /\ answer'[w] = code /\ cur' = cur
      BY <1>2, <2>1, <2>3 DEF Goto, driveVars
    <3>2. snap'[w][cur'[w]].signed = op(w).signed
      BY <1>1, <3>1 DEF op
    <3>3. QED
      BY <1>4, <3>1, <3>2 DEF AnswerBacked, op
  <2>4. QED
    BY <2>2, <2>3
<1>10. QED
  BY <1>7, <1>8, <1>9 DEF MoneyInv

-----------------------------------------------------------------------------
(*                              The theorems                               *)

(* A worker's step keeps the money invariant. *)
LEMMA WorkerKeepsMoney ==
  ASSUME SafeTiming, DistinctTxids, FencingInv, FencingInv', MoneyInv,
         NEW w \in Workers, WorkerStep(w) \/ Crash(w)
  PROVE  MoneyInv'
<1>1. CASE Send(w)
  BY <1>1, SendKeepsMoney
<1>2. CASE ~Send(w)
  <2>1. LedgerInv' /\ UNCHANGED <<now, nodeVars>>
    <3>1. CASE QuietStep(w)
      <4>1. RowsStill /\ writeAhead' = writeAhead /\ UNCHANGED <<now, nodeVars>>
        BY <3>1, QuietRows
      <4>2. NodeMonotone /\ txs' = txs
        BY <4>1, RestMonotone
      <4>3. SentWasLogged'
        BY <4>1, <4>2 DEF MoneyInv, LedgerInv, SentWasLogged
      <4>4. QED
        BY <4>1, <4>2, <4>3, QuietKeepsLedger DEF MoneyInv
    <3>2. CASE ~QuietStep(w)
      BY <1>2, <3>2, WritesKeepLedger DEF QuietStep
    <3>3. QED
      BY <3>1, <3>2
  <2>2. AnswerBacked(w)'
    BY <1>2, OwnAnswerBacked
  <2>3. ASSUME NEW v \in Workers \ {w} PROVE AnswerBacked(v)'
    <3>1. /\ pc'[v] = pc[v] /\ cur'[v] = cur[v] /\ snap'[v] = snap[v]
          /\ answer'[v] = answer[v] /\ seen'[v] = seen[v]
      BY StepUndisturbed DEF Undisturbed
    <3>2. QED
      BY <2>1, <3>1, AnswerAtRest DEF MoneyInv
  <2>4. QED
    BY <2>1, <2>2, <2>3 DEF MoneyInv
<1>3. QED
  BY <1>1, <1>2

(* Intake adds a row without an envelope. *)
LEMMA SubmitKeepsMoney ==
  ASSUME FencingInv, MoneyInv, NEW o \in Ops, Submit(o)
  PROVE  MoneyInv'
<1> DEFINE r == [rows[o] EXCEPT !.state = "requested"]
<1>1. /\ rows' = [rows EXCEPT ![o] = r] /\ rows[o] \in Rows /\ rows \in [Ops -> Rows]
      /\ writeAhead' = writeAhead /\ UNCHANGED <<now, nodeVars, workerVars>>
  BY DEF Submit, insert_new, FencingInv, TypeOK
<1>2. r.state = "requested" /\ r.txid = rows[o].txid /\ r.signed = rows[o].signed
  BY <1>1 DEF Rows
<1> HIDE DEF r
<1>3. /\ \A p \in Ops : rows'[p].txid = rows[p].txid /\ rows'[p].signed = rows[p].signed
      /\ rows'[o].state = "requested" /\ \A p \in Ops \ {o} : rows'[p].state = rows[p].state
  BY <1>1, <1>2
<1>4. txs' = txs /\ now' = now /\ head' = head /\ blockTime' = blockTime
  BY <1>1 DEF nodeVars
<1>5. TxidsUnique' /\ SentWasLogged'
  BY <1>1, <1>3, <1>4, SMT DEF MoneyInv, LedgerInv, TxidsUnique, SentWasLogged
<1>6. RetiredStaysDead' /\ SignedFresh'
  BY ZenonT(30), <1>1, <1>3, <1>4
     DEF MoneyInv, LedgerInv, RetiredStaysDead, SignedFresh, Dead, Landed
<1>7. \A p \in Ops : VerdictBacked(rows[p])'
  BY <1>3, <1>4 DEF MoneyInv, LedgerInv, VerdictBacked, Landed, IsSolid, solid_block
<1>8. \A v \in Workers : AnswerBacked(v)'
  BY <1>1, AnswerAtRest DEF MoneyInv, workerVars, driveVars, localVars
<1>9. QED
  BY <1>5, <1>6, <1>7, <1>8 DEF MoneyInv, LedgerInv

(* The clock and the chain. *)
LEMMA ChainKeepsMoney ==
  ASSUME FencingInv, MoneyInv, ClockTick \/ MineBlock
  PROVE  MoneyInv'
<1>1. /\ UNCHANGED <<storeVars, workerVars>> /\ NodeTypeOK /\ ChainRules
      /\ rows' = rows /\ writeAhead' = writeAhead
  BY DEF ClockTick, MineBlock, FencingInv, TypeOK, storeVars
<1>2. \A v \in Workers : /\ pc'[v] = pc[v] /\ cur'[v] = cur[v] /\ snap'[v] = snap[v]
                         /\ answer'[v] = answer[v] /\ seen'[v] = seen[v]
  BY <1>1 DEF workerVars, driveVars, localVars
<1>3. CASE ClockTick
  <2>1. NodeMonotone /\ txs' = txs /\ blockTime' = blockTime /\ head' = head
    BY <1>1, <1>3, TickKeepsNode DEF ClockTick, Tick, nodeVars, NodeMonotone, IsSolid, solid_block
  <2>2. LedgerInv'
    BY <1>1, <2>1, QuietKeepsLedger DEF MoneyInv, LedgerInv, SentWasLogged, RowsStill
  <2>3. ASSUME NEW v \in Workers PROVE AnswerBacked(v)'
    <3>1. AnswerBacked(v) /\ txs' = txs /\ blockTime' = blockTime /\ head' = head
      BY <2>1 DEF MoneyInv
    <3>2. QED
      BY <1>2, <3>1 DEF AnswerBacked, op, Landed, IsSolid, solid_block
  <2>4. QED
    BY <2>2, <2>3 DEF MoneyInv
<1>4. CASE MineBlock
  <2>1. /\ blockTime'[head'] = NextBlockTime
        /\ \A t \in Txids : Dead(t) => Dead(t)'
        /\ DOMAIN txs' = DOMAIN txs
        /\ \A t \in DOMAIN txs : Landed(t) =>
             txs'[t] = txs[t] /\ blockTime'[txs'[t].block] = blockTime[txs[t].block]
        /\ \A t \in DOMAIN txs : Landed(t)' /\ ~Landed(t) =>
             blockTime'[txs'[t].block] = NextBlockTime
    BY <1>1, <1>4, BlockKeepsNode DEF MineBlock
  <2>2. NextBlockTime \in Nat /\ NextBlockTime > blockTime[head] /\ blockTime[head] \in Nat
    BY <1>1, NextBlockTimeRises, SMT DEF NodeTypeOK
  <2>3. NodeMonotone
    <3>1. head \in Nat /\ head' = head + 1 /\ SolidityLag \in Nat
      BY <1>1, <1>4, NodeAssumption DEF MineBlock, produce_block, NodeTypeOK
    <3>2. \A t \in DOMAIN txs : txs[t].block \in Nat
      BY <1>1 DEF NodeTypeOK, TxRecords
    <3>3. \A t \in Txids : Landed(t) /\ IsSolid(t) => IsSolid(t)'
      BY <2>1, <3>1, <3>2, SMTT(30) DEF Landed, IsSolid, solid_block
    <3>4. QED
      BY <2>1, <3>3 DEF NodeMonotone, Landed
  <2>4. LedgerInv'
    BY <1>1, <2>1, <2>3, QuietKeepsLedger DEF MoneyInv, LedgerInv, SentWasLogged, RowsStill
  <2>5. ASSUME NEW v \in Workers PROVE AnswerBacked(v)'
    <3>1. ASSUME pc[v] = "proof"
          PROVE  /\ seen[v] <= blockTime'[head'] /\ blockTime'[head'] <= seen[v] + MaxStall
                 /\ seen[v] < NextBlockTime
      <4>1. NextBlockTime <= seen[v] + MaxStall
        BY <1>4, <3>1 DEF MineBlock, PromptProofs
      <4>2. seen[v] <= blockTime[head] /\ seen[v] \in Nat
        BY <3>1 DEF MoneyInv, AnswerBacked, FencingInv, TypeOK
      <4> HIDE DEF NextBlockTime
      <4>3. QED
        <5>1. blockTime'[head'] = NextBlockTime
          BY <2>1
        <5>2. MaxStall \in Nat
          BY SluiceAssumption
        <5>3. QED
          BY <2>2, <4>1, <4>2, <5>1, <5>2, SMT
    <3>2. ASSUME pc[v] = "proof", NEW t \in Txids, Landed(t)'
          PROVE  IF Landed(t) THEN blockTime'[txs'[t].block] = blockTime[txs[t].block]
                              ELSE seen[v] < blockTime'[txs'[t].block]
      <4>1. t \in DOMAIN txs
        BY <2>1, <3>2 DEF Landed
      <4>2. QED
        BY <2>1, <3>1, <3>2, <4>1
    <3>3. QED
      BY <1>2, <2>3, <3>1, <3>2, AnswerStays, SMT DEF MoneyInv
  <2>6. QED
    BY <2>4, <2>5 DEF MoneyInv
<1>5. QED
  BY <1>3, <1>4

(* The money invariant is kept by every step. *)
LEMMA MoneyStep ==
  ASSUME SafeTiming, DistinctTxids, FencingInv, MoneyInv, [SluiceNext]_vars
  PROVE  MoneyInv'
<1>1. FencingInv'
  BY FencingStep
<1>2. CASE UNCHANGED vars
  <2>1. /\ UNCHANGED <<now, nodeVars>> /\ rows' = rows /\ writeAhead' = writeAhead
        /\ UNCHANGED workerVars
    BY <1>2 DEF vars, storeVars
  <2>2. LedgerInv'
    BY <2>1, RestMonotone, QuietKeepsLedger DEF MoneyInv, LedgerInv, SentWasLogged, RowsStill
  <2>3. \A v \in Workers : AnswerBacked(v)'
    BY <2>1, AnswerAtRest DEF MoneyInv, workerVars, driveVars, localVars
  <2>4. QED
    BY <2>2, <2>3 DEF MoneyInv
<1>3. QED
  BY <1>1, <1>2, WorkerKeepsMoney, SubmitKeepsMoney, ChainKeepsMoney DEF SluiceNext

(* It holds before the first withdrawal. *)
LEMMA MoneyInit == SluiceInit => MoneyInv
<1> SUFFICES ASSUME SluiceInit PROVE MoneyInv
  OBVIOUS
<1>1. NoRow.state = "absent" /\ NoRow.txid = NoTx /\ NoRow.signed = NoTx
  BY DEF NoRow
<1> HIDE DEF NoRow
<1>2. /\ \A o \in Ops : rows[o] = NoRow /\ writeAhead[o] = {}
      /\ \A w \in Workers : pc[w] = "idle"
      /\ DOMAIN txs = {}
  BY DEF SluiceInit, StoreInit, NodeInit
<1>3. QED
  BY <1>1, <1>2 DEF MoneyInv, LedgerInv, TxidsUnique, SentWasLogged, RetiredStaysDead,
     SignedFresh, VerdictBacked, AnswerBacked

(* What FencingInv and MoneyInv say together, in the terms of the runs. *)
LEMMA MoneyMeans ==
  ASSUME FencingInv, MoneyInv
  PROVE  /\ AtMostOneLanded /\ VerdictMatchesChain /\ RetiredStaysDead
         /\ NoOrphanSends /\ SignedNeverSent /\ OneTransferEach /\ VerdictIsFinal
<1>1. RetiredStaysDead /\ TxidsUnique /\ SentWasLogged /\ SignedFresh
  BY DEF MoneyInv, LedgerInv
<1>2. AtMostOneLanded
  BY ZenonT(30), <1>1 DEF RetiredStaysDead, AtMostOneLanded, Dead
<1>3. NoOrphanSends
  <2>1. ASSUME NEW w \in Workers, pc[w] = "send" PROVE op(w).signed \in writeAhead[cur[w]]
    BY <2>1, SignedEnvelope DEF FencingInv, Control, ControlOf
  <2>2. QED
    BY <1>1, <2>1 DEF NoOrphanSends, SentWasLogged
<1>4. SignedNeverSent
  BY <1>1 DEF SignedNeverSent, SignedFresh, SentWasLogged
<1>5. VerdictMatchesChain
  <2>1. ASSUME NEW o \in Ops, rows[o].state = "confirmed" PROVE Paid(rows[o].txid)
    <3>1. rows[o].signed = rows[o].txid
      BY <2>1 DEF FencingInv, Coherent, RowGood
    <3>2. QED
      BY <2>1, <3>1 DEF MoneyInv, LedgerInv, VerdictBacked, Paid
  <2>2. ASSUME NEW o \in Ops, rows[o].state \in {"failed", "rejected"},
               NEW t \in writeAhead[o], Paid(t)
        PROVE  FALSE
    <3>1. Landed(t) /\ txs[t].receipt = "SUCCESS" /\ t \in Txids
      BY <2>2 DEF Paid, FencingInv, TypeOK
    <3>2. t = rows[o].signed /\ rows[o].signed # NoTx
      BY <1>1, <2>2, <3>1, StoreAssumption DEF RetiredStaysDead, Dead
    <3>3. Verifies(t)
      BY <3>1 DEF Landed, FencingInv, ChainRules
    <3>4. rows[o].state = "failed"
      BY <2>2, <3>2, SMTT(30) DEF FencingInv, Coherent, RowGood
    <3>5. QED
      BY <3>1, <3>2, <3>3, <3>4 DEF MoneyInv, LedgerInv, VerdictBacked
  <2>3. QED
    BY <2>1, <2>2 DEF VerdictMatchesChain
<1>6. VerdictIsFinal
  <2>1. ASSUME NEW o \in Ops, rows[o].state \in {"confirmed", "failed"},
               NEW t \in writeAhead[o], Landed(t)
        PROVE  IsSolid(t)
    <3>1. t \in Txids /\ t = rows[o].signed /\ rows[o].signed # NoTx
      BY <1>1, <2>1, StoreAssumption, SMTT(30) DEF RetiredStaysDead, Dead, FencingInv, TypeOK
    <3>2. Verifies(t)
      BY <2>1 DEF Landed, FencingInv, ChainRules
    <3>3. QED
      BY <2>1, <3>1, <3>2, SMTT(30) DEF MoneyInv, LedgerInv, VerdictBacked
  <2>2. QED
    BY <2>1 DEF VerdictIsFinal, IsSolid, solid_block
<1>7. OneTransferEach
  <2>1. ASSUME NEW o \in Ops, NEW t \in writeAhead[o], Landed(t)
        PROVE  t = rows[o].txid /\ t # NoTx
    <3>1. t \in Txids /\ t = rows[o].signed /\ t # NoTx
      BY <1>1, <2>1, StoreAssumption, SMTT(30) DEF RetiredStaysDead, Dead, FencingInv, TypeOK
    <3>2. QED
      BY <3>1 DEF FencingInv, Coherent, RowGood
  <2>2. ASSUME NEW o \in Ops, NEW p \in Ops, o # p,
               NEW t \in writeAhead[o] \cap writeAhead[p], Landed(t)
        PROVE  FALSE
    <3>1. rows[o].txid = t /\ rows[p].txid = t /\ t # NoTx
      BY <2>1, <2>2
    <3>2. QED
      BY <1>1, <2>2, <3>1 DEF TxidsUnique
  <2>3. QED
    BY <2>2 DEF OneTransferEach
<1>8. QED
  BY <1>1, <1>2, <1>3, <1>4, <1>5, <1>6, <1>7

(* Both invariants hold in every reachable state. *)
THEOREM SpecMoney ==
  ASSUME SafeTiming, DistinctTxids
  PROVE  Spec => [](FencingInv /\ MoneyInv)
<1>1. SluiceInit => FencingInv /\ MoneyInv
  BY FencingInit, MoneyInit
<1>2. FencingInv /\ MoneyInv /\ [SluiceNext]_vars => (FencingInv /\ MoneyInv)'
  BY FencingStep, MoneyStep
<1>3. QED
  BY <1>1, <1>2, PTL DEF Spec

(* The money moves at most once, whatever crashes, stalls, lost answers,   *)
(* re-sends and rebuilds happen (_proof_of_death and _rebuild).            *)
THEOREM SpecAtMostOneLanded ==
  ASSUME SafeTiming, DistinctTxids
  PROVE  Spec => []AtMostOneLanded
BY SpecMoney, MoneyMeans, PTL

(* A confirmed operation is paid, a failed or rejected one never is.       *)
THEOREM SpecVerdictMatchesChain ==
  ASSUME SafeTiming, DistinctTxids
  PROVE  Spec => []VerdictMatchesChain
BY SpecMoney, MoneyMeans, PTL

(* A verdict is read from a solid block only (_await_confirmation).        *)
THEOREM SpecVerdictIsFinal ==
  ASSUME SafeTiming, DistinctTxids
  PROVE  Spec => []VerdictIsFinal
BY SpecMoney, MoneyMeans, PTL

(* An envelope that may have been sent is given up only when it is dead    *)
(* (_rebuild), so it stays out of every later block.                       *)
THEOREM SpecRetiredStaysDead ==
  ASSUME SafeTiming, DistinctTxids
  PROVE  Spec => []RetiredStaysDead
BY SpecMoney, MoneyMeans, PTL

(* The node never holds a transaction the log does not hold as a           *)
(* write-ahead (_broadcast).                                               *)
THEOREM SpecNoOrphanSends ==
  ASSUME SafeTiming, DistinctTxids
  PROVE  Spec => []NoOrphanSends
BY SpecMoney, MoneyMeans, PTL

(* A signed envelope has never been broadcast or can never land, which is  *)
(* what lets _broadcast retire it on the wall clock alone.                 *)
THEOREM SpecSignedNeverSent ==
  ASSUME SafeTiming, DistinctTxids
  PROVE  Spec => []SignedNeverSent
BY SpecMoney, MoneyMeans, PTL

(* A transfer on the chain pays for one operation only: an operation's     *)
(* transaction that landed is its row's current one (what was retired is   *)
(* dead), and no two rows carry the same (the unique index on txid, or     *)
(* distinct payments).                                                     *)
THEOREM SpecOneTransferEach ==
  ASSUME SafeTiming, DistinctTxids
  PROVE  Spec => []OneTransferEach
BY SpecMoney, MoneyMeans, PTL

-----------------------------------------------------------------------------
(*                      What the abstract state satisfies                  *)

(* At most one transfer per operation, none shared, none for an operation  *)
(* that is not there or was refused, one for each that is confirmed.       *)
Truthful ==
  /\ \A o \in Ops : \A t, u \in PaidFor[o] : t = u
  /\ \A o, p \in Ops : o # p => PaidFor[o] \cap PaidFor[p] = {}
  /\ \A o \in Ops : /\ PayStatus[o] \in {"none", "refused"} => PaidFor[o] = {}
                    /\ PayStatus[o] = "confirmed" => PaidFor[o] # {}
                    /\ PayStatus[o] \in {"none", "open", "confirmed", "refused"}

(* A transfer an operation accounts for is its row's current envelope. *)
LEMMA PaidIsCurrent ==
  ASSUME FencingInv, MoneyInv, NEW o \in Ops, NEW t \in writeAhead[o], Paid(t)
  PROVE  /\ t = rows[o].signed /\ t = rows[o].txid /\ t # NoTx
         /\ rows[o].state \notin {"absent", "failed", "rejected"}
<1>1. t \in Txids /\ Landed(t)
  BY DEF Paid, FencingInv, TypeOK
<1>2. t = rows[o].signed /\ t # NoTx
  BY <1>1, StoreAssumption, SMT DEF MoneyInv, LedgerInv, RetiredStaysDead, Dead
<1>3. rows[o].signed = rows[o].txid /\ rows[o].state # "absent"
  BY <1>2 DEF FencingInv, Coherent, RowGood
<1>4. rows[o].state \notin {"failed", "rejected"}
  BY MoneyMeans DEF VerdictMatchesChain
<1>5. QED
  BY <1>2, <1>3, <1>4

(* The invariants of Sluice, read abstractly. *)
LEMMA InvTruthful ==
  ASSUME FencingInv, MoneyInv
  PROVE  Truthful
<1>1. \A o \in Ops : PaidFor[o] = {t \in writeAhead[o] : Paid(t)}
  BY DEF PaidFor
<1>2. \A o \in Ops : PayStatus[o] = StatusOf(rows[o].state)
  BY DEF PayStatus
<1>3. \A o \in Ops : \A t, u \in PaidFor[o] : t = u
  BY <1>1, PaidIsCurrent, SMT
<1>4. ASSUME NEW o \in Ops, NEW p \in Ops, NEW t \in PaidFor[o], t \in PaidFor[p] PROVE o = p
  <2>1. t = rows[o].txid /\ t = rows[p].txid /\ t # NoTx
    BY <1>1, <1>4, PaidIsCurrent
  <2>2. QED
    BY <2>1 DEF MoneyInv, LedgerInv, TxidsUnique
<1>5. ASSUME NEW o \in Ops
      PROVE  /\ PayStatus[o] \in {"none", "refused"} => PaidFor[o] = {}
             /\ PayStatus[o] = "confirmed" => PaidFor[o] # {}
             /\ PayStatus[o] \in {"none", "open", "confirmed", "refused"}
  <2>1. PayStatus[o] \in {"none", "refused"} => rows[o].state \in {"absent", "failed", "rejected"}
    BY <1>2 DEF StatusOf
  <2>2. PayStatus[o] \in {"none", "refused"} => PaidFor[o] = {}
    BY <1>1, <2>1, PaidIsCurrent
  <2>3. ASSUME PayStatus[o] = "confirmed" PROVE PaidFor[o] # {}
    <3>1. rows[o].state = "confirmed"
      BY <1>2, <2>3 DEF StatusOf
    <3>2. Paid(rows[o].txid)
      BY <3>1, MoneyMeans DEF VerdictMatchesChain
    <3>3. rows[o].txid \in writeAhead[o]
      BY <3>1 DEF FencingInv, Coherent, RowGood
    <3>4. QED
      BY <1>1, <3>2, <3>3
  <2>4. PayStatus[o] \in {"none", "open", "confirmed", "refused"}
    BY <1>2 DEF StatusOf
  <2>5. QED
    BY <2>2, <2>3, <2>4
<1>6. QED
  BY <1>3, <1>4, <1>5 DEF Truthful

(* The same of the next state. *)
LEMMA InvTruthfulNext == FencingInv' /\ MoneyInv' => Truthful'
<1>1. FencingInv /\ MoneyInv => Truthful
  BY InvTruthful
<1>2. QED
  BY <1>1, PTL

-----------------------------------------------------------------------------
(*                          The abstract steps                             *)

(* Money moves: nothing else changes abstractly. *)
LEMMA MovesAreTransfers ==
  ASSUME Truthful, Truthful', PayStatus' = PayStatus,
         \A o \in Ops : PaidFor[o] \subseteq PaidFor'[o]
  PROVE  Promise!PayNext
<1> DEFINE paid == {o \in Ops : PaidFor'[o] # PaidFor[o]}
<1>1. ASSUME NEW o \in paid
      PROVE  /\ PayStatus[o] = "open" /\ PaidFor[o] = {}
             /\ \E t \in PaidFor'[o] : PaidFor'[o] = {t}
  <2>1. o \in Ops /\ PaidFor[o] \subseteq PaidFor'[o] /\ PaidFor'[o] # PaidFor[o]
    OBVIOUS
  <2>2. PICK t \in PaidFor'[o] : t \notin PaidFor[o]
    BY <2>1
  <2>3. \A u \in PaidFor'[o] : u = t
    BY <2>1, SMT DEF Truthful
  <2>4. PaidFor[o] = {} /\ PaidFor'[o] = {t}
    BY <2>1, <2>2, <2>3
  <2>5. PayStatus'[o] \notin {"none", "refused"} /\ PayStatus[o] # "confirmed"
    BY <2>1, <2>4 DEF Truthful
  <2>6. PayStatus[o] = "open"
    BY <2>1, <2>5 DEF Truthful
  <2>7. QED
    BY <2>2, <2>4, <2>6
<1>2. \A o, p \in Ops : o # p => PaidFor'[o] \cap PaidFor'[p] = {}
  BY DEF Truthful
<1>3. Promise!Transfer(paid)
  BY <1>1, <1>2 DEF Promise!Transfer
<1>4. paid \in SUBSET Ops
  OBVIOUS
<1> HIDE DEF paid
<1>5. QED
  BY <1>3, <1>4 DEF Promise!PayNext

(* One open operation gets a state; no money moves. *)
LEMMA WritesAreVerdicts ==
  ASSUME Truthful', PaidFor' = PaidFor, NEW c \in Ops, PayStatus[c] = "open",
         PayStatus'[c] # "none", \A o \in Ops \ {c} : PayStatus'[o] = PayStatus[o]
  PROVE  [Promise!PayNext]_(Promise!payVars)
<1>1. PayStatus = [o \in Ops |-> PayStatus[o]] /\ PayStatus' = [o \in Ops |-> PayStatus'[o]]
  BY DEF PayStatus
<1>2. PayStatus'[c] \in {"open", "confirmed", "refused"}
  BY DEF Truthful
<1>3. CASE PayStatus'[c] = "open"
  BY <1>1, <1>3 DEF Promise!payVars
<1>4. CASE PayStatus'[c] \in {"confirmed", "refused"}
  <2>1. PayStatus'[c] = IF PaidFor[c] = {} THEN "refused" ELSE "confirmed"
    BY <1>4 DEF Truthful
  <2>2. PayStatus' = [PayStatus EXCEPT ![c] = IF PaidFor[c] = {} THEN "refused" ELSE "confirmed"]
    BY <1>1, <2>1
  <2>3. Promise!Close(c)
    BY <2>2 DEF Promise!Close
  <2>4. QED
    BY <2>3 DEF Promise!PayNext
<1>5. QED
  BY <1>2, <1>3, <1>4

-----------------------------------------------------------------------------
(*                      The steps of Sluice, abstractly                    *)

(* Rows in the same states, the same log, the same receipts. *)
LEMMA AbstractlyStill ==
  ASSUME FencingInv, RowsStill, writeAhead' = writeAhead, \A t \in Txids : Paid(t)' <=> Paid(t)
  PROVE  PayStatus' = PayStatus /\ PaidFor' = PaidFor
<1>1. PayStatus' = PayStatus
  BY DEF PayStatus, RowsStill
<1>2. ASSUME NEW o \in Ops
      PROVE  {t \in writeAhead'[o] : Paid(t)'} = {t \in writeAhead[o] : Paid(t)}
  BY DEF FencingInv, TypeOK
<1>3. PaidFor' = PaidFor
  BY <1>2 DEF PaidFor
<1>4. QED
  BY <1>1, <1>3

(* The moves the handlers make. *)
Move(s, t) ==
  \/ s = "requested" /\ t \in {"validated", "rejected"}
  \/ s = "validated" /\ t = "signing"
  \/ s = "signing" /\ t \in {"signing", "signed", "failed"}
  \/ s = "signed" /\ t \in {"broadcasting", "signing"}
  \/ s = "broadcasting" /\ t \in {"broadcasting", "broadcast", "signing", "failed"}
  \/ s = "broadcast" /\ t \in {"confirmed", "signing", "failed"}

(* Both tables have them. *)
LEMMA MoveIsLegal ==
  ASSUME NEW s, NEW t, Move(s, t)
  PROVE  can_transition(s, t) /\ op_transition_guard(s, t) /\ t \in OpState
<1>1. s \in OpState /\ t \in OpState /\ can_transition(s, t)
  BY DEF Move, can_transition, TRANSITIONS, OpState
<1>2. op_transition_guard(s, t)
  BY DEF Move, op_transition_guard
<1>3. QED
  BY <1>1, <1>2

(* The state a handler writes, whatever else it writes. *)
LEMMA WrittenState ==
  ASSUME FencingInv, NEW w \in Workers, pc[w] # "idle", NEW to \in OpState
  PROVE  /\ Committed(RowOf(w), to).state = to
         /\ \A t : [Committed(RowOf(w), to) EXCEPT !.signed = t].state = to
         /\ \A t, u : [Committed(RowOf(w), to) EXCEPT !.txid = t, !.signed = u].state = to
         /\ \A n, t, u : [Committed(RowOf(w), to) EXCEPT !.attempts = n, !.txid = t,
                                                         !.signed = u].state = to
<1> DEFINE r == Committed(RowOf(w), to)
<1>1. r \in Rows /\ r.state = to
  BY Busy, CommittedRow DEF RowOf
<1> HIDE DEF r
<1>2. /\ r.state = to
      /\ \A t : [r EXCEPT !.signed = t].state = to
      /\ \A t, u : [r EXCEPT !.txid = t, !.signed = u].state = to
      /\ \A n, t, u : [r EXCEPT !.attempts = n, !.txid = t, !.signed = u].state = to
  BY <1>1, SMTT(30) DEF Rows
<1>3. QED
  BY <1>2 DEF r

(* The steps of a worker that write a row, Send apart. *)
LEMMA WriterShape ==
  ASSUME FencingInv, NEW w \in Workers, WorkerStep(w), ~QuietStep(w), ~Send(w)
  PROVE  /\ pc[w] # "idle"
         /\ \E row : Write(w, row) /\ Move(op(w).state, row.state)
         /\ writeAhead' = writeAhead \/ WriteAhead(w)
<1>0. ControlOf(w)
  BY DEF FencingInv, Control
<1>1. CASE Validate(w)
  <2>1. /\ pc[w] # "idle" /\ op(w).state = "requested" /\ writeAhead' = writeAhead
        /\ \E to \in {"validated", "rejected"} : Write(w, Committed(RowOf(w), to))
    BY <1>1 DEF Validate, AtStep, WriteAndReturn, Unlogged
  <2>2. \A to \in {"validated", "rejected"} : Committed(RowOf(w), to).state = to
    BY <2>1, WrittenState, SMT DEF OpState
  <2>3. QED
    BY <2>1, <2>2 DEF Move
<1>2. CASE BeginSigning(w)
  <2>1. /\ pc[w] # "idle" /\ op(w).state = "validated" /\ writeAhead' = writeAhead
        /\ Write(w, Committed(RowOf(w), "signing"))
    BY <1>2 DEF BeginSigning, AtStep, Unlogged
  <2>2. Committed(RowOf(w), "signing").state = "signing"
    BY <2>1, WrittenState, SMT DEF OpState
  <2>3. QED
    BY <2>1, <2>2 DEF Move
<1>3. CASE GiveUp(w)
  <2>1. /\ pc[w] # "idle" /\ op(w).state = "signing" /\ writeAhead' = writeAhead
        /\ Write(w, Committed(RowOf(w), "failed"))
    BY <1>0, <1>3 DEF GiveUp, AtBuild, AtStep, ControlOf, WriteAndReturn, Unlogged
  <2>2. Committed(RowOf(w), "failed").state = "failed"
    BY <2>1, WrittenState DEF OpState
  <2>3. QED
    BY <2>1, <2>2 DEF Move
<1>4. CASE PersistEnvelope(w)
  <2>1. /\ pc[w] # "idle" /\ op(w).state = "signing" /\ writeAhead' = writeAhead
        /\ Write(w, [Committed(RowOf(w), "signing") EXCEPT !.txid = draft[w], !.signed = NoTx])
    BY <1>0, <1>4 DEF PersistEnvelope, ControlOf
  <2>2. [Committed(RowOf(w), "signing") EXCEPT !.txid = draft[w], !.signed = NoTx].state = "signing"
    BY <2>1, WrittenState, SMT DEF OpState
  <2>3. QED
    BY <2>1, <2>2 DEF Move
<1>5. CASE Sign(w)
  <2>1. /\ pc[w] # "idle" /\ op(w).state = "signing" /\ writeAhead' = writeAhead
        /\ Write(w, [Committed(RowOf(w), "signed") EXCEPT !.signed = op(w).txid])
    BY <1>0, <1>5 DEF Sign, ControlOf, WriteAndReturn, Unlogged
  <2>2. [Committed(RowOf(w), "signed") EXCEPT !.signed = op(w).txid].state = "signed"
    BY <2>1, WrittenState, SMT DEF OpState
  <2>3. QED
    BY <2>1, <2>2 DEF Move
<1>6. CASE RebuildUnsent(w)
  <2>1. /\ pc[w] # "idle" /\ op(w).state = "signed" /\ writeAhead' = writeAhead
        /\ Write(w, [Committed(RowOf(w), "signing") EXCEPT
                       !.attempts = op(w).attempts + 1, !.txid = NoTx, !.signed = NoTx])
    BY <1>6 DEF RebuildUnsent, AtStep, Rebuild, WriteAndReturn, Unlogged
  <2>2. [Committed(RowOf(w), "signing") EXCEPT
                       !.attempts = op(w).attempts + 1, !.txid = NoTx, !.signed = NoTx].state = "signing"
    BY <2>1, WrittenState, SMT DEF OpState
  <2>3. QED
    BY <2>1, <2>2 DEF Move
<1>7. CASE WriteAhead(w)
  <2>1. /\ pc[w] # "idle" /\ op(w).state = "signed" /\ WriteAhead(w)
        /\ Write(w, Committed(RowOf(w), "broadcasting"))
    BY <1>0, <1>7 DEF WriteAhead, ControlOf
  <2>2. Committed(RowOf(w), "broadcasting").state = "broadcasting"
    BY <2>1, WrittenState, SMT DEF OpState
  <2>3. QED
    BY <2>1, <2>2 DEF Move
<1>8. CASE Settle(w)
  <2>1. /\ pc[w] # "idle" /\ op(w).state = "broadcasting" /\ writeAhead' = writeAhead
        /\ Write(w, Committed(RowOf(w), Verdict(answer[w])))
    BY <1>0, <1>8 DEF Settle, QuietStep, WriteAndReturn, Unlogged, ControlOf
  <2>2. Verdict(answer[w]) \in {"broadcasting", "broadcast", "failed"}
    BY DEF Verdict
  <2>3. Committed(RowOf(w), Verdict(answer[w])).state = Verdict(answer[w])
    BY <2>1, <2>2, WrittenState, SMT DEF OpState
  <2>4. QED
    BY <2>1, <2>2, <2>3 DEF Move
<1>9. CASE MarkBroadcast(w)
  <2>1. /\ pc[w] # "idle" /\ op(w).state = "broadcasting" /\ writeAhead' = writeAhead
        /\ Write(w, Committed(RowOf(w), "broadcast"))
    BY <1>0, <1>9 DEF MarkBroadcast, ControlOf, WriteAndReturn, Unlogged
  <2>2. Committed(RowOf(w), "broadcast").state = "broadcast"
    BY <2>1, WrittenState, SMT DEF OpState
  <2>3. QED
    BY <2>1, <2>2 DEF Move
<1>10. CASE Confirm(w)
  <2> DEFINE to == IF answer[w] = "SUCCESS" THEN "confirmed" ELSE "failed"
  <2>1. /\ pc[w] # "idle" /\ op(w).state = "broadcast" /\ writeAhead' = writeAhead
        /\ Write(w, Committed(RowOf(w), to))
    BY <1>0, <1>10 DEF Confirm, WriteAndReturn, Unlogged, ControlOf
  <2>2. to \in {"confirmed", "failed"}
    OBVIOUS
  <2> HIDE DEF to
  <2>3. Committed(RowOf(w), to).state = to
    BY <2>1, <2>2, WrittenState, SMT DEF OpState
  <2>4. QED
    BY <2>1, <2>2, <2>3 DEF Move
<1>11. CASE RebuildDead(w)
  <2>1. /\ pc[w] # "idle" /\ op(w).state \in {"broadcasting", "broadcast"} /\ writeAhead' = writeAhead
        /\ Write(w, [Committed(RowOf(w), "signing") EXCEPT
                       !.attempts = op(w).attempts + 1, !.txid = NoTx, !.signed = NoTx])
    BY <1>0, <1>11 DEF RebuildDead, Rebuild, ControlOf, WriteAndReturn, Unlogged
  <2>2. [Committed(RowOf(w), "signing") EXCEPT
                       !.attempts = op(w).attempts + 1, !.txid = NoTx, !.signed = NoTx].state = "signing"
    BY <2>1, WrittenState, SMT DEF OpState
  <2>3. QED
    BY <2>1, <2>2 DEF Move
<1>12. QED
  BY <1>1, <1>2, <1>3, <1>4, <1>5, <1>6, <1>7, <1>8, <1>9, <1>10, <1>11 DEF WorkerStep, QuietStep

(* A write is a verdict, or nothing abstractly. What WriteAhead adds to    *)
(* the log has not landed, since a signed envelope was never sent.         *)
LEMMA WriterImplements ==
  ASSUME FencingInv, MoneyInv, FencingInv', MoneyInv',
         NEW w \in Workers, WorkerStep(w), ~QuietStep(w), ~Send(w)
  PROVE  [Promise!PayNext]_(Promise!payVars)
<1>1. pc[w] # "idle" /\ (writeAhead' = writeAhead \/ WriteAhead(w))
  BY WriterShape
<1>2. PICK row : Write(w, row) /\ row.state \in OpState
  BY WriterShape, MoveIsLegal
<1> DEFINE c == cur[w]
<1>3. /\ c \in Ops /\ CasHit(w) /\ rows' = [rows EXCEPT ![c] = row] /\ pc[w] # "idle"
      /\ txs' = txs /\ rows[c].state \in OpState /\ rows[c].state \notin TERMINAL
      /\ op(w) = rows[c] /\ rows \in [Ops -> Rows]
  BY <1>2, WriterShape, Busy, HitIsFresh, ZenonT(30) DEF Write, nodeVars, FencingInv, TypeOK
<1> HIDE DEF c
<1>4. \A t : Paid(t)' <=> Paid(t)
  BY <1>3 DEF Paid, Landed
<1>5. PaidFor' = PaidFor
  <2>1. ASSUME NEW o \in Ops, NEW t PROVE t \in writeAhead'[o] /\ Paid(t) <=> t \in writeAhead[o] /\ Paid(t)
    <3>1. CASE writeAhead' = writeAhead
      BY <3>1
    <3>2. CASE WriteAhead(w)
      <4>1. /\ writeAhead' = [writeAhead EXCEPT ![c] = @ \cup {op(w).signed}]
            /\ rows[c].state = "signed" /\ rows[c].signed = op(w).signed
        BY <1>3, <3>2 DEF WriteAhead, FencingInv, Control, ControlOf, c
      <4>2. ~Paid(op(w).signed)
        BY <1>3, <4>1, MoneyMeans DEF SignedNeverSent, Paid, Landed, Dead
      <4>3. writeAhead \in [Ops -> SUBSET Txids]
        BY DEF FencingInv, TypeOK
      <4>4. QED
        BY <1>3, <4>1, <4>2, <4>3
    <3>3. QED
      BY <1>1, <3>1, <3>2
  <2>2. \A o \in Ops : {t \in writeAhead'[o] : Paid(t)'} = {t \in writeAhead[o] : Paid(t)}
    BY <1>4, <2>1
  <2>3. QED
    BY <2>2 DEF PaidFor
<1>6. PayStatus[c] = "open" /\ PayStatus'[c] # "none"
  <2>1. rows'[c].state # "absent"
    BY <1>2, <1>3, States
  <2>2. QED
    BY <1>3, <2>1, States DEF PayStatus, StatusOf
<1>7. \A o \in Ops \ {c} : PayStatus'[o] = PayStatus[o]
  BY <1>3 DEF PayStatus
<1>8. QED
  BY <1>3, <1>5, <1>6, <1>7, InvTruthfulNext, WritesAreVerdicts

(* Every step of Sluice is an abstract step or invisible. *)
LEMMA PaymentStep ==
  ASSUME FencingInv, MoneyInv, FencingInv', MoneyInv', [SluiceNext]_vars
  PROVE  [Promise!PayNext]_(Promise!payVars)
<1>1. ASSUME RowsStill, writeAhead' = writeAhead, \A t \in Txids : Paid(t)' <=> Paid(t)
      PROVE  [Promise!PayNext]_(Promise!payVars)
  BY <1>1, AbstractlyStill DEF Promise!payVars
<1>2. ASSUME txs' = txs PROVE \A t \in Txids : Paid(t)' <=> Paid(t)
  BY <1>2 DEF Paid, Landed
<1>3. ASSUME NEW o \in Ops, Submit(o) PROVE [Promise!PayNext]_(Promise!payVars)
  <2>1. /\ rows[o].state = "absent" /\ rows' = [rows EXCEPT ![o].state = "requested"]
        /\ writeAhead' = writeAhead /\ txs' = txs /\ rows \in [Ops -> Rows]
    BY <1>3 DEF Submit, insert_new, nodeVars, FencingInv, TypeOK
  <2>2. PaidFor' = PaidFor
    BY <2>1 DEF PaidFor, Paid, Landed
  <2>3. rows'[o].state = "requested" /\ \A p \in Ops \ {o} : rows'[p] = rows[p]
    BY <2>1 DEF Rows
  <2>4. PayStatus[o] = "none" /\ PayStatus' = [PayStatus EXCEPT ![o] = "open"]
    BY <2>1, <2>3 DEF PayStatus, StatusOf
  <2>5. Promise!Request(o)
    BY <2>2, <2>4 DEF Promise!Request
  <2>6. QED
    BY <2>5 DEF Promise!PayNext
<1>4. CASE UNCHANGED vars \/ ClockTick
  <2>1. RowsStill /\ writeAhead' = writeAhead /\ txs' = txs
    BY <1>4 DEF vars, ClockTick, Tick, storeVars, nodeVars, RowsStill
  <2>2. QED
    BY <1>1, <1>2, <2>1
<1>5. CASE MineBlock
  <2>1. /\ DOMAIN txs' = DOMAIN txs
        /\ \A t \in DOMAIN txs : Landed(t) => txs'[t] = txs[t]
    BY <1>5, BlockKeepsNode DEF MineBlock, FencingInv, TypeOK
  <2>2. rows' = rows /\ writeAhead' = writeAhead
    BY <1>5 DEF MineBlock, storeVars
  <2>3. \A t : Paid(t) => Paid(t)'
    BY <2>1 DEF Paid, Landed
  <2>4. PayStatus' = PayStatus /\ \A o \in Ops : PaidFor[o] \subseteq PaidFor'[o]
    BY <2>2, <2>3 DEF PayStatus, PaidFor
  <2>5. QED
    BY <2>4, InvTruthful, InvTruthfulNext, MovesAreTransfers
<1>6. ASSUME NEW w \in Workers, WorkerStep(w) \/ Crash(w)
      PROVE  [Promise!PayNext]_(Promise!payVars)
  <2>1. CASE Send(w)
    <3>1. pc[w] = "send" /\ RowsStill /\ writeAhead' = writeAhead
      BY <2>1 DEF Send, storeVars, RowsStill
    <3>2. \E code \in BroadcastCode \cup {NodeTimeout} : broadcast(op(w).signed, code)
      BY <2>1 DEF Send
    <3>3. op(w).signed \in Txids
      BY <3>1, SignedEnvelope DEF FencingInv, Control, ControlOf
    <3>4. /\ \A u \in Txids : Landed(u)' <=> Landed(u)
          /\ \A u \in DOMAIN txs : txs'[u] = txs[u]
      BY <3>2, <3>3, BroadcastKeepsNode DEF FencingInv, TypeOK
    <3>5. \A u \in Txids : Paid(u)' <=> Paid(u)
      BY <3>4 DEF Paid, Landed
    <3>6. QED
      BY <1>1, <3>1, <3>5
  <2>2. CASE QuietStep(w)
    <3>1. RowsStill /\ writeAhead' = writeAhead /\ txs' = txs
      BY <2>2, QuietRows DEF nodeVars
    <3>2. QED
      BY <1>1, <1>2, <3>1
  <2>3. QED
    BY <1>6, <2>1, <2>2, WriterImplements DEF QuietStep
<1>7. QED
  BY <1>3, <1>4, <1>5, <1>6 DEF SluiceNext

(* Sluice implements the abstract payment: the money of a withdrawal moves *)
(* at most once, while it is open, by a transfer of its own, and it is     *)
(* closed once with the truth (the handlers of the pipeline together).     *)
THEOREM SpecPaysOnce ==
  ASSUME SafeTiming, DistinctTxids
  PROVE  Spec => PaysOnce
<1>1. SluiceInit => Promise!PayInit
  <2>1. NoRow.state = "absent"
    BY DEF NoRow
  <2> HIDE DEF NoRow
  <2>2. SluiceInit => PayStatus = [o \in Ops |-> "none"]
    BY <2>1, SMT DEF SluiceInit, StoreInit, PayStatus, StatusOf
  <2>3. SluiceInit => PaidFor = [o \in Ops |-> {}]
    BY DEF SluiceInit, StoreInit, PaidFor
  <2>4. QED
    BY <2>2, <2>3 DEF Promise!PayInit
<1>2. /\ FencingInv /\ MoneyInv /\ [SluiceNext]_vars
      /\ FencingInv' /\ MoneyInv'
      => [Promise!PayNext]_(Promise!payVars)
  BY PaymentStep
<1>3. QED
  BY <1>1, <1>2, SpecMoney, PTL DEF Spec, PaysOnce, Promise!PaySpec

-----------------------------------------------------------------------------
(*                         What the store is told                          *)

(* Nobody drives an operation that is settled in their own copy. *)
CopiesLive == \A w \in Workers : \A o \in Ops : snap[w][o].state \notin TERMINAL

(* The empty copy is not settled. *)
LEMMA NoRowLive == NoRow.state \notin TERMINAL
BY States DEF NoRow

(* What a worker's step does to its copies and to the rows. *)
LEMMA StepShape ==
  ASSUME FencingInv, NEW w \in Workers, WorkerStep(w) \/ Crash(w)
  PROVE  \/ Claim(w)
         \/ pc[w] # "idle" /\ \E row : Write(w, row) /\ Move(op(w).state, row.state)
         \/ Release(w)
         \/ /\ UNCHANGED storeVars
            /\ \/ snap' = snap
               \/ snap' = [snap EXCEPT ![w][cur[w]] = NoRow]
               \/ snap' = [snap EXCEPT ![w] = [o \in Ops |-> NoRow]]
<1>1. CASE ~QuietStep(w) /\ ~Send(w)
  BY <1>1, WriterShape DEF QuietStep
<1>2. CASE LostClaim(w) \/ Crash(w) \/ Send(w)
  BY <1>2 DEF LostClaim, Crash, Send
<1>3. CASE \/ BuildEnvelope(w) \/ HandlerError(w) \/ CheckExpiry(w) \/ LookupFound(w)
           \/ LookupSolid(w) \/ LookupUnknown(w)
  BY <1>3 DEF BuildEnvelope, HandlerError, CheckExpiry, LookupFound, LookupSolid, LookupUnknown
<1>4. CASE QueryTimeout(w) \/ AwaitSolidity(w) \/ NotDead(w)
  BY <1>4 DEF QueryTimeout, AwaitSolidity, NotDead, Park
<1>5. CASE Settle(w) /\ answer[w] \in RETRY_SAME_BYTES
  BY <1>5 DEF Settle, Park
<1>6. QED
  BY <1>1, <1>2, <1>3, <1>4, <1>5 DEF QuietStep

(* No step leaves a worker with a settled copy. *)
LEMMA CopiesLiveStep ==
  ASSUME FencingInv, CopiesLive, [SluiceNext]_vars
  PROVE  CopiesLive'
<1>1. snap \in [Workers -> [Ops -> Rows]]
  BY DEF FencingInv, TypeOK
<1>2. ASSUME snap' = snap PROVE CopiesLive'
  BY <1>2 DEF CopiesLive
<1>3. ASSUME NEW w \in Workers, NEW c, NEW r, r.state \notin TERMINAL,
             snap' = [snap EXCEPT ![w][c] = r]
      PROVE  CopiesLive'
  BY <1>1, <1>3 DEF CopiesLive
<1>4. ASSUME NEW w \in Workers, WorkerStep(w) \/ Crash(w) PROVE CopiesLive'
  <2>1. CASE Claim(w)
    <3>1. PICK P \in Batches :
            snap' = [snap EXCEPT ![w] = [o \in Ops |-> IF o \in P THEN claimed(o) ELSE NoRow]]
      BY <2>1 DEF Claim
    <3>2. \A o \in P : o \in Ops /\ rows[o].state \notin TERMINAL
      BY PickedRows DEF CLAIMABLE
    <3>3. \A o \in P : claimed(o).state \notin TERMINAL
      BY <3>2, ClaimedRow DEF FencingInv
    <3>4. QED
      BY <1>1, <3>1, <3>3, NoRowLive DEF CopiesLive
  <2>2. CASE \E row : Write(w, row)
    <3>1. PICK row : Write(w, row)
      BY <2>2
    <3> DEFINE r == IF row.state \in TERMINAL THEN NoRow ELSE row
    <3>2. snap' = [snap EXCEPT ![w][cur[w]] = r] /\ r.state \notin TERMINAL
      BY <3>1, NoRowLive DEF Write
    <3> HIDE DEF r
    <3>3. QED
      BY <1>3, <3>2
  <2>3. CASE Release(w)
    BY <1>3, <2>3, NoRowLive DEF Release
  <2>4. CASE snap' = [snap EXCEPT ![w][cur[w]] = NoRow]
    BY <1>3, <2>4, NoRowLive
  <2>5. CASE snap' = [snap EXCEPT ![w] = [o \in Ops |-> NoRow]]
    BY <1>1, <2>5, NoRowLive DEF CopiesLive
  <2>6. QED
    BY <1>2, <1>4, <2>1, <2>2, <2>3, <2>4, <2>5, StepShape
<1>5. CASE UNCHANGED vars \/ ClockTick \/ MineBlock \/ \E o \in Ops : Submit(o)
  BY <1>2, <1>5 DEF vars, ClockTick, MineBlock, Submit, workerVars
<1>6. QED
  BY <1>4, <1>5 DEF SluiceNext

(* The step form of LegalTransitions. *)
LEMMA LegalStep ==
  ASSUME FencingInv, CopiesLive, [SluiceNext]_vars,
         NEW o \in Ops, rows[o].state # "absent", rows'[o] # rows[o]
  PROVE  /\ can_transition(rows[o].state, rows'[o].state)
         /\ op_transition_guard(rows[o].state, rows'[o].state)
<1>1. rows \in [Ops -> Rows] /\ TypeOK
  BY DEF FencingInv, TypeOK
<1>2. ASSUME rows[o].state \notin TERMINAL, rows'[o].state = rows[o].state
      PROVE  /\ can_transition(rows[o].state, rows'[o].state)
             /\ op_transition_guard(rows[o].state, rows'[o].state)
  BY <1>2, States DEF can_transition, op_transition_guard
<1>3. rows' # rows
  OBVIOUS
<1>4. ASSUME NEW w \in Workers, WorkerStep(w) \/ Crash(w)
      PROVE  /\ can_transition(rows[o].state, rows'[o].state)
             /\ op_transition_guard(rows[o].state, rows'[o].state)
  <2>1. CASE Claim(w)
    <3>1. PICK P \in Batches : rows'[o] = IF o \in P THEN claimed(o) ELSE rows[o]
      BY <2>1 DEF Claim, claim
    <3>2. o \in P => rows[o].state \notin TERMINAL /\ claimed(o).state = rows[o].state
      BY <1>1, ClaimedRow, PickedRows DEF CLAIMABLE
    <3>3. QED
      BY <1>2, <3>1, <3>2
  <2>2. CASE pc[w] # "idle" /\ \E row : Write(w, row) /\ Move(op(w).state, row.state)
    <3>1. PICK row : Write(w, row) /\ Move(op(w).state, row.state)
      BY <2>2
    <3>2. rows' = [rows EXCEPT ![cur[w]] = row] /\ op(w) = rows[cur[w]] /\ cur[w] \in Ops
      BY <2>2, <3>1, HitIsFresh, Busy DEF Write
    <3>3. o = cur[w] /\ rows'[o] = row
      BY <1>1, <3>2
    <3>4. QED
      BY <3>1, <3>2, <3>3, MoveIsLegal
  <2>3. CASE Release(w)
    <3>1. pc[w] # "idle" /\ release(cur[w], op(w).token)
      BY <2>3 DEF Release
    <3>2. cur[w] \in Ops /\ cur[w] \in mine[w] /\ rows[cur[w]] \in Rows
      BY <3>1, Busy
    <3>3. /\ rows' = [rows EXCEPT ![cur[w]].lease = NoLease]
          /\ rows[cur[w]].token = op(w).token
      BY <1>3, <3>1 DEF release
    <3>4. op(w) = rows[cur[w]]
      BY <3>2, <3>3 DEF FencingInv, SingleWriter, op
    <3>5. o = cur[w] /\ rows'[o].state = rows[o].state
      BY <1>1, <3>2, <3>3 DEF Rows
    <3>6. rows[o].state \notin TERMINAL
      BY <3>2, <3>4, <3>5 DEF CopiesLive, op
    <3>7. QED
      BY <1>2, <3>5, <3>6
  <2>4. QED
    BY <1>3, <1>4, <2>1, <2>2, <2>3, StepShape DEF storeVars
<1>5. CASE UNCHANGED vars \/ ClockTick \/ MineBlock
  BY <1>3, <1>5 DEF vars, ClockTick, MineBlock, storeVars
<1>6. CASE \E p \in Ops : Submit(p)
  BY <1>1, <1>6 DEF Submit, insert_new
<1>7. QED
  BY <1>4, <1>5, <1>6 DEF SluiceNext

(* Every write is a legal transition, so neither the store's table nor the *)
(* database trigger ever refuses one, and a settled row is never written   *)
(* again (cas, release and claim of both stores).                          *)
THEOREM SpecLegalTransitions == Spec => LegalTransitions
<1>1. SluiceInit => CopiesLive
  BY NoRowLive, SMT DEF SluiceInit, CopiesLive
<1>2. FencingInv /\ CopiesLive /\ [SluiceNext]_vars => CopiesLive'
  BY CopiesLiveStep
<1>3. FencingInv /\ CopiesLive /\ [SluiceNext]_vars =>
        [\A o \in Ops : rows[o].state # "absent" /\ rows'[o] # rows[o] =>
           /\ can_transition(rows[o].state, rows'[o].state)
           /\ op_transition_guard(rows[o].state, rows'[o].state)]_vars
  BY LegalStep
<1>4. QED
  BY <1>1, <1>2, <1>3, SpecFencing, PTL DEF Spec, LegalTransitions

(* A step of w moves no other worker through its loop. *)
LEMMA LoopUndisturbed ==
  ASSUME FencingInv, NEW w \in Workers, WorkerStep(w) \/ Crash(w), NEW v \in Workers \ {w}
  PROVE  /\ pc'[v] = pc[v] /\ cur'[v] = cur[v] /\ mine'[v] = mine[v]
         /\ before'[v] = before[v] /\ steps'[v] = steps[v]
<1> DEFINE Alone(f) == f' = f \/ \E x : f' = [f EXCEPT ![w] = x]
<1>1. ASSUME NextOp(w) PROVE Alone(mine) /\ Alone(before) /\ Alone(steps)
  BY <1>1 DEF NextOp
<1>2. ASSUME NEW to, StepReturned(w, to) PROVE Alone(mine) /\ Alone(before) /\ Alone(steps)
  BY <1>1, <1>2 DEF StepReturned, driveVars
<1>3. Alone(mine) /\ Alone(before) /\ Alone(steps)
  <2>1. CASE \/ BeginSigning(w) \/ BuildEnvelope(w) \/ PersistEnvelope(w) \/ HandlerError(w)
             \/ CheckExpiry(w) \/ WriteAhead(w) \/ LookupFound(w) \/ LookupSolid(w)
             \/ LookupUnknown(w)
    BY <2>1 DEF BeginSigning, BuildEnvelope, PersistEnvelope, HandlerError, CheckExpiry,
       WriteAhead, LookupFound, LookupSolid, LookupUnknown, driveVars
  <2>2. CASE \/ Validate(w) \/ GiveUp(w) \/ Sign(w) \/ RebuildUnsent(w) \/ MarkBroadcast(w)
             \/ Confirm(w) \/ RebuildDead(w)
    BY <1>2, <2>2 DEF Validate, GiveUp, Sign, RebuildUnsent, MarkBroadcast, Confirm,
       RebuildDead, Rebuild, WriteAndReturn
  <2>3. CASE Send(w) \/ Settle(w) \/ QueryTimeout(w) \/ AwaitSolidity(w) \/ NotDead(w)
    BY <1>2, <2>3 DEF Send, Settle, QueryTimeout, AwaitSolidity, NotDead, Park,
       WriteAndReturn, driveVars
  <2>4. CASE Claim(w) \/ LostClaim(w) \/ Release(w) \/ Crash(w)
    BY <1>1, <2>4 DEF Claim, LostClaim, Release, Crash
  <2>5. QED
    BY <2>1, <2>2, <2>3, <2>4 DEF WorkerStep
<1>4. /\ mine \in [Workers -> SUBSET Ops] /\ before \in [Workers -> OpState \cup {"absent"}]
      /\ steps \in [Workers -> Nat]
  BY DEF FencingInv, TypeOK
<1>5. mine'[v] = mine[v] /\ before'[v] = before[v] /\ steps'[v] = steps[v]
  BY <1>3, <1>4
<1>6. QED
  BY <1>5, StepUndisturbed DEF Undisturbed

(* The step form of ZombieWritesNothing. *)
LEMMA ZombieStep ==
  ASSUME FencingInv, SluiceNext, NEW w \in Workers, pc[w] # "idle",
         op(w).token # rows[cur[w]].token,
         <<pc[w], cur[w], mine[w], before[w], steps[w]>>'
           # <<pc[w], cur[w], mine[w], before[w], steps[w]>>
  PROVE  UNCHANGED storeVars
<1>1. ASSUME NEW v \in Workers \ {w}, WorkerStep(v) \/ Crash(v) PROVE FALSE
  BY <1>1, LoopUndisturbed, SMT
<1>2. ~UNCHANGED workerVars
  BY DEF workerVars, driveVars
<1>3. WorkerStep(w) \/ Crash(w)
  BY <1>1, <1>2, SMT DEF SluiceNext, Submit, ClockTick, MineBlock
<1>4. CASE \E row : Write(w, row)
  BY <1>4 DEF Write, CasHit, CasMatches
<1>5. CASE Release(w)
  BY <1>5 DEF Release, release, storeVars
<1>6. QED
  BY <1>3, <1>4, <1>5, StepShape DEF Claim

(* A worker whose lease was stolen writes precisely nothing, whatever it   *)
(* believes and wherever in its handler it wakes up (cas and release).     *)
THEOREM SpecZombieWritesNothing == Spec => ZombieWritesNothing
<1>1. FencingInv /\ [SluiceNext]_vars =>
        [\A w \in Workers :
           /\ pc[w] # "idle"
           /\ op(w).token # rows[cur[w]].token
           /\ <<pc[w], cur[w], mine[w], before[w], steps[w]>>'
                # <<pc[w], cur[w], mine[w], before[w], steps[w]>>
           => UNCHANGED storeVars]_vars
  BY ZombieStep
<1>2. QED
  BY <1>1, SpecFencing, PTL DEF Spec, ZombieWritesNothing
=============================================================================
