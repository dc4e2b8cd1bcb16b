------------------------------ MODULE SluiceInv -----------------------------
(***************************************************************************)
(* The inductive invariant behind the safety properties of Sluice, and the *)
(* two assumptions it needs.                                               *)
(***************************************************************************)
EXTENDS Sluice

(* A lookup is never older, in chain time, than the safety margin when its *)
(* worker reads the solid chain time.                                      *)
SafeTiming == MaxStall <= Margin + 1

(* Two operations cannot be given the same txid: the database refuses it,  *)
(* or they pay different things.                                           *)
DistinctTxids ==
  StoreKind = "postgres" \/ \A o, p \in Ops : o # p => Pay[o] # Pay[p]

(* What a worker's label says of its copy and of its local variables. *)
ControlOf(w) ==
  /\ pc[w] # "idle" => cur[w] \in mine[w]
  /\ pc[w] \in {"build", "persist", "sign"} => op(w).state = "signing"
  /\ pc[w] = "ahead" => op(w).state = "signed"
  /\ pc[w] \in {"send", "settle", "found"} => op(w).state = "broadcasting"
  /\ pc[w] = "proof" => op(w).state \in {"broadcasting", "broadcast"}
  /\ pc[w] = "confirm" => op(w).state = "broadcast"
  /\ pc[w] = "persist" => draft[w] \in Txids /\ draft[w].pay = Pay[cur[w]]
  /\ pc[w] = "sign" => op(w).txid # NoTx
  /\ pc[w] = "settle" => answer[w] \in BroadcastCode

Control ==
  \A w \in Workers : ControlOf(w) /\ \A o \in mine[w] : rows[o].state # "absent"

(* A row, or a worker's copy of one, of an operation that pays pay and     *)
(* whose log holds built and sent: it carries at most one envelope.        *)
RowGood(r, pay, built, sent) ==
  /\ r.txid # NoTx => r.txid.pay = pay /\ r.txid \in built
  /\ r.signed # NoTx => r.signed = r.txid
  /\ r.state \in {"absent", "requested", "validated", "signing", "rejected"} => r.signed = NoTx
  /\ r.state \in {"signed", "broadcasting", "broadcast", "confirmed"} => r.signed # NoTx
  /\ r.state \in {"broadcasting", "broadcast", "confirmed"} => r.signed \in sent

Coherent ==
  /\ \A o \in Ops : RowGood(rows[o], Pay[o], all_txids[o], writeAhead[o])
  /\ \A w \in Workers : \A o \in mine[w] :
       RowGood(snap[w][o], Pay[o], all_txids[o], writeAhead[o])

(* An envelope that is signed and not yet written ahead by its operation    *)
(* was written ahead by no live operation.                                 *)
SignedFresh ==
  \A o, p \in Ops :
    rows[o].state = "signed" /\ rows[o].signed \in writeAhead[p] => Dead(rows[o].signed)

SentWasLogged == \A t \in DOMAIN txs : \E o \in Ops : t \in writeAhead[o]

(* What stands behind what a worker has heard from the node. Between its    *)
(* lookup and its proof: if the transaction has landed, it did so after the *)
(* lookup, and the chain has not gone far since.                            *)
AnswerBacked(w) ==
  /\ pc[w] = "proof" =>
       /\ seen[w] <= blockTime[head]
       /\ blockTime[head] <= seen[w] + MaxStall
       /\ Landed(op(w).signed) => seen[w] < blockTime[txs[op(w).signed].block]
  /\ pc[w] = "settle" /\ answer[w] \in HARD_REJECT => ~Verifies(op(w).signed)
  /\ pc[w] = "confirm" => /\ Landed(op(w).signed) /\ IsSolid(op(w).signed)
                          /\ txs[op(w).signed].receipt = answer[w]

(* What stands behind a verdict in the store. *)
VerdictBacked(r) ==
  /\ r.state = "confirmed" =>
       Landed(r.signed) /\ IsSolid(r.signed) /\ txs[r.signed].receipt = "SUCCESS"
  /\ r.state = "failed" =>
       \/ r.signed = NoTx
       \/ Landed(r.signed) /\ IsSolid(r.signed) /\ txs[r.signed].receipt = "REVERTED"
       \/ ~Verifies(r.signed)

FencingInv == TypeOK /\ ChainRules /\ Control /\ Coherent /\ SingleWriter

(* No two rows carry the same txid. *)
TxidsUnique ==
  \A o, p \in Ops : o # p /\ rows[o].txid = rows[p].txid => rows[o].txid = NoTx

(* What the store alone says of the money. *)
LedgerInv ==
  /\ TxidsUnique
  /\ SentWasLogged
  /\ RetiredStaysDead
  /\ SignedFresh
  /\ \A o \in Ops : VerdictBacked(rows[o])

MoneyInv == LedgerInv /\ \A w \in Workers : AnswerBacked(w)
=============================================================================
