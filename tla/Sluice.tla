------------------------------- MODULE Sluice -------------------------------
(***************************************************************************)
(* The workers (sluice/worker.py) running the pipeline                     *)
(* (sluice/pipeline.py) over the store and the node.                       *)
(*                                                                         *)
(* One action per access a handler makes to the store or to the node, so   *)
(* every other worker, the chain and the clock can move between any two of *)
(* them. pc[w] says where worker w is:                                     *)
(*   idle     run_once, about to claim      step     top of _drive's loop  *)
(*   build    _build_and_sign, SIGNING      persist  envelope built        *)
(*   sign     envelope durable              ahead    not expired when read *)
(*   send     at node.broadcast             settle   holding its code      *)
(*   found    lookup saw the tx             proof    it answered UNKNOWN   *)
(*   confirm  lookup saw the tx solid       release  giving the row back   *)
(***************************************************************************)
EXTENDS OpStore

CONSTANTS
  Workers,
  NoOp,              \* no operation is being driven
  TTL,               \* tx_ttl_seconds
  Margin,            \* expiration_safety_seconds
  MaxBuildAttempts,  \* max_build_attempts
  MaxSteps,          \* MAX_STEPS_PER_CLAIM
  MaxStall,          \* chain time that may pass between a lookup and its proof
  StoreFails         \* connections to the database may fail

ASSUME SluiceAssumption ==
  /\ NoOp \notin Ops
  /\ TTL \in Nat \ {0} /\ Margin \in Nat
  /\ MaxBuildAttempts \in Nat /\ MaxSteps \in Nat \ {0}
  /\ MaxStall \in Nat
  /\ StoreFails \in BOOLEAN /\ (StoreFails => StoreKind = "postgres")

VARIABLES
  pc,
  cur,     \* the operation _drive is working on
  mine,    \* claimed operations not yet driven to the end, cur included
  snap,    \* the worker's copies of the rows it claimed
  before,  \* the state in which the current step began
  steps,   \* steps of the current operation already taken
  draft,   \* the envelope built and not yet persisted
  answer,  \* the code or receipt a node call returned
  seen     \* chain time at the lookup that answered UNKNOWN (for MaxStall only)

driveVars  == <<cur, mine, before, steps>>
localVars  == <<draft, answer, seen>>
workerVars == <<pc, driveVars, snap, localVars>>
vars       == <<now, nodeVars, storeVars, workerVars>>

Labels == {"idle", "step", "build", "persist", "sign", "ahead", "send", "settle",
           "found", "proof", "confirm", "release"}

NoAnswer == "none"

SluiceInit ==
  /\ NodeInit
  /\ StoreInit
  /\ pc     = [w \in Workers |-> "idle"]
  /\ cur    = [w \in Workers |-> NoOp]
  /\ mine   = [w \in Workers |-> {}]
  /\ snap   = [w \in Workers |-> [o \in Ops |-> NoRow]]
  /\ before = [w \in Workers |-> "absent"]
  /\ steps  = [w \in Workers |-> 0]
  /\ draft  = [w \in Workers |-> NoTx]
  /\ answer = [w \in Workers |-> NoAnswer]
  /\ seen   = [w \in Workers |-> 0]

-----------------------------------------------------------------------------
(*                          The loop of _drive                             *)

(* The worker's own copy of the row it is driving. *)
op(w) == snap[w][cur[w]]

Goto(w, label) == pc' = [pc EXCEPT ![w] = label]

(* _drive returned: run_once turns to another claimed row, in any order     *)
(* (the database returns them unordered), or to its next claim.             *)
NextOp(w) ==
  LET left == mine[w] \ {cur[w]} IN
  /\ mine' = [mine EXCEPT ![w] = left]
  /\ steps' = [steps EXCEPT ![w] = 0]
  /\ \/ /\ left = {}
        /\ Goto(w, "idle")
        /\ cur' = [cur EXCEPT ![w] = NoOp]
        /\ before' = [before EXCEPT ![w] = "absent"]
     \/ \E o \in left :
          /\ Goto(w, "step")
          /\ cur' = [cur EXCEPT ![w] = o]
          /\ before' = [before EXCEPT ![w] = snap[w][o].state]

(* The handler returned the operation in state to: finished, parked, out of *)
(* steps, or on to the next handler.                                        *)
StepReturned(w, to) ==
  \/ to \in TERMINAL /\ NextOp(w)
  \/ /\ to \notin TERMINAL
     /\ to = before[w] \/ steps[w] + 1 >= MaxSteps
     /\ Goto(w, "release")
     /\ UNCHANGED driveVars
  \/ /\ to \notin TERMINAL
     /\ to # before[w] /\ steps[w] + 1 < MaxSteps
     /\ Goto(w, "step")
     /\ before' = [before EXCEPT ![w] = to]
     /\ steps' = [steps EXCEPT ![w] = @ + 1]
     /\ UNCHANGED <<cur, mine>>

(* A handler that returns without having written anything. *)
Park(w) == StepReturned(w, op(w).state) /\ UNCHANGED <<snap, now, nodeVars, storeVars>>

CasHit(w) == CasMatches(cur[w], op(w).token, op(w).state)

(* _cas: write row and take the returned copy for one's own. *)
Write(w, row) ==
  /\ CasHit(w) /\ ~CasRaises(row.state)
  /\ rows' = [rows EXCEPT ![cur[w]] = row]
  /\ snap' = [snap EXCEPT ![w][cur[w]] = IF row.state \in TERMINAL THEN NoRow ELSE row]
  /\ UNCHANGED <<now, nodeVars, arrival>>

Unlogged == UNCHANGED <<all_txids, writeAhead>>

(* A _cas that is the handler's last word. *)
WriteAndReturn(w, row) == Write(w, row) /\ Unlogged /\ StepReturned(w, row.state)

RowOf(w) == rows[cur[w]]

(* Mutant: the attempts are counted down. *)
Rebuild_CountsDown(w) ==
  WriteAndReturn(w, [Committed(RowOf(w), "signing") EXCEPT
                       !.attempts = op(w).attempts - 1, !.txid = NoTx, !.signed = NoTx])

(* _rebuild: retire the envelope and go back to SIGNING. *)
Rebuild(w) ==
  WriteAndReturn(w, [Committed(RowOf(w), "signing") EXCEPT
                       !.attempts = op(w).attempts + 1, !.txid = NoTx, !.signed = NoTx])

AtStep(w, states) == pc[w] = "step" /\ op(w).state \in states

-----------------------------------------------------------------------------
(*                               Handlers                                  *)

(* run_once: claim a batch and turn to one of its rows. *)
Claim(w) ==
  /\ pc[w] = "idle"
  /\ \E picked \in Batches :
       /\ claim(picked)
       /\ snap' = [snap EXCEPT ![w] = [o \in Ops |-> IF o \in picked THEN claimed(o) ELSE NoRow]]
       /\ mine' = [mine EXCEPT ![w] = picked]
       /\ \E o \in picked :
            /\ cur' = [cur EXCEPT ![w] = o]
            /\ before' = [before EXCEPT ![w] = rows[o].state]
  /\ steps' = [steps EXCEPT ![w] = 0]
  /\ Goto(w, "step")
  /\ UNCHANGED <<now, nodeVars, localVars>>

(* _validate: address, asset and limits may have changed since intake. *)
Validate(w) ==
  /\ AtStep(w, {"requested"})
  /\ \E verdict \in {"validated", "rejected"} : WriteAndReturn(w, Committed(RowOf(w), verdict))
  /\ UNCHANGED localVars

(* _build_and_sign from VALIDATED. *)
BeginSigning(w) ==
  /\ AtStep(w, {"validated"})
  /\ Write(w, Committed(RowOf(w), "signing"))
  /\ Unlogged
  /\ Goto(w, "build")
  /\ UNCHANGED <<driveVars, localVars>>

AtBuild(w) == pc[w] = "build" \/ AtStep(w, {"signing"})

GaveUp(w) == op(w).attempts >= MaxBuildAttempts

GiveUp(w) ==
  /\ AtBuild(w) /\ GaveUp(w)
  /\ WriteAndReturn(w, Committed(RowOf(w), "failed"))
  /\ UNCHANGED localVars

(* The reference block and the clock are read back to back; only the       *)
(* timestamp has to be new for the txid to be new.                         *)
BuildEnvelope(w) ==
  /\ AtBuild(w) /\ ~GaveUp(w)
  /\ draft' = [draft EXCEPT ![w] = [pay |-> Pay[cur[w]], ref |-> ref_block,
                                    ts |-> now, exp |-> now + TTL]]
  /\ Goto(w, "persist")
  /\ UNCHANGED <<now, nodeVars, storeVars, driveVars, snap, answer, seen>>

(* The txid becomes durable before a signature exists. *)
PersistEnvelope(w) ==
  /\ pc[w] = "persist"
  /\ ~TxidTaken(cur[w], draft[w])
  /\ Write(w, [Committed(RowOf(w), "signing") EXCEPT !.txid = draft[w], !.signed = NoTx])
  /\ all_txids' = [all_txids EXCEPT ![cur[w]] = @ \cup {draft[w]}]
  /\ draft' = [draft EXCEPT ![w] = NoTx]
  /\ Goto(w, "sign")
  /\ UNCHANGED <<writeAhead, driveVars, answer, seen>>

Sign(w) ==
  /\ pc[w] = "sign"
  /\ WriteAndReturn(w, [Committed(RowOf(w), "signed") EXCEPT !.signed = op(w).txid])
  /\ UNCHANGED localVars

(* _broadcast on an envelope that expired before its first send. The clock *)
(* is read before the write; what has expired by then is expired for good. *)
RebuildUnsent(w) ==
  /\ AtStep(w, {"signed"})
  /\ now >= op(w).signed.exp
  /\ Rebuild(w)
  /\ UNCHANGED localVars

(* _broadcast reads the clock: not expired yet. *)
CheckExpiry(w) ==
  /\ AtStep(w, {"signed"})
  /\ now < op(w).signed.exp
  /\ Goto(w, "ahead")
  /\ UNCHANGED <<now, nodeVars, storeVars, driveVars, snap, localVars>>

(* Mutant: the wire is touched before the intent to send is durable. *)
WriteAhead_Late(w) ==
  /\ pc[w] = "ahead"
  /\ Goto(w, "send")
  /\ UNCHANGED <<now, nodeVars, storeVars, driveVars, snap, localVars>>

(* The intent to send is durable before the wire is touched, be it that the *)
(* envelope has expired since the clock was read.                          *)
WriteAhead(w) ==
  /\ pc[w] = "ahead"
  /\ Write(w, Committed(RowOf(w), "broadcasting"))
  /\ writeAhead' = [writeAhead EXCEPT ![cur[w]] = @ \cup {op(w).signed}]
  /\ all_txids' = [all_txids EXCEPT ![cur[w]] = @ \cup {op(w).signed}]
  /\ Goto(w, "send")
  /\ UNCHANGED <<driveVars, localVars>>

(* node.broadcast, first send or re-send of the same bytes. No cas guards  *)
(* it. A timeout leaves the row alone: nothing is assumed.                 *)
Send(w) ==
  /\ pc[w] = "send"
  /\ \E code \in BroadcastCode \cup {NodeTimeout} :
       /\ broadcast(op(w).signed, code)
       /\ IF code = NodeTimeout
            THEN /\ StepReturned(w, op(w).state)
                 /\ UNCHANGED answer
            ELSE /\ answer' = [answer EXCEPT ![w] = code]
                 /\ Goto(w, "settle")
                 /\ UNCHANGED driveVars
  /\ UNCHANGED <<storeVars, snap, draft, seen>>

(* Mutants of Verdict: a refusal taken for "never sent"; a stale envelope   *)
(* taken for a failure.                                                     *)
Verdict_BackToSigned(code) ==
  IF code \in ACCEPTED THEN "broadcast" ELSE IF code \in HARD_REJECT THEN "failed" ELSE "signed"

Verdict_StaleFails(code) ==
  IF code \in ACCEPTED THEN "broadcast"
  ELSE IF code \in HARD_REJECT \cup STALE_ENVELOPE THEN "failed"
  ELSE "broadcasting"

(* _settle_broadcast_result. Every code no table lists is ambiguous and    *)
(* leaves the row where it was, as a stale envelope does.                  *)
Verdict(code) ==
  IF code \in ACCEPTED THEN "broadcast"
  ELSE IF code \in HARD_REJECT THEN "failed"
  ELSE "broadcasting"

Settle(w) ==
  /\ pc[w] = "settle"
  /\ IF answer[w] \in RETRY_SAME_BYTES
       THEN Park(w)
       ELSE WriteAndReturn(w, Committed(RowOf(w), Verdict(answer[w])))
  /\ answer' = [answer EXCEPT ![w] = NoAnswer]
  /\ UNCHANGED <<draft, seen>>

(* find_tx timed out: both callers return the operation as it was. *)
QueryTimeout(w) ==
  /\ AtStep(w, {"broadcasting", "broadcast"})
  /\ Park(w)
  /\ UNCHANGED localVars

(* _reconcile_broadcast: the node knows the transaction. *)
LookupFound(w) ==
  /\ AtStep(w, {"broadcasting"})
  /\ find_tx(op(w).signed) \in {"included", "pending"}
  /\ Goto(w, "found")
  /\ UNCHANGED <<now, nodeVars, storeVars, driveVars, snap, localVars>>

MarkBroadcast(w) ==
  /\ pc[w] = "found"
  /\ WriteAndReturn(w, Committed(RowOf(w), "broadcast"))
  /\ UNCHANGED localVars

(* _await_confirmation: pending, or in a block that is not solid. *)
AwaitSolidity(w) ==
  /\ AtStep(w, {"broadcast"})
  /\ LET t == op(w).signed IN
       \/ find_tx(t) = "pending"
       \/ find_tx(t) = "included" /\ ~IsSolid(t)
  /\ Park(w)
  /\ UNCHANGED localVars

(* Mutant: any inclusion will do. *)
LookupSolid_Included(w) ==
  /\ AtStep(w, {"broadcast"})
  /\ find_tx(op(w).signed) = "included"
  /\ answer' = [answer EXCEPT ![w] = txs[op(w).signed].receipt]
  /\ Goto(w, "confirm")
  /\ UNCHANGED <<now, nodeVars, storeVars, driveVars, snap, draft, seen>>

LookupSolid(w) ==
  /\ AtStep(w, {"broadcast"})
  /\ find_tx(op(w).signed) = "included" /\ IsSolid(op(w).signed)
  /\ answer' = [answer EXCEPT ![w] = txs[op(w).signed].receipt]
  /\ Goto(w, "confirm")
  /\ UNCHANGED <<now, nodeVars, storeVars, driveVars, snap, draft, seen>>

(* Mutant: a solid transaction is a success, whatever its receipt. *)
Confirm_AnyReceipt(w) ==
  /\ pc[w] = "confirm"
  /\ WriteAndReturn(w, Committed(RowOf(w), "confirmed"))
  /\ answer' = [answer EXCEPT ![w] = NoAnswer]
  /\ UNCHANGED <<draft, seen>>

Confirm(w) ==
  /\ pc[w] = "confirm"
  /\ WriteAndReturn(w, Committed(RowOf(w), IF answer[w] = "SUCCESS" THEN "confirmed" ELSE "failed"))
  /\ answer' = [answer EXCEPT ![w] = NoAnswer]
  /\ UNCHANGED <<draft, seen>>

LookupUnknown(w) ==
  /\ AtStep(w, {"broadcasting", "broadcast"})
  /\ find_tx(op(w).signed) = "unknown"
  /\ seen' = [seen EXCEPT ![w] = blockTime[head]]
  /\ Goto(w, "proof")
  /\ UNCHANGED <<now, nodeVars, storeVars, driveVars, snap, draft, answer>>

(* Mutants: the deadline without its margin; the wall clock for chain time. *)
proof_of_death_NoMargin(w) == solid_now >= op(w).signed.exp

proof_of_death_WallClock(w) == now >= op(w).signed.exp + Margin

(* _proof_of_death reads the solid chain time, after the caller's lookup. *)
proof_of_death(w) == solid_now >= op(w).signed.exp + Margin

RebuildDead(w) ==
  /\ pc[w] = "proof" /\ proof_of_death(w)
  /\ Rebuild(w)
  /\ seen' = [seen EXCEPT ![w] = 0]
  /\ UNCHANGED <<draft, answer>>

(* Not provably dead: a sender re-sends, a waiter waits. *)
NotDead(w) ==
  /\ pc[w] = "proof" /\ ~proof_of_death(w)
  /\ \/ /\ op(w).state = "broadcasting"
        /\ Goto(w, "send")
        /\ UNCHANGED <<now, nodeVars, storeVars, driveVars, snap>>
     \/ op(w).state = "broadcast" /\ Park(w)
  /\ seen' = [seen EXCEPT ![w] = 0]
  /\ UNCHANGED <<draft, answer>>

(* The handler's next access is a _cas. *)
AtCas(w) ==
  \/ AtStep(w, {"requested", "validated", "signed"})
  \/ AtBuild(w) /\ GaveUp(w)
  \/ pc[w] \in {"persist", "sign", "ahead", "found", "confirm"}
  \/ pc[w] = "settle" /\ answer[w] \notin RETRY_SAME_BYTES
  \/ pc[w] = "proof" /\ proof_of_death(w)

(* The handler's next access is a _cas into a terminal state. *)
AtVerdict(w) ==
  \/ AtBuild(w) /\ GaveUp(w)
  \/ pc[w] = "settle" /\ answer[w] \in HARD_REJECT
  \/ pc[w] = "confirm"

Forget(w) ==
  /\ draft' = [draft EXCEPT ![w] = NoTx]
  /\ answer' = [answer EXCEPT ![w] = NoAnswer]
  /\ seen' = [seen EXCEPT ![w] = 0]

(* _cas matched no row: the worker drops the operation where it stands. *)
LostClaim(w) ==
  /\ AtCas(w) /\ ~CasHit(w)
  /\ ~(AtVerdict(w) /\ CasRaises("failed"))
  /\ NextOp(w)
  /\ snap' = [snap EXCEPT ![w][cur[w]] = NoRow]
  /\ Forget(w)
  /\ UNCHANGED <<now, nodeVars, storeVars>>

(* The connection fails under a _cas: before its commit, or after it, when *)
(* the row is already where the worker's next access would find it.        *)
ConnectionLost(w) ==
  /\ StoreFails
  /\ \/ AtCas(w)
     \/ pc[w] \in {"build", "sign", "send"}
     \/ pc[w] = "step" /\ steps[w] > 0

(* _cas raises: the unique index refuses a txid, the database refuses a    *)
(* terminal write before it looks for the row, or its connection fails. The *)
(* breadcrumb _drive then leaves touches last_error only, and does not     *)
(* renew the lease.                                                        *)
HandlerError(w) ==
  /\ \/ pc[w] = "persist" /\ CasHit(w) /\ TxidTaken(cur[w], draft[w])
     \/ (AtStep(w, {"requested"}) \/ AtVerdict(w)) /\ CasRaises("failed")
     \/ ConnectionLost(w)
  /\ Goto(w, "release")
  /\ Forget(w)
  /\ UNCHANGED <<now, nodeVars, storeVars, driveVars, snap>>

Release(w) ==
  /\ pc[w] = "release"
  /\ release(cur[w], op(w).token)
  /\ NextOp(w)
  /\ snap' = [snap EXCEPT ![w][cur[w]] = NoRow]
  /\ UNCHANGED <<now, nodeVars, localVars>>

(* The process dies, or an exception leaves run_once: whoever comes next   *)
(* starts with an empty memory.                                            *)
Crash(w) ==
  /\ pc[w] # "idle"
  /\ Goto(w, "idle")
  /\ cur' = [cur EXCEPT ![w] = NoOp]
  /\ mine' = [mine EXCEPT ![w] = {}]
  /\ snap' = [snap EXCEPT ![w] = [o \in Ops |-> NoRow]]
  /\ before' = [before EXCEPT ![w] = "absent"]
  /\ steps' = [steps EXCEPT ![w] = 0]
  /\ Forget(w)
  /\ UNCHANGED <<now, nodeVars, storeVars>>

-----------------------------------------------------------------------------
(*                       Intake, clock and chain                           *)

Submit(o) == insert_new(o) /\ UNCHANGED <<now, nodeVars, workerVars>>

ClockTick == Tick /\ UNCHANGED <<storeVars, workerVars>>

(* The chain does not get more than MaxStall ahead of a worker that has    *)
(* looked a transaction up and not yet read the solid chain time. The code *)
(* does not enforce this: MaxStall makes the assumption explicit.          *)
PromptProofs == \A w \in Workers : pc[w] = "proof" => NextBlockTime <= seen[w] + MaxStall

MineBlock == PromptProofs /\ produce_block /\ UNCHANGED <<storeVars, workerVars>>

WorkerStep(w) ==
  \/ Claim(w) \/ Validate(w) \/ BeginSigning(w) \/ GiveUp(w) \/ BuildEnvelope(w)
  \/ PersistEnvelope(w) \/ HandlerError(w) \/ Sign(w) \/ RebuildUnsent(w)
  \/ CheckExpiry(w) \/ WriteAhead(w) \/ Send(w) \/ Settle(w) \/ QueryTimeout(w) \/ LookupFound(w)
  \/ MarkBroadcast(w) \/ AwaitSolidity(w) \/ LookupSolid(w) \/ Confirm(w)
  \/ LookupUnknown(w) \/ RebuildDead(w) \/ NotDead(w) \/ LostClaim(w) \/ Release(w)

SluiceNext ==
  \/ \E o \in Ops : Submit(o)
  \/ \E w \in Workers : WorkerStep(w) \/ Crash(w)
  \/ ClockTick
  \/ MineBlock

Spec == SluiceInit /\ [][SluiceNext]_vars

-----------------------------------------------------------------------------
(*                              Properties                                 *)

(* Every variable keeps the type the code's annotations give it. *)
TypeOK ==
  /\ NodeTypeOK
  /\ rows \in [Ops -> Rows]
  /\ arrival \in [Ops -> SUBSET Ops]
  /\ all_txids \in [Ops -> SUBSET Txids]
  /\ writeAhead \in [Ops -> SUBSET Txids]
  /\ pc \in [Workers -> Labels]
  /\ cur \in [Workers -> Ops \cup {NoOp}]
  /\ mine \in [Workers -> SUBSET Ops]
  /\ snap \in [Workers -> [Ops -> Rows]]
  /\ before \in [Workers -> OpState \cup {"absent"}]
  /\ steps \in [Workers -> Nat]
  /\ draft \in [Workers -> Txids \cup {NoTx}]
  /\ answer \in [Workers -> BroadcastCode \cup Receipts \cup {NoAnswer}]
  /\ seen \in [Workers -> Nat]

(* Fencing. A worker's copy is never ahead of the row; under the current    *)
(* token it equals the row, so a cas can fail on its token only, never on   *)
(* its from_state alone; and no two workers hold the same token of a row    *)
(* (claim's token + 1 and the token compare in cas).                        *)
SingleWriter ==
  \A w \in Workers : \A o \in mine[w] :
    /\ snap[w][o].token <= rows[o].token
    /\ snap[w][o].token = rows[o].token => snap[w][o] = rows[o]
    /\ \A v \in Workers \ {w} : o \in mine[v] => snap[v][o].token # snap[w][o].token

(* From the signature to the verdict the row carries one envelope: the      *)
(* signed bytes are those of the txid column, they pay what this operation  *)
(* asked for, and the event log holds the txid (the handlers hand           *)
(* op.signed_tx to the node without looking again).                         *)
EnvelopeCoherent ==
  \A o \in Ops : rows[o].state \in {"signed", "broadcasting", "broadcast", "confirmed"} =>
    /\ rows[o].signed = rows[o].txid
    /\ rows[o].txid \in all_txids[o]
    /\ rows[o].txid.pay = Pay[o]
    /\ rows[o].state # "signed" => rows[o].txid \in writeAhead[o]

(* Nothing reaches the node that the log does not hold as a write-ahead,    *)
(* and a worker about to send has its write-ahead behind it, whatever has   *)
(* happened to the row since (_broadcast's write-ahead rule).               *)
NoOrphanSends ==
  /\ \A t \in DOMAIN txs : \E o \in Ops : t \in writeAhead[o]
  /\ \A w \in Workers : pc[w] = "send" => op(w).signed \in writeAhead[cur[w]]

(* "an envelope in `signed` has NEVER been broadcast": the reason why       *)
(* _broadcast may retire an expired envelope without a proof of death. (If  *)
(* the clock stood still while the chain ran past the deadline, a rebuild   *)
(* can repeat a txid; then it is dead.)                                     *)
SignedNeverSent ==
  \A o \in Ops : rows[o].state = "signed" =>
    rows[o].signed \notin DOMAIN txs \/ Dead(rows[o].signed)

(* An envelope that may have been sent and is no longer the row's own is    *)
(* dead: it is in no block and can be in none (_rebuild's precondition).    *)
RetiredStaysDead ==
  \A o \in Ops : \A t \in writeAhead[o] : t # rows[o].signed => Dead(t)

(* At most one of the envelopes an operation ever committed to send is in a *)
(* block: the money moves at most once.                                     *)
AtMostOneLanded ==
  \A o \in Ops : \A t, u \in writeAhead[o] : Landed(t) /\ Landed(u) => t = u

Paid(t) == Landed(t) /\ txs[t].receipt = "SUCCESS"

(* A confirmed operation is one the chain has paid; a failed or rejected    *)
(* one is never paid, not even after the verdict.                           *)
VerdictMatchesChain ==
  \A o \in Ops :
    /\ rows[o].state = "confirmed" => Paid(rows[o].txid)
    /\ rows[o].state \in {"failed", "rejected"} => \A t \in writeAhead[o] : ~Paid(t)

(* An operation is settled by a receipt only when the block that holds the  *)
(* receipt is solid (_await_confirmation): an inclusion alone is no verdict. *)
VerdictIsFinal ==
  \A o \in Ops : rows[o].state \in {"confirmed", "failed"} =>
    \A t \in writeAhead[o] : Landed(t) => txs[t].block <= head - SolidityLag

(* A transfer on the chain pays for one operation: no two have committed to *)
(* send the transaction that is in a block. A txid does not name its        *)
(* operation and the unique index sees current rows only, so this rests on  *)
(* what is retired being dead as much as on the index.                      *)
OneTransferEach ==
  \A o, p \in Ops : o # p => \A t \in writeAhead[o] \cap writeAhead[p] : ~Landed(t)

(* "each accepted tx belongs to exactly one operation's history".           *)
OneOwner ==
  \A t \in DOMAIN txs : \A o, p \in Ops : t \in all_txids[o] /\ t \in all_txids[p] => o = p

(* "A txid belongs to at most one operation, ever": no txid is in the event *)
(* logs of two operations (the comment on the partial unique index).        *)
TxidForever == \A o, p \in Ops : o # p => all_txids[o] \cap all_txids[p] = {}

(* Every write is a pair of states.py's table and of the SQL trigger's      *)
(* list: cas raises no IllegalTransition, the trigger refuses no UPDATE,    *)
(* and a terminal row is never written again.                               *)
LegalTransitions ==
  [][\A o \in Ops : rows[o].state # "absent" /\ rows'[o] # rows[o] =>
       /\ can_transition(rows[o].state, rows'[o].state)
       /\ op_transition_guard(rows[o].state, rows'[o].state)]_vars

(* "cas() ... applies iff (operation_id, fencing_token, state) all still    *)
(* match": a worker that has read a solid receipt and still owns the row    *)
(* settles the operation, unless it dies first.                             *)
OwnerSettles ==
  [][\A w \in Workers : pc[w] = "confirm" /\ CasHit(w) =>
       pc'[w] = "confirm" \/ rows'[cur[w]].state \in TERMINAL \/ Crash(w)]_vars

(* "the fenced worker never reaches the network at all": whoever calls      *)
(* node.broadcast holds the row's current token.                            *)
FencedOffTheWire ==
  [][\A w \in Workers : Send(w) => op(w).token = rows[cur[w]].token]_vars

(* "a worker whose lease was stolen writes precisely nothing": a worker     *)
(* that moves under an old token, through a cas, a release or an exception, *)
(* leaves every row and the log as they are.                                *)
ZombieWritesNothing ==
  [][\A w \in Workers :
       /\ pc[w] # "idle"
       /\ op(w).token # rows[cur[w]].token
       /\ <<pc[w], cur[w], mine[w], before[w], steps[w]>>'
            # <<pc[w], cur[w], mine[w], before[w], steps[w]>>
       => UNCHANGED storeVars]_vars
=============================================================================
