----------------------- MODULE ProgressHandlerProofs ------------------------
(***************************************************************************)
(* Sluice over the memory store read as Progress, second part: every       *)
(* handler of the pipeline, and the send, is the handler of Progress of    *)
(* the same name.                                                          *)
(***************************************************************************)
EXTENDS ProgressStepProofs

\* Zenon takes every leaf that names no other prover.
USE Zenon

-----------------------------------------------------------------------------
(*                         The handlers that write                         *)

(* The owner at a label of the ready phase. *)
LEMMA ReadyOwner ==
  ASSUME FencingInv, NEW w \in Workers, NEW to, NEW n, NEW s, Wrote(w, to, n, s),
         pc[w] \in {"step", "build", "persist", "sign", "ahead", "found", "confirm"},
         NEW states, rows[cur[w]].state \in states
  PROVE  Untimed!At(w, "ready", states)
<1>1. op(w).token = RowOf(w).token /\ cur[w] \in Ops /\ pc[w] # "idle"
  BY DEF Wrote, RowOf
<1>2. Phases[w] = "ready"
  BY <1>1, PhaseAt DEF Phases
<1>3. RowStates[cur[w]] = rows[cur[w]].state
  BY <1>1 DEF RowStates
<1>4. QED
  BY <1>2, <1>3 DEF Untimed!At

LEMMA SameAttempts ==
  ASSUME NEW w, cur[w] \in Ops, RowAttempts' = [RowAttempts EXCEPT ![cur[w]] = rows[cur[w]].attempts]
  PROVE  RowAttempts' = RowAttempts
BY DEF RowAttempts

LEMMA ValidateIsValidate ==
  ASSUME StoreKind = "memory", LeaseRuns, FencingInv, FencingInv', NEW w \in Workers, Validate(w)
  PROVE  Untimed!Validate(w)
<1>1. PICK to \in {"validated", "rejected"} :
        /\ Wrote(w, to, rows[cur[w]].attempts, rows[cur[w]].signed) /\ StepReturned(w, to)
  BY CasWrote
<1>2. pc[w] = "step" /\ cur[w] \in Ops /\ rows[cur[w]].state = "requested"
  BY <1>1 DEF Validate, AtStep, Wrote
<1>3. Aside(w)
  BY StepAside DEF WorkerStep
<1>4. Untimed!WriteAndReturn(w, to) /\ RowAttempts' = RowAttempts
  BY <1>1, <1>2, <1>3, WroteAndReturned, SameAttempts
<1>5. RowEnvelopes' = RowEnvelopes
  <2>1. to \notin InFlight /\ rows[cur[w]].state \notin InFlight
    BY <1>2 DEF InFlight
  <2>2. QED
    BY <1>1, <2>1, StillNoEnvelope
<1>6. Untimed!At(w, "ready", {"requested"})
  BY <1>1, <1>2, ReadyOwner
<1>7. QED
  BY <1>4, <1>5, <1>6 DEF Untimed!Validate

LEMMA BeginSigningIsBeginSigning ==
  ASSUME StoreKind = "memory", LeaseRuns, FencingInv, FencingInv', ProgressInv,
         NEW w \in Workers, BeginSigning(w) \/ PersistEnvelope(w)
  PROVE  Untimed!BeginSigning(w)
<1>1. PICK s : Wrote(w, "signing", rows[cur[w]].attempts, s)
  BY CasWrote, PersistWrote
<1>2. PICK label : label \in {"build", "sign"} /\ Goto(w, label) /\ UNCHANGED driveVars
  BY DEF BeginSigning, PersistEnvelope
<1>3. /\ cur[w] \in Ops /\ op(w) = rows[cur[w]] /\ pc[w] \in {"step", "persist"}
      /\ rows[cur[w]].state \in {"validated", "signing"}
  BY <1>1, PersistWrote DEF BeginSigning, PersistEnvelope, AtStep, Wrote
<1>4. Aside(w)
  BY StepAside DEF WorkerStep
<1>5. /\ Untimed!Write(w, "signing")
      /\ RowAttempts' = [RowAttempts EXCEPT ![cur[w]] = rows[cur[w]].attempts]
      /\ \A v \in Workers \ {w} : PhaseOf(v)' = PhaseOf(v)
      /\ op(w)' = RowOf(w)'
  <2>1. "signing" \notin TERMINAL /\ UNCHANGED driveVars
    BY <1>2, States
  <2>2. QED
    BY <1>1, <1>4, <2>1, WroteAndWent
<1>6. RowAttempts' = RowAttempts /\ RowEnvelopes' = RowEnvelopes
  <2>1. "signing" \notin InFlight /\ rows[cur[w]].state \notin InFlight
    BY <1>3 DEF InFlight
  <2>2. QED
    BY <1>1, <1>3, <1>5, <2>1, SameAttempts, StillNoEnvelope
<1>7. Untimed!At(w, "ready", {"validated", "signing"})
  BY <1>1, <1>3, ReadyOwner
<1>8. PhaseOf(w)' = PhaseOf(w)
  <2>1. PhaseOf(w)' = "ready"
    <3>1. pc'[w] \in {"build", "sign"}
      BY <1>2 DEF Goto, FencingInv, TypeOK
    <3>2. QED
      BY <1>5, <3>1, PhaseAtNext
  <2>2. QED
    BY <1>7, <2>1 DEF Untimed!At, Phases
<1>9. Phases' = Phases
  BY <1>5, <1>8 DEF Phases
<1>10. RowStates[cur[w]] = "signing" => RowAttempts[cur[w]] < MaxBuildAttempts
  <2>1. rows[cur[w]].state = "signing" => pc[w] = "persist"
    BY <1>3 DEF BeginSigning, AtStep, PersistEnvelope
  <2>2. pc[w] = "persist" => rows[cur[w]].attempts < MaxBuildAttempts
    BY <1>3 DEF ProgressInv, ThreadOf
  <2>3. QED
    BY <1>3, <2>1, <2>2 DEF RowStates, RowAttempts
<1>11. QED
  BY <1>2, <1>5, <1>6, <1>7, <1>9, <1>10 DEF Untimed!BeginSigning, Untimed!loopVars, driveVars

LEMMA GiveUpIsGiveUp ==
  ASSUME StoreKind = "memory", LeaseRuns, FencingInv, FencingInv', NEW w \in Workers, GiveUp(w)
  PROVE  Untimed!GiveUp(w)
<1>1. /\ Wrote(w, "failed", rows[cur[w]].attempts, rows[cur[w]].signed) /\ StepReturned(w, "failed")
      /\ ControlOf(w)
  BY CasWrote DEF FencingInv, Control
<1>2. /\ pc[w] \in {"step", "build"} /\ cur[w] \in Ops /\ rows[cur[w]].state = "signing"
      /\ rows[cur[w]].attempts >= MaxBuildAttempts
  BY <1>1 DEF GiveUp, GaveUp, AtBuild, AtStep, Wrote, ControlOf
<1>3. Aside(w)
  BY StepAside DEF WorkerStep
<1>4. Untimed!WriteAndReturn(w, "failed") /\ RowAttempts' = RowAttempts
  BY <1>1, <1>2, <1>3, WroteAndReturned, SameAttempts
<1>5. RowEnvelopes' = RowEnvelopes
  <2>1. "failed" \notin InFlight /\ rows[cur[w]].state \notin InFlight
    BY <1>2 DEF InFlight
  <2>2. QED
    BY <1>1, <2>1, StillNoEnvelope
<1>6. Untimed!At(w, "ready", {"signing"}) /\ RowAttempts[cur[w]] >= MaxBuildAttempts
  BY <1>1, <1>2, ReadyOwner DEF RowAttempts
<1>7. QED
  BY <1>4, <1>5, <1>6 DEF Untimed!GiveUp

(* An envelope as it is when it is signed: unknown to the node, or dead. *)
LEMMA NewEnvelope ==
  ASSUME StoreKind = "memory", DistinctTxids, FencingInv, MoneyInv, ProgressInv,
         NEW o \in Ops, NEW t \in Txids, rows[o].signed # t, t.pay = Pay[o]
  PROVE  [fate |-> FateOf(t), expired |-> t.exp <= now, provable |-> Provable(t)]
           \in Untimed!NewEnvelopes
<1> DEFINE e == [fate |-> FateOf(t), expired |-> t.exp <= now, provable |-> Provable(t)]
<1>1. FateOf(t) = "unsent" \/ (FateOf(t) = "accepted" /\ Provable(t))
  <2>1. CASE t \notin DOMAIN txs
    BY <2>1, FateReads
  <2>2. CASE t \in DOMAIN txs
    <3>1. PICK p \in Ops : t \in writeAhead[p]
      BY <2>2 DEF MoneyInv, LedgerInv, SentWasLogged
    <3>2. t.pay = Pay[p]
      BY <3>1 DEF ProgressInv, RetiredProvable
    <3>3. p = o
      BY <3>2 DEF DistinctTxids
    <3>4. ~Landed(t)
      BY <3>1, <3>3 DEF MoneyInv, LedgerInv, RetiredStaysDead, Dead
    <3>5. Provable(t)
      BY <3>1, <3>3 DEF ProgressInv, RetiredProvable
    <3>6. QED
      BY <2>2, <3>4, <3>5, FateReads
  <2>3. QED
    BY <2>1, <2>2
<1>2. (t.exp <= now) \in BOOLEAN /\ Provable(t) \in BOOLEAN
  BY SMT DEF Provable
<1>3. e.fate = FateOf(t) /\ e.provable = Provable(t)
  OBVIOUS
<1>4. e \in Untimed!Envelopes
  BY <1>2, FateReads DEF Untimed!Envelopes, Untimed!Fates
<1>5. QED
  BY <1>1, <1>3, <1>4 DEF Untimed!NewEnvelopes

LEMMA SignIsSign ==
  ASSUME StoreKind = "memory", LeaseRuns, DistinctTxids, FencingInv, FencingInv', MoneyInv,
         ProgressInv, NEW w \in Workers, Sign(w)
  PROVE  Untimed!Sign(w)
<1> DEFINE t == op(w).txid
<1>1. /\ Wrote(w, "signed", rows[cur[w]].attempts, t) /\ StepReturned(w, "signed")
      /\ rows[cur[w]].state = "signing" /\ pc[w] = "sign"
  BY SignWrote DEF Sign
<1>2. cur[w] \in Ops /\ op(w) = rows[cur[w]]
  BY <1>1 DEF Wrote
<1>3. t # NoTx /\ op(w).attempts < MaxBuildAttempts
  BY <1>1 DEF FencingInv, Control, ControlOf, ProgressInv, ThreadOf
<1>4. t \in Txids /\ t.pay = Pay[cur[w]] /\ rows[cur[w]].signed = NoTx /\ rows[cur[w]].signed # t
  <2>1. RowGood(rows[cur[w]], Pay[cur[w]], all_txids[cur[w]], writeAhead[cur[w]])
    BY <1>2 DEF FencingInv, Coherent
  <2>2. rows[cur[w]] \in Rows
    BY <1>2 DEF FencingInv, TypeOK
  <2>3. t \in Txids
    BY <1>2, <1>3, <2>2, SMT DEF Rows
  <2>4. QED
    BY <1>1, <1>2, <1>3, <2>1, <2>3 DEF RowGood
<1>5. Aside(w)
  BY StepAside DEF WorkerStep
<1> HIDE DEF t
<1>6. Untimed!WriteAndReturn(w, "signed") /\ RowAttempts' = RowAttempts
  BY <1>1, <1>2, <1>5, WroteAndReturned, SameAttempts
<1>7. RowEnvelopes' = [RowEnvelopes EXCEPT ![cur[w]] =
         [fate |-> FateOf(t), expired |-> t.exp <= now, provable |-> Provable(t)]]
  <2>1. "signed" \in InFlight
    BY DEF InFlight
  <2>2. QED
    BY <1>1, <2>1, EnvelopeSet
<1>8. [fate |-> FateOf(t), expired |-> t.exp <= now, provable |-> Provable(t)]
         \in Untimed!NewEnvelopes
  BY <1>2, <1>4, NewEnvelope
<1>9. \E e \in Untimed!NewEnvelopes : RowEnvelopes' = [RowEnvelopes EXCEPT ![cur[w]] = e]
  BY <1>7, <1>8
<1>10. Untimed!At(w, "ready", {"signing"})
  BY <1>1, ReadyOwner
<1>11. RowAttempts[cur[w]] < MaxBuildAttempts
  BY <1>2, <1>3 DEF RowAttempts
<1>12. QED
  BY <1>6, <1>9, <1>10, <1>11 DEF Untimed!Sign

LEMMA RebuildIsRebuild ==
  ASSUME StoreKind = "memory", LeaseRuns, FencingInv, FencingInv',
         NEW w \in Workers, WorkerStep(w), pc[w] # "idle", Rebuild(w)
  PROVE  Untimed!Rebuild(w)
<1>1. Wrote(w, "signing", rows[cur[w]].attempts + 1, NoTx) /\ StepReturned(w, "signing")
  BY RebuildWrote
<1>2. cur[w] \in Ops
  BY <1>1 DEF Wrote
<1>3. /\ Untimed!WriteAndReturn(w, "signing")
      /\ RowAttempts' = [RowAttempts EXCEPT ![cur[w]] = rows[cur[w]].attempts + 1]
  BY <1>1, StepAside, WroteAndReturned
<1>4. RowEnvelopes' = [RowEnvelopes EXCEPT ![cur[w]] = Untimed!NoEnvelope]
  <2>1. "signing" \notin InFlight
    BY DEF InFlight
  <2>2. QED
    BY <1>1, <2>1, EnvelopeGone
<1>5. RowAttempts' = [RowAttempts EXCEPT ![cur[w]] = @ + 1]
  BY <1>2, <1>3 DEF RowAttempts
<1>6. QED
  BY <1>3, <1>4, <1>5 DEF Untimed!Rebuild

(* The deadline of an envelope in flight and the clocks are numbers. *)
LEMMA Deadline ==
  ASSUME FencingInv, NEW w \in Workers, pc[w] # "idle", op(w).state \in InFlight
  PROVE  now >= op(w).signed.exp <=> op(w).signed.exp <= now
<1>1. op(w).signed \in Txids
  BY SignedEnvelope DEF InFlight
<1>2. op(w).signed.exp \in Nat /\ now \in Nat
  BY <1>1 DEF Txids, FencingInv, TypeOK, NodeTypeOK
<1>3. QED
  BY <1>2, SMT

LEMMA RebuildUnsentIsRebuildUnsent ==
  ASSUME StoreKind = "memory", LeaseRuns, FencingInv, FencingInv',
         NEW w \in Workers, RebuildUnsent(w)
  PROVE  Untimed!RebuildUnsent(w)
<1>1. pc[w] = "step" /\ op(w).state = "signed" /\ now >= op(w).signed.exp /\ Rebuild(w)
  BY DEF RebuildUnsent, AtStep
<1>2. Wrote(w, "signing", rows[cur[w]].attempts + 1, NoTx)
  BY <1>1, RebuildWrote
<1>3. cur[w] \in Ops /\ op(w) = rows[cur[w]]
  BY <1>2 DEF Wrote
<1>4. op(w).state \in InFlight
  BY <1>1 DEF InFlight
<1>5. RowEnvelopes[cur[w]].expired
  <2>1. rows[cur[w]].signed.exp <= now
    BY <1>1, <1>3, <1>4, Deadline
  <2>2. RowEnvelopes[cur[w]].expired <=> rows[cur[w]].signed.exp <= now
    BY <1>3, <1>4, EnvelopeReads
  <2>3. QED
    BY <2>1, <2>2
<1>6. Untimed!At(w, "ready", {"signed"})
  BY <1>1, <1>2, <1>3, ReadyOwner
<1>7. Untimed!Rebuild(w)
  BY <1>1, RebuildIsRebuild DEF WorkerStep
<1>8. QED
  BY <1>5, <1>6, <1>7 DEF Untimed!RebuildUnsent

LEMMA RebuildDeadIsRebuildDead ==
  ASSUME StoreKind = "memory", LeaseRuns, FencingInv, FencingInv',
         NEW w \in Workers, RebuildDead(w)
  PROVE  Untimed!RebuildDead(w)
<1>1. pc[w] = "proof" /\ proof_of_death(w) /\ Rebuild(w) /\ op(w).state \in InFlight
  BY DEF RebuildDead, FencingInv, Control, ControlOf, InFlight
<1>2. Wrote(w, "signing", rows[cur[w]].attempts + 1, NoTx)
  BY <1>1, RebuildWrote
<1>3. cur[w] \in Ops /\ op(w) = rows[cur[w]]
  BY <1>2 DEF Wrote
<1>4. RowEnvelopes[cur[w]].provable
  <2>1. Provable(rows[cur[w]].signed)
    BY <1>1, <1>3 DEF proof_of_death, Provable
  <2>2. RowEnvelopes[cur[w]].provable <=> Provable(rows[cur[w]].signed)
    BY <1>1, <1>3, EnvelopeReads
  <2>3. QED
    BY <2>1, <2>2
<1>5. Phases[w] = "unknown"
  BY <1>1, <1>3, PhaseAt DEF Phases, RowOf
<1>6. Untimed!Rebuild(w)
  BY <1>1, RebuildIsRebuild DEF WorkerStep
<1>7. QED
  BY <1>4, <1>5, <1>6 DEF Untimed!RebuildDead

LEMMA WriteAheadIsWriteAhead ==
  ASSUME StoreKind = "memory", LeaseRuns, FencingInv, FencingInv', ProgressInv,
         NEW w \in Workers, WriteAhead(w)
  PROVE  Untimed!WriteAhead(w)
<1>1. /\ Wrote(w, "broadcasting", rows[cur[w]].attempts, rows[cur[w]].signed)
      /\ pc[w] = "ahead" /\ op(w).state = "signed"
      /\ Goto(w, "send") /\ UNCHANGED driveVars
  BY CasWrote DEF WriteAhead, FencingInv, Control, ControlOf
<1>2. cur[w] \in Ops /\ op(w) = rows[cur[w]]
  BY <1>1 DEF Wrote
<1>3. op(w).state \in InFlight /\ "broadcasting" \in InFlight /\ "broadcasting" \notin TERMINAL
  BY <1>1, States DEF InFlight
<1>4. Untimed!At(w, "ready", {"signed"})
  BY <1>1, <1>2, ReadyOwner
<1>5. Aside(w)
  BY StepAside DEF WorkerStep
<1>6. /\ Untimed!Write(w, "broadcasting")
      /\ RowAttempts' = [RowAttempts EXCEPT ![cur[w]] = rows[cur[w]].attempts]
      /\ \A v \in Workers \ {w} : PhaseOf(v)' = PhaseOf(v)
      /\ op(w)' = RowOf(w)'
  BY <1>1, <1>3, <1>5, WroteAndWent
<1>7. RowAttempts' = RowAttempts /\ RowEnvelopes' = RowEnvelopes
  BY <1>1, <1>2, <1>3, <1>6, SameAttempts, SameEnvelope
<1>8. PhaseOf(w)' = "send"
  <2>1. before'[w] = "signed" /\ pc'[w] = "send"
    BY <1>1 DEF ProgressInv, ThreadOf, driveVars, Goto, FencingInv, TypeOK
  <2>2. QED
    BY <1>6, <2>1, PhaseAtNext
<1>9. Phases' = [Phases EXCEPT ![w] = "send"]
  BY <1>6, <1>8, OnePhase
<1>10. QED
  BY <1>1, <1>4, <1>6, <1>7, <1>9 DEF Untimed!WriteAhead, Untimed!Enter, driveVars

LEMMA MarkBroadcastIsMarkBroadcast ==
  ASSUME StoreKind = "memory", LeaseRuns, FencingInv, FencingInv', ProgressInv,
         NEW w \in Workers, MarkBroadcast(w)
  PROVE  Untimed!MarkBroadcast(w)
<1>1. /\ Wrote(w, "broadcast", rows[cur[w]].attempts, rows[cur[w]].signed)
      /\ StepReturned(w, "broadcast") /\ pc[w] = "found" /\ op(w).state = "broadcasting"
      /\ op(w).signed \in DOMAIN txs
  BY CasWrote DEF MarkBroadcast, FencingInv, Control, ControlOf, ProgressInv, ThreadOf
<1>2. cur[w] \in Ops /\ op(w) = rows[cur[w]] /\ Aside(w)
  BY <1>1, StepAside DEF Wrote, WorkerStep
<1>3. op(w).state \in InFlight /\ "broadcast" \in InFlight
  BY <1>1 DEF InFlight
<1>4. RowEnvelopes[cur[w]].fate \in {"accepted", "included", "solid"}
  <2>1. RowEnvelopes[cur[w]].fate = FateOf(op(w).signed)
    BY <1>2, <1>3, EnvelopeReads
  <2>2. QED
    BY <1>1, <2>1, FateReads
<1>5. Untimed!At(w, "ready", {"broadcasting"})
  BY <1>1, <1>2, ReadyOwner
<1>6. Untimed!WriteAndReturn(w, "broadcast") /\ RowAttempts' = RowAttempts
  BY <1>1, <1>2, WroteAndReturned, SameAttempts
<1>7. RowEnvelopes' = RowEnvelopes
  BY <1>1, <1>2, <1>3, SameEnvelope
<1>8. QED
  BY <1>4, <1>5, <1>6, <1>7 DEF Untimed!MarkBroadcast

LEMMA ConfirmIsConfirm ==
  ASSUME StoreKind = "memory", LeaseRuns, FencingInv, FencingInv', MoneyInv,
         NEW w \in Workers, Confirm(w)
  PROVE  Untimed!Confirm(w)
<1>1. PICK to \in {"confirmed", "failed"} :
        /\ Wrote(w, to, rows[cur[w]].attempts, rows[cur[w]].signed)
        /\ StepReturned(w, to)
  BY CasWrote
<1>2. /\ pc[w] = "confirm" /\ op(w).state = "broadcast"
      /\ Landed(op(w).signed) /\ IsSolid(op(w).signed)
  BY DEF Confirm, FencingInv, Control, ControlOf, MoneyInv, AnswerBacked
<1>3. cur[w] \in Ops /\ op(w) = rows[cur[w]] /\ Aside(w)
  BY <1>1, StepAside DEF Wrote, WorkerStep
<1>4. op(w).state \in InFlight /\ to \notin InFlight
  BY <1>2 DEF InFlight
<1>5. RowEnvelopes[cur[w]].fate = "solid"
  <2>1. RowEnvelopes[cur[w]].fate = FateOf(op(w).signed)
    BY <1>3, <1>4, EnvelopeReads
  <2>2. QED
    BY <1>2, <2>1, FateReads
<1>6. Untimed!At(w, "ready", {"broadcast"})
  BY <1>1, <1>2, <1>3, ReadyOwner
<1>7. Untimed!WriteAndReturn(w, to) /\ RowAttempts' = RowAttempts
  BY <1>1, <1>3, WroteAndReturned, SameAttempts
<1>8. RowEnvelopes' = [RowEnvelopes EXCEPT ![cur[w]] = Untimed!NoEnvelope]
  BY <1>1, <1>4, EnvelopeGone
<1>9. QED
  BY <1>5, <1>6, <1>7, <1>8 DEF Untimed!Confirm

-----------------------------------------------------------------------------
(*                     The handlers that write nothing                     *)

(* A sender whose handler returns the row in BROADCASTING. *)
LEMMA SenderReturns ==
  ASSUME FencingInv, NEW w \in Workers, pc[w] \in {"send", "settle"},
         before[w] \in {"signed", "broadcasting"},
         op(w).token = RowOf(w).token, op(w)'.token = RowOf(w)'.token,
         StepReturned(w, "broadcasting"), \A v \in Workers \ {w} : PhaseOf(v)' = PhaseOf(v)
  PROVE  Untimed!StillSending(w) /\ Phases[w] \in {"send", "resend"}
<1>1. "broadcasting" \notin TERMINAL /\ pc \in [Workers -> Labels] /\ pc[w] # "idle"
  BY States DEF FencingInv, TypeOK
<1>2. Phases[w] = IF before[w] = "signed" THEN "send" ELSE "resend"
  BY <1>1, PhaseAt DEF Phases
<1>3. CASE pc'[w] = "release" /\ mine' = mine /\ cur' = cur
  <2>1. PhaseOf(w)' = "park"
    BY <1>3, PhaseAtNext
  <2>2. Phases' = [Phases EXCEPT ![w] = "park"]
    BY <2>1, OnePhase
  <2>3. QED
    BY <1>2, <1>3, <2>2 DEF Untimed!StillSending, Untimed!Enter
<1>4. CASE pc'[w] = "step" /\ mine' = mine /\ cur' = cur /\ before[w] = "signed"
  <2>1. PhaseOf(w)' = "ready"
    BY <1>4, PhaseAtNext
  <2>2. Phases' = [Phases EXCEPT ![w] = "ready"]
    BY <2>1, OnePhase
  <2>3. QED
    BY <1>2, <1>4, <2>2 DEF Untimed!StillSending, Untimed!Enter
<1>5. QED
  BY <1>1, <1>3, <1>4 DEF StepReturned, Goto, driveVars

(* The worker moves within its handler, or parks. *)
LEMMA InPlace ==
  ASSUME FencingInv, FencingInv', NEW w \in Workers, WorkerStep(w), pc[w] # "idle", pc'[w] # "idle",
         rows' = rows, arrival' = arrival, now' = now, UNCHANGED nodeVars,
         mine' = mine, cur' = cur, snap' = snap
  PROVE  /\ UNCHANGED Untimed!rowVars
         /\ op(w)' = op(w) /\ RowOf(w)' = RowOf(w)
         /\ \A v \in Workers \ {w} : PhaseOf(v)' = PhaseOf(v)
         /\ PhaseOf(w)' = PhaseOf(w) => UNCHANGED Untimed!progressVars
         /\ op(w).token # RowOf(w).token => UNCHANGED Untimed!progressVars
<1>1. \A v \in Workers, o \in Ops : Holds(v, o)' <=> Holds(v, o)
  BY DEF Holds
<1>2. UNCHANGED Untimed!rowVars
  BY <1>1, RowsAtRest
<1>3. op(w)' = op(w) /\ RowOf(w)' = RowOf(w)
  BY DEF op, RowOf
<1>4. Aside(w)
  BY StepAside
<1>5. \A v \in Workers \ {w} : PhaseOf(v)' = PhaseOf(v)
  BY <1>4, PhaseStays DEF Aside
<1>6. ASSUME PhaseOf(w)' = PhaseOf(w) PROVE UNCHANGED Untimed!progressVars
  <2>1. Phases' = Phases
    BY <1>5, <1>6 DEF Phases
  <2>2. QED
    BY <1>2, <2>1 DEF Untimed!progressVars, Untimed!loopVars
<1>7. ASSUME op(w).token # RowOf(w).token PROVE PhaseOf(w)' = PhaseOf(w)
  BY <1>3, <1>7 DEF PhaseOf
<1>8. QED
  BY <1>2, <1>3, <1>5, <1>6, <1>7

(* Reading the node or the clock and building an envelope are invisible. *)
LEMMA ReadsAreInvisible ==
  ASSUME FencingInv, FencingInv', NEW w \in Workers,
         BuildEnvelope(w) \/ CheckExpiry(w) \/ LookupFound(w) \/ LookupSolid(w)
  PROVE  UNCHANGED Untimed!progressVars
<1>1. /\ pc[w] \in {"step", "build"} /\ UNCHANGED driveVars
      /\ rows' = rows /\ arrival' = arrival /\ now' = now /\ UNCHANGED nodeVars /\ snap' = snap
  BY DEF BuildEnvelope, CheckExpiry, LookupFound, LookupSolid, AtBuild, AtStep, storeVars
<1>2. pc'[w] \in {"persist", "ahead", "found", "confirm"}
  BY DEF BuildEnvelope, CheckExpiry, LookupFound, LookupSolid, Goto, FencingInv, TypeOK
<1>3. mine' = mine /\ cur' = cur
  BY <1>1 DEF driveVars
<1>4. pc[w] # "idle" /\ pc'[w] # "idle" /\ WorkerStep(w)
  BY <1>1, <1>2 DEF WorkerStep
<1>5. /\ op(w)' = op(w) /\ RowOf(w)' = RowOf(w)
      /\ PhaseOf(w)' = PhaseOf(w) => UNCHANGED Untimed!progressVars
      /\ op(w).token # RowOf(w).token => UNCHANGED Untimed!progressVars
  BY <1>1, <1>3, <1>4, InPlace
<1>6. CASE op(w).token = RowOf(w).token
  <2>1. PhaseOf(w) = "ready"
    BY <1>1, <1>6, PhaseAt
  <2>2. PhaseOf(w)' = "ready"
    BY <1>2, <1>5, <1>6, PhaseAtNext
  <2>3. QED
    BY <1>5, <2>1, <2>2
<1>7. QED
  BY <1>5, <1>6

(* The owner's envelope, as the worker's copy has it. *)
LEMMA OwnerReads ==
  ASSUME FencingInv, NEW w \in Workers, pc[w] # "idle", op(w).token = RowOf(w).token
  PROVE  /\ RowStates[cur[w]] = op(w).state
         /\ op(w).state \in InFlight =>
              /\ RowEnvelopes[cur[w]].fate = FateOf(op(w).signed)
              /\ RowEnvelopes[cur[w]].expired <=> op(w).signed.exp <= now
              /\ RowEnvelopes[cur[w]].provable <=> Provable(op(w).signed)
<1>1. cur[w] \in Ops /\ op(w) = rows[cur[w]]
  BY OwnerCopy DEF RowOf
<1>2. RowStates[cur[w]] = op(w).state
  BY <1>1 DEF RowStates
<1>3. QED
  BY <1>1, <1>2, EnvelopeReads

LEMMA LookupUnknownIsLookupUnknown ==
  ASSUME FencingInv, FencingInv', NEW w \in Workers, LookupUnknown(w)
  PROVE  Untimed!LookupUnknown(w) \/ UNCHANGED Untimed!progressVars
<1>1. /\ pc[w] = "step" /\ op(w).state \in {"broadcasting", "broadcast"} /\ UNCHANGED driveVars
      /\ rows' = rows /\ arrival' = arrival /\ now' = now /\ UNCHANGED nodeVars /\ snap' = snap
      /\ find_tx(op(w).signed) = "unknown"
  BY DEF LookupUnknown, AtStep, storeVars
<1>2. pc'[w] = "proof" /\ mine' = mine /\ cur' = cur
  BY <1>1 DEF LookupUnknown, Goto, FencingInv, TypeOK, driveVars
<1>3. /\ UNCHANGED Untimed!rowVars /\ op(w)' = op(w) /\ RowOf(w)' = RowOf(w)
      /\ \A v \in Workers \ {w} : PhaseOf(v)' = PhaseOf(v)
      /\ op(w).token # RowOf(w).token => UNCHANGED Untimed!progressVars
  BY <1>1, <1>2, InPlace DEF WorkerStep
<1>4. CASE op(w).token = RowOf(w).token
  <2>1. PhaseOf(w) = "ready" /\ PhaseOf(w)' = "unknown"
    BY <1>1, <1>2, <1>3, <1>4, PhaseAt, PhaseAtNext
  <2>2. Phases' = [Phases EXCEPT ![w] = "unknown"] /\ Phases[w] = "ready"
    BY <1>3, <2>1, OnePhase DEF Phases
  <2>3. Untimed!FoundNowhere(cur[w])
    <3>1. op(w).state \in InFlight
      BY <1>1 DEF InFlight
    <3>2. op(w).signed.exp > now <=> ~(op(w).signed.exp <= now)
      <4>1. op(w).signed.exp \in Nat /\ now \in Nat
        BY <1>1, SignedEnvelope DEF Txids, FencingInv, TypeOK, NodeTypeOK
      <4>2. QED
        BY <4>1, SMT
    <3>3. ~Landed(op(w).signed) /\ (op(w).signed \in DOMAIN txs => op(w).signed.exp <= now)
      BY <1>1, <3>2 DEF find_tx
    <3>4. \/ FateOf(op(w).signed) = "unsent"
          \/ FateOf(op(w).signed) = "accepted" /\ op(w).signed.exp <= now
      BY <3>3, FateReads
    <3>5. /\ RowEnvelopes[cur[w]].fate = FateOf(op(w).signed)
          /\ RowEnvelopes[cur[w]].expired <=> op(w).signed.exp <= now
      BY <1>1, <1>4, <3>1, OwnerReads
    <3>6. QED
      BY <3>4, <3>5 DEF Untimed!FoundNowhere
  <2>4. RowStates[cur[w]] \in {"broadcasting", "broadcast"}
    BY <1>1, <1>4, OwnerReads
  <2>5. QED
    BY <1>2, <1>3, <2>2, <2>3, <2>4 DEF Untimed!LookupUnknown, Untimed!At, Untimed!Enter
<1>5. QED
  BY <1>3, <1>4

(* A handler that returns the row as it was parks. *)
LEMMA ParkIsPark ==
  ASSUME FencingInv, FencingInv', NEW w \in Workers, WorkerStep(w), pc[w] # "idle",
         Park(w), before[w] = op(w).state, op(w).state \notin TERMINAL
  PROVE  /\ op(w).token = RowOf(w).token => Untimed!Park(w)
         /\ op(w).token # RowOf(w).token => UNCHANGED Untimed!progressVars
<1>1. /\ Goto(w, "release") /\ UNCHANGED driveVars
      /\ rows' = rows /\ arrival' = arrival /\ now' = now /\ UNCHANGED nodeVars /\ snap' = snap
  BY DEF Park, StepReturned, storeVars
<1>2. pc'[w] = "release" /\ mine' = mine /\ cur' = cur
  BY <1>1 DEF Goto, FencingInv, TypeOK, driveVars
<1>3. /\ UNCHANGED Untimed!rowVars /\ op(w)' = op(w) /\ RowOf(w)' = RowOf(w)
      /\ \A v \in Workers \ {w} : PhaseOf(v)' = PhaseOf(v)
      /\ op(w).token # RowOf(w).token => UNCHANGED Untimed!progressVars
  BY <1>1, <1>2, InPlace
<1>4. ASSUME op(w).token = RowOf(w).token PROVE Untimed!Park(w)
  <2>1. PhaseOf(w)' = "park"
    BY <1>2, <1>3, <1>4, PhaseAtNext
  <2>2. Phases' = [Phases EXCEPT ![w] = "park"]
    BY <1>3, <2>1, OnePhase
  <2>3. QED
    BY <1>2, <1>3, <2>2 DEF Untimed!Park, Untimed!Enter
<1>5. QED
  BY <1>3, <1>4

LEMMA WaitsAreWaits ==
  ASSUME FencingInv, FencingInv', ProgressInv, NEW w \in Workers
  PROVE  /\ QueryTimeout(w) => Untimed!QueryTimeout(w) \/ UNCHANGED Untimed!progressVars
         /\ AwaitSolidity(w) => Untimed!AwaitSolidity(w) \/ UNCHANGED Untimed!progressVars
<1>1. ASSUME QueryTimeout(w) \/ AwaitSolidity(w)
      PROVE  /\ pc[w] = "step" /\ op(w).state \in {"broadcasting", "broadcast"} /\ Park(w)
             /\ before[w] = op(w).state /\ op(w).state \notin TERMINAL /\ WorkerStep(w)
  <2>1. pc[w] = "step" /\ op(w).state \in {"broadcasting", "broadcast"} /\ Park(w)
    BY <1>1 DEF QueryTimeout, AwaitSolidity, AtStep
  <2>2. before[w] = op(w).state
    BY <2>1 DEF ProgressInv, ThreadOf
  <2>3. op(w).state \notin TERMINAL
    BY <2>1, States
  <2>4. QED
    BY <1>1, <2>1, <2>2, <2>3 DEF WorkerStep
<1>2. ASSUME QueryTimeout(w) \/ AwaitSolidity(w), op(w).token = RowOf(w).token
      PROVE  /\ Untimed!Park(w) /\ Phases[w] = "ready" /\ RowStates[cur[w]] = op(w).state
  BY <1>1, <1>2, ParkIsPark, PhaseAt, OwnerReads DEF Phases
<1>3. ASSUME QueryTimeout(w) \/ AwaitSolidity(w), op(w).token # RowOf(w).token
      PROVE  UNCHANGED Untimed!progressVars
  BY <1>1, <1>3, ParkIsPark
<1>4. ASSUME QueryTimeout(w), op(w).token = RowOf(w).token PROVE Untimed!QueryTimeout(w)
  BY <1>1, <1>2, <1>4 DEF Untimed!QueryTimeout, Untimed!At
<1>5. ASSUME AwaitSolidity(w), op(w).token = RowOf(w).token PROVE Untimed!AwaitSolidity(w)
  <2>1. op(w).state = "broadcast" /\ op(w).state \in InFlight
    BY <1>5 DEF AwaitSolidity, AtStep, InFlight
  <2>2. op(w).signed.exp > now => ~(op(w).signed.exp <= now)
    <3>1. op(w).signed.exp \in Nat /\ now \in Nat
      BY <1>1, <1>5, <2>1, SignedEnvelope DEF Txids, FencingInv, TypeOK, NodeTypeOK
    <3>2. QED
      BY <3>1, SMT
  <2>3. \/ FateOf(op(w).signed) = "accepted" /\ ~(op(w).signed.exp <= now)
        \/ FateOf(op(w).signed) = "included"
    BY <1>5, <2>2, FateReads DEF AwaitSolidity, find_tx
  <2>4. Untimed!FoundPending(cur[w]) \/ RowEnvelopes[cur[w]].fate = "included"
    BY <1>1, <1>5, <2>1, <2>3, OwnerReads DEF Untimed!FoundPending
  <2>5. QED
    BY <1>2, <1>5, <2>1, <2>4 DEF Untimed!AwaitSolidity, Untimed!At
<1>6. QED
  BY <1>3, <1>4, <1>5

LEMMA NotDeadIsNotDead ==
  ASSUME FencingInv, FencingInv', ProgressInv, NEW w \in Workers, NotDead(w)
  PROVE  Untimed!NotDead(w) \/ UNCHANGED Untimed!progressVars
<1>1. /\ pc[w] = "proof" /\ ~proof_of_death(w) /\ before[w] = op(w).state /\ WorkerStep(w)
      /\ op(w).state \in InFlight /\ op(w).state \notin TERMINAL
  <2>1. pc[w] = "proof" /\ ~proof_of_death(w) /\ WorkerStep(w)
    BY DEF NotDead, WorkerStep
  <2>2. op(w).state \in {"broadcasting", "broadcast"} /\ before[w] = op(w).state
    BY <2>1 DEF FencingInv, Control, ControlOf, ProgressInv, ThreadOf
  <2>3. QED
    BY <2>1, <2>2, States DEF InFlight
<1>2. ASSUME op(w).token = RowOf(w).token
      PROVE  /\ Phases[w] = "unknown" /\ ~RowEnvelopes[cur[w]].provable
             /\ RowStates[cur[w]] = op(w).state
  <2>1. ~Provable(op(w).signed)
    BY <1>1 DEF proof_of_death, Provable
  <2>2. QED
    BY <1>1, <1>2, <2>1, OwnerReads, PhaseAt DEF Phases
<1>3. CASE op(w).state = "broadcasting" /\ Goto(w, "send") /\ UNCHANGED <<driveVars, snap, now, nodeVars, storeVars>>
  <2>1. /\ pc'[w] = "send" /\ mine' = mine /\ cur' = cur /\ before' = before
        /\ rows' = rows /\ arrival' = arrival /\ now' = now /\ UNCHANGED nodeVars /\ snap' = snap
    BY <1>3 DEF Goto, FencingInv, TypeOK, driveVars, storeVars
  <2>2. /\ UNCHANGED Untimed!rowVars /\ op(w)' = op(w) /\ RowOf(w)' = RowOf(w)
        /\ \A v \in Workers \ {w} : PhaseOf(v)' = PhaseOf(v)
        /\ op(w).token # RowOf(w).token => UNCHANGED Untimed!progressVars
    BY <1>1, <2>1, InPlace
  <2>3. CASE op(w).token = RowOf(w).token
    <3>1. before'[w] # "signed"
      BY <1>1, <1>3, <2>1
    <3>2. PhaseOf(w)' = "resend"
      BY <2>1, <2>2, <2>3, <3>1, PhaseAtNext
    <3>3. Phases' = [Phases EXCEPT ![w] = "resend"]
      BY <2>2, <3>2, OnePhase
    <3>4. QED
      BY <1>2, <1>3, <2>1, <2>2, <2>3, <3>3 DEF Untimed!NotDead, Untimed!Enter
  <2>4. QED
    BY <2>2, <2>3
<1>4. CASE op(w).state = "broadcast" /\ Park(w)
  <2>1. /\ op(w).token = RowOf(w).token => Untimed!Park(w)
        /\ op(w).token # RowOf(w).token => UNCHANGED Untimed!progressVars
    BY <1>1, <1>4, ParkIsPark
  <2>2. QED
    BY <1>2, <1>4, <2>1 DEF Untimed!NotDead
<1>5. QED
  BY <1>3, <1>4 DEF NotDead

(* What Settle says of the envelope when the row stays open. *)
LEMMA EnvelopeKept ==
  ASSUME NEW c \in Ops, RowEnvelopes' = RowEnvelopes, RowStates'[c] \notin TERMINAL
  PROVE  RowEnvelopes' = [RowEnvelopes EXCEPT ![c] =
                            IF RowStates'[c] \in Untimed!TERMINAL THEN Untimed!NoEnvelope ELSE @]
<1>1. RowStates'[c] \notin Untimed!TERMINAL
  BY SameWords
<1>2. RowEnvelopes = [RowEnvelopes EXCEPT ![c] = RowEnvelopes[c]]
  BY DEF RowEnvelopes
<1>3. QED
  BY <1>1, <1>2

(* The node was busy: nothing is written. *)
LEMMA BusyIsSettle ==
  ASSUME FencingInv, FencingInv', ProgressInv, NEW w \in Workers,
         Settle(w), answer[w] \in RETRY_SAME_BYTES
  PROVE  Untimed!Settle(w) \/ UNCHANGED Untimed!progressVars
<1>1. pc[w] = "settle" /\ WorkerStep(w) /\ op(w).state = "broadcasting" /\ Park(w)
  BY DEF Settle, WorkerStep, FencingInv, Control, ControlOf
<1>2. before[w] \in {"signed", "broadcasting"} /\ "broadcasting" \notin TERMINAL
  BY <1>1, States DEF ProgressInv, ThreadOf
<1>3. /\ StepReturned(w, "broadcasting") /\ snap' = snap
      /\ rows' = rows /\ arrival' = arrival /\ now' = now /\ UNCHANGED nodeVars
  BY <1>1 DEF Park, storeVars
<1>4. mine' = mine /\ cur' = cur /\ pc'[w] # "idle"
  BY <1>2, <1>3 DEF StepReturned, Goto, driveVars, FencingInv, TypeOK
<1>5. /\ UNCHANGED Untimed!rowVars /\ op(w)' = op(w) /\ RowOf(w)' = RowOf(w)
      /\ \A v \in Workers \ {w} : PhaseOf(v)' = PhaseOf(v)
      /\ op(w).token # RowOf(w).token => UNCHANGED Untimed!progressVars
  BY <1>1, <1>3, <1>4, InPlace
<1>6. CASE op(w).token = RowOf(w).token
  <2>1. Untimed!StillSending(w) /\ Phases[w] \in {"send", "resend"}
    BY <1>1, <1>2, <1>3, <1>5, <1>6, SenderReturns
  <2>2. cur[w] \in Ops /\ RowStates[cur[w]] = "broadcasting"
    BY <1>1, <1>6, OwnerCopy, OwnerReads
  <2>3. RowEnvelopes' = [RowEnvelopes EXCEPT ![cur[w]] =
           IF RowStates'[cur[w]] \in Untimed!TERMINAL THEN Untimed!NoEnvelope ELSE @]
    BY <1>2, <1>5, <2>2, EnvelopeKept DEF Untimed!rowVars
  <2>4. QED
    BY <1>5, <2>1, <2>3 DEF Untimed!Settle, Untimed!rowVars
<1>7. QED
  BY <1>5, <1>6

(* The answer is written down. *)
LEMMA AnswerIsSettle ==
  ASSUME StoreKind = "memory", LeaseRuns, FencingInv, FencingInv', ProgressInv,
         NEW w \in Workers, Settle(w), answer[w] \notin RETRY_SAME_BYTES
  PROVE  Untimed!Settle(w)
<1>1. PICK to : /\ to = Verdict(answer[w])
                /\ Wrote(w, to, rows[cur[w]].attempts, rows[cur[w]].signed)
                /\ StepReturned(w, to)
  BY CasWrote
<1>2. /\ pc[w] = "settle" /\ op(w).state = "broadcasting" /\ WorkerStep(w)
      /\ before[w] \in {"signed", "broadcasting"}
      /\ answer[w] \in ACCEPTED => op(w).signed \in DOMAIN txs
  BY DEF Settle, WorkerStep, FencingInv, Control, ControlOf, ProgressInv, ThreadOf
<1>3. cur[w] \in Ops /\ op(w) = rows[cur[w]] /\ Aside(w) /\ op(w).token = RowOf(w).token
  BY <1>1, <1>2, StepAside DEF Wrote, RowOf
<1>4. op(w).state \in InFlight /\ rows[cur[w]].state \in InFlight
  BY <1>2, <1>3 DEF InFlight
<1>5. Phases[w] \in {"send", "resend"}
  BY <1>2, <1>3, PhaseAt DEF Phases
<1>6. Untimed!WriteAndReturn(w, to) /\ RowAttempts' = RowAttempts
  BY <1>1, <1>3, WroteAndReturned, SameAttempts
<1>7. RowStates'[cur[w]] = to
  BY <1>1, <1>3 DEF Wrote, RowStates
<1>8. CASE to = "broadcast"
  <2>1. to \notin TERMINAL /\ to \in InFlight /\ answer[w] \in ACCEPTED
    BY <1>1, <1>8, States DEF Verdict, InFlight
  <2>2. RowEnvelopes[cur[w]].fate # "unsent"
    BY <1>2, <1>3, <1>4, <2>1, OwnerReads, FateReads
  <2>3. RowEnvelopes' = RowEnvelopes
    BY <1>1, <1>4, <2>1, SameEnvelope
  <2>4. RowEnvelopes' = [RowEnvelopes EXCEPT ![cur[w]] =
           IF RowStates'[cur[w]] \in Untimed!TERMINAL THEN Untimed!NoEnvelope ELSE @]
    BY <1>3, <1>7, <2>1, <2>3, EnvelopeKept
  <2>5. QED
    BY <1>5, <1>6, <1>8, <2>2, <2>4 DEF Untimed!Settle
<1>9. CASE to = "failed"
  <2>1. to \in Untimed!TERMINAL /\ to \notin InFlight
    BY <1>9, States, SameWords DEF InFlight
  <2>2. RowEnvelopes' = [RowEnvelopes EXCEPT ![cur[w]] = Untimed!NoEnvelope]
    BY <1>1, <2>1, EnvelopeGone
  <2>3. RowEnvelopes' = [RowEnvelopes EXCEPT ![cur[w]] =
           IF RowStates'[cur[w]] \in Untimed!TERMINAL THEN Untimed!NoEnvelope ELSE @]
    BY <1>7, <2>1, <2>2
  <2>4. QED
    BY <1>5, <1>6, <1>9, <2>3 DEF Untimed!Settle
<1>10. CASE to = "broadcasting"
  <2>1. to \notin TERMINAL /\ to \in InFlight
    BY <1>10, States DEF InFlight
  <2>2. RowEnvelopes' = RowEnvelopes
    BY <1>1, <1>4, <2>1, SameEnvelope
  <2>3. RowEnvelopes' = [RowEnvelopes EXCEPT ![cur[w]] =
           IF RowStates'[cur[w]] \in Untimed!TERMINAL THEN Untimed!NoEnvelope ELSE @]
    BY <1>3, <1>7, <2>1, <2>2, EnvelopeKept
  <2>4. mine' = mine /\ cur' = cur
    BY <1>1, <2>1 DEF StepReturned, driveVars
  <2>5. op(w)'.token = RowOf(w)'.token
    BY <1>1, <1>3, <2>1, <2>4 DEF Wrote, op, RowOf
  <2>6. cur[w] \in mine'[w]
    BY <1>1, <2>4 DEF Wrote
  <2>7. \A v \in Workers \ {w} : PhaseOf(v)' = PhaseOf(v)
    BY <1>1, <1>3, <2>1, <2>4, <2>6, WroteIsWrite
  <2>8. Untimed!StillSending(w)
    BY <1>1, <1>2, <1>3, <1>10, <2>5, <2>7, SenderReturns
  <2>9. Untimed!Write(w, "broadcasting")
    BY <1>6, <1>10 DEF Untimed!WriteAndReturn
  <2>10. QED
    BY <1>5, <1>6, <2>3, <2>8, <2>9 DEF Untimed!Settle
<1>11. QED
  BY <1>1, <1>8, <1>9, <1>10 DEF Verdict

-----------------------------------------------------------------------------
(*                              node.broadcast                             *)

(* Acceptance changes the fate of the one envelope it takes in. *)
LEMMA FateOfOthers ==
  ASSUME head' = head, NEW u, u \in DOMAIN txs' <=> u \in DOMAIN txs,
         u \in DOMAIN txs => txs'[u] = txs[u]
  PROVE  FateOf(u)' = FateOf(u)
<1>1. Landed(u)' <=> Landed(u)
  BY DEF Landed
<1>2. Landed(u) => (IsSolid(u)' <=> IsSolid(u))
  BY DEF IsSolid, solid_block, Landed
<1>3. QED
  BY <1>1, <1>2 DEF FateOf

(* Another row's envelope is another envelope. *)
LEMMA SentOnceOnly ==
  ASSUME StoreKind = "memory", DistinctTxids, FencingInv, NEW w \in Workers, pc[w] = "send",
         NEW o \in Ops \ {cur[w]}, rows[o].state \in InFlight
  PROVE  rows[o].signed # op(w).signed
<1>1. /\ cur[w] \in Ops /\ op(w).state = "broadcasting"
      /\ RowGood(op(w), Pay[cur[w]], all_txids[cur[w]], writeAhead[cur[w]])
  BY Busy DEF FencingInv, Control, ControlOf
<1>2. RowGood(rows[o], Pay[o], all_txids[o], writeAhead[o])
  BY DEF FencingInv, Coherent
<1>3. op(w).signed.pay = Pay[cur[w]]
  BY <1>1 DEF RowGood
<1>4. rows[o].signed.pay = Pay[o]
  BY <1>2 DEF RowGood, InFlight
<1>5. Pay[o] # Pay[cur[w]]
  BY <1>1 DEF DistinctTxids
<1>6. QED
  BY <1>3, <1>4, <1>5

LEMMA SendEnvelopes ==
  ASSUME StoreKind = "memory", DistinctTxids, FencingInv, NEW w \in Workers, Send(w)
  PROVE  \/ RowEnvelopes' = RowEnvelopes
         \/ /\ RowEnvelopes[cur[w]].fate = "unsent" /\ ~RowEnvelopes[cur[w]].expired
            /\ RowEnvelopes' = [RowEnvelopes EXCEPT ![cur[w]].fate = "accepted"]
<1>1. PICK t, c : t = op(w).signed /\ c = cur[w]
  OBVIOUS
<1>2. pc[w] = "send" /\ rows' = rows /\ \E code : broadcast(t, code)
  BY <1>1 DEF Send, storeVars
<1>3. c \in Ops /\ t \in Txids
  <2>1. op(w).state = "broadcasting"
    BY <1>2 DEF FencingInv, Control, ControlOf
  <2>2. QED
    BY <1>1, <1>2, <2>1, Busy, SignedEnvelope
<1>4. now' = now /\ head' = head /\ blockTime' = blockTime
  BY <1>2 DEF broadcast
<1>5. solid_now' = solid_now
  BY <1>4 DEF solid_now, SolidHeight, solid_block
<1>6. CASE txs' = txs
  <2>1. \A o \in Ops : EnvelopeOf(o)' = EnvelopeOf(o)
    BY <1>2, <1>4, <1>6, EnvelopeStays
  <2>2. QED
    BY <2>1 DEF RowEnvelopes
<1>7. CASE /\ t.exp > now /\ t \notin DOMAIN txs
           /\ txs' = [u \in DOMAIN txs \cup {t} |->
                        IF u = t THEN [at |-> head, block |-> 0, receipt |-> "none"] ELSE txs[u]]
  <2>1. \A u : u # t => FateOf(u)' = FateOf(u)
    <3>1. TAKE u
    <3>2. HAVE u # t
    <3>3. u \in DOMAIN txs' <=> u \in DOMAIN txs
      BY <1>7, <3>2
    <3>4. u \in DOMAIN txs => txs'[u] = txs[u]
      BY <1>7, <3>2
    <3>5. QED
      BY <1>4, <3>3, <3>4, FateOfOthers
  <2>2. FateOf(t) = "unsent" /\ FateOf(t)' = "accepted"
    <3>1. t \in DOMAIN txs' /\ txs'[t].block = 0
      BY <1>7, SMT
    <3>2. QED
      BY <1>7, <3>1 DEF FateOf, Landed
  <2>3. ~(t.exp <= now)
    <3>1. t.exp \in Nat /\ now \in Nat
      BY <1>3 DEF Txids, FencingInv, TypeOK, NodeTypeOK
    <3>2. QED
      BY <1>7, <3>1, SMT
  <2>4. ASSUME NEW o \in Ops, rows[o].state \in InFlight => rows[o].signed # t
        PROVE  EnvelopeOf(o)' = EnvelopeOf(o)
    BY <1>2, <1>4, <1>5, <2>1, <2>4 DEF EnvelopeOf, InFlight
  <2>5. \A o \in Ops \ {c} : EnvelopeOf(o)' = EnvelopeOf(o)
    BY <1>1, <1>2, <2>4, SentOnceOnly
  <2>6. CASE rows[c].state \in InFlight => rows[c].signed # t
    <3>1. \A o \in Ops : EnvelopeOf(o)' = EnvelopeOf(o)
      BY <2>4, <2>5, <2>6
    <3>2. QED
      BY <3>1 DEF RowEnvelopes
  <2>7. CASE rows[c].state \in InFlight /\ rows[c].signed = t
    <3>1. RowEnvelopes[c].fate = "unsent" /\ ~RowEnvelopes[c].expired
      BY <1>3, <2>2, <2>3, <2>7, EnvelopeReads
    <3>2. EnvelopeOf(c) = [fate |-> "unsent", expired |-> t.exp <= now,
                           provable |-> solid_now >= t.exp + Margin]
      BY <2>2, <2>7 DEF EnvelopeOf, InFlight
    <3>3. EnvelopeOf(c)' = [fate |-> "accepted", expired |-> t.exp <= now,
                            provable |-> solid_now >= t.exp + Margin]
      BY <1>2, <1>4, <1>5, <2>2, <2>7 DEF EnvelopeOf, InFlight
    <3>4. EnvelopeOf(c)' = [EnvelopeOf(c) EXCEPT !.fate = "accepted"]
      BY <3>2, <3>3, SMT
    <3>5. RowEnvelopes' = [RowEnvelopes EXCEPT ![c].fate = "accepted"]
      BY <1>3, <2>5, <3>4 DEF RowEnvelopes
    <3>6. QED
      BY <1>1, <3>1, <3>5
  <2>8. QED
    BY <2>6, <2>7
<1>8. QED
  BY <1>2, <1>6, <1>7 DEF broadcast

(* A worker moves and no row does: the rest of the state, envelopes apart. *)
LEMMA RowsStand ==
  ASSUME FencingInv, FencingInv', rows' = rows, arrival' = arrival, now' = now,
         \A v \in Workers, o \in Ops : Holds(v, o)' <=> Holds(v, o)
  PROVE  /\ RowStates' = RowStates /\ RowAttempts' = RowAttempts /\ arrival' = arrival
         /\ Leases' = Leases /\ Owners' = Owners
<1>1. RowStates' = RowStates /\ RowAttempts' = RowAttempts
  BY DEF RowStates, RowAttempts
<1>2. Leases' = Leases
  BY DEF Leases, LeaseOver
<1>3. \A o \in Ops : OwnerOf(o)' = OwnerOf(o)
  BY OwnerStays
<1>4. Owners' = Owners
  BY <1>3 DEF Owners
<1>5. QED
  BY <1>1, <1>2, <1>4

LEMMA SendIsSend ==
  ASSUME StoreKind = "memory", DistinctTxids, FencingInv, FencingInv', ProgressInv,
         NEW w \in Workers, Send(w)
  PROVE  Untimed!Send(w)
<1>1. /\ pc[w] = "send" /\ op(w).state = "broadcasting" /\ WorkerStep(w)
      /\ before[w] \in {"signed", "broadcasting"}
  BY DEF Send, WorkerStep, FencingInv, Control, ControlOf, ProgressInv, ThreadOf
<1>2. /\ rows' = rows /\ arrival' = arrival /\ now' = now /\ snap' = snap
      /\ \/ StepReturned(w, "broadcasting")
         \/ Goto(w, "settle") /\ UNCHANGED driveVars
  BY <1>1 DEF Send, storeVars, broadcast
<1>3. /\ mine' = mine /\ cur' = cur /\ pc'[w] # "idle"
      /\ \/ StepReturned(w, "broadcasting")
         \/ pc'[w] = "settle" /\ before' = before
  BY <1>2, States DEF StepReturned, Goto, driveVars, FencingInv, TypeOK
<1>4. \A v \in Workers, o \in Ops : Holds(v, o)' <=> Holds(v, o)
  BY <1>2, <1>3 DEF Holds
<1>5. /\ RowStates' = RowStates /\ RowAttempts' = RowAttempts /\ arrival' = arrival
      /\ Leases' = Leases /\ Owners' = Owners
  BY <1>2, <1>4, RowsStand
<1>6. op(w)' = op(w) /\ RowOf(w)' = RowOf(w)
  BY <1>2, <1>3 DEF op, RowOf
<1>7. \A v \in Workers \ {w} : PhaseOf(v)' = PhaseOf(v)
  <2>1. Aside(w)
    BY <1>1, StepAside
  <2>2. QED
    BY <1>2, <2>1, PhaseStays DEF Aside
<1>8. ASSUME PhaseOf(w)' = PhaseOf(w) PROVE UNCHANGED Untimed!loopVars
  <2>1. Phases' = Phases
    BY <1>7, <1>8 DEF Phases
  <2>2. QED
    BY <1>3, <2>1 DEF Untimed!loopVars
<1>9. /\ Phases[w] \in {"send", "resend", "lost"}
      /\ \/ UNCHANGED Untimed!loopVars
         \/ Phases[w] # "lost" /\ Untimed!StillSending(w)
  <2>1. CASE op(w).token # RowOf(w).token
    <3>1. PhaseOf(w) = "lost" /\ PhaseOf(w)' = "lost"
      BY <1>1, <1>3, <1>6, <2>1 DEF PhaseOf
    <3>2. QED
      BY <1>8, <3>1 DEF Phases
  <2>2. CASE op(w).token = RowOf(w).token /\ StepReturned(w, "broadcasting")
    BY <1>1, <1>6, <1>7, <2>2, SenderReturns
  <2>3. CASE op(w).token = RowOf(w).token /\ pc'[w] = "settle" /\ before' = before
    <3>1. PhaseOf(w) = IF before[w] = "signed" THEN "send" ELSE "resend"
      BY <1>1, <2>3, PhaseAt
    <3>2. PhaseOf(w)' = IF before[w] = "signed" THEN "send" ELSE "resend"
      BY <1>3, <1>6, <2>3, PhaseAtNext
    <3>3. QED
      BY <1>8, <3>1, <3>2 DEF Phases
  <2>4. QED
    BY <1>3, <2>1, <2>2, <2>3
<1>10. QED
  BY <1>5, <1>9, SendEnvelopes DEF Untimed!Send
=============================================================================
