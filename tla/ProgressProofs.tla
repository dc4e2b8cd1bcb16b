--------------------------- MODULE ProgressProofs ---------------------------
(***************************************************************************)
(* Sluice over the memory store implements Progress, for any number of     *)
(* workers and operations and every value of the other constants that the  *)
(* assumptions of SluiceInv and LeaseRuns allow.                           *)
(***************************************************************************)
EXTENDS ProgressHandlerProofs, PaymentProofs

\* Zenon takes every leaf that names no other prover.
USE Zenon

(* The memory store raises nothing. *)
LEMMA NoHandlerError ==
  ASSUME StoreKind = "memory", NEW w, HandlerError(w)
  PROVE  FALSE
<1>1. ~StoreFails
  BY SluiceAssumption
<1>2. QED
  BY <1>1 DEF HandlerError, TxidTaken, CasRaises, ConnectionLost

(* Every step of a worker is a step of the untimed loop, or shows nothing. *)
LEMMA WorkerStepProgress ==
  ASSUME StoreKind = "memory", LeaseRuns, DistinctTxids, FencingInv, FencingInv',
         MoneyInv, ProgressInv, NEW w \in Workers, WorkerStep(w)
  PROVE  Untimed!Step(w) \/ Untimed!QueryTimeout(w) \/ UNCHANGED Untimed!progressVars
<1>1. ASSUME Untimed!Drive(w) PROVE Untimed!Step(w)
  BY <1>1 DEF Untimed!Step
<1>2. CASE Claim(w)
  BY <1>2, ClaimIsClaim DEF Untimed!Step
<1>3. CASE Validate(w) \/ BeginSigning(w) \/ GiveUp(w) \/ PersistEnvelope(w) \/ Sign(w) \/ RebuildUnsent(w)
  BY <1>1, <1>3, ValidateIsValidate, BeginSigningIsBeginSigning, GiveUpIsGiveUp, SignIsSign,
     RebuildUnsentIsRebuildUnsent DEF Untimed!Drive
<1>4. CASE WriteAhead(w) \/ Send(w) \/ MarkBroadcast(w) \/ Confirm(w) \/ RebuildDead(w)
  BY <1>1, <1>4, WriteAheadIsWriteAhead, SendIsSend, MarkBroadcastIsMarkBroadcast, ConfirmIsConfirm,
     RebuildDeadIsRebuildDead DEF Untimed!Drive
<1>5. CASE Settle(w)
  BY <1>1, <1>5, BusyIsSettle, AnswerIsSettle DEF Untimed!Drive
<1>6. CASE BuildEnvelope(w) \/ CheckExpiry(w) \/ LookupFound(w) \/ LookupSolid(w)
  BY <1>6, ReadsAreInvisible
<1>7. CASE QueryTimeout(w) \/ AwaitSolidity(w)
  BY <1>1, <1>7, WaitsAreWaits DEF Untimed!Drive
<1>8. CASE LookupUnknown(w) \/ NotDead(w)
  BY <1>1, <1>8, LookupUnknownIsLookupUnknown, NotDeadIsNotDead DEF Untimed!Drive
<1>9. CASE LostClaim(w) \/ Release(w)
  BY <1>1, <1>9, LostClaimIsDrop, ReleaseIsRelease DEF Untimed!Drive
<1>10. CASE HandlerError(w)
  BY <1>10, NoHandlerError
<1>11. QED
  BY <1>2, <1>3, <1>4, <1>5, <1>6, <1>7, <1>8, <1>9, <1>10 DEF WorkerStep

LEMMA ProgressStep ==
  ASSUME SafeTiming, StoreKind = "memory", LeaseRuns, DistinctTxids, FencingInv, FencingInv',
         MoneyInv, MoneyInv', ProgressInv, [SluiceNext]_vars
  PROVE  [Untimed!ProgressNext]_(Untimed!progressVars)
<1>1. CASE \E o \in Ops : Submit(o)
  BY <1>1, SubmitIsSubmit DEF Untimed!ProgressNext
<1>2. CASE \E w \in Workers : WorkerStep(w)
  BY <1>2, WorkerStepProgress DEF Untimed!ProgressNext
<1>3. CASE \E w \in Workers : Crash(w)
  BY <1>3, CrashIsCrash DEF Untimed!ProgressNext
<1>4. CASE ClockTick
  BY <1>4, ClockTickIsTick DEF Untimed!ProgressNext
<1>5. CASE MineBlock
  BY <1>5, MineBlockIsBlocks DEF Untimed!ProgressNext
<1>6. CASE UNCHANGED vars
  <2>1. /\ now' = now /\ UNCHANGED nodeVars /\ UNCHANGED <<storeVars, workerVars>>
        /\ rows' = rows /\ arrival' = arrival /\ mine' = mine /\ snap' = snap
    BY <1>6 DEF vars, storeVars, workerVars, driveVars
  <2>2. \A v \in Workers, o \in Ops : Holds(v, o)' <=> Holds(v, o)
    BY <2>1 DEF Holds
  <2>3. UNCHANGED Untimed!rowVars
    BY <2>1, <2>2, RowsAtRest
  <2>4. UNCHANGED Untimed!loopVars
    BY <2>1, OutsideStill
  <2>5. QED
    BY <2>3, <2>4 DEF Untimed!progressVars
<1>7. QED
  BY <1>1, <1>2, <1>3, <1>4, <1>5, <1>6 DEF SluiceNext

LEMMA ProgressStart == SluiceInit => Untimed!ProgressInit
<1> SUFFICES ASSUME SluiceInit PROVE Untimed!ProgressInit
  OBVIOUS
<1>1. /\ rows = [o \in Ops |-> NoRow] /\ arrival = [o \in Ops |-> {}]
      /\ pc = [w \in Workers |-> "idle"] /\ cur = [w \in Workers |-> NoOp]
      /\ mine = [w \in Workers |-> {}]
  BY DEF SluiceInit, StoreInit
<1>2. NoRow.state = "absent" /\ NoRow.attempts = 0
  BY DEF NoRow
<1>3. \A o \in Ops : rows[o].state = "absent" /\ rows[o].attempts = 0
  BY <1>1, <1>2
<1>4. RowStates = [o \in Ops |-> "absent"] /\ RowAttempts = [o \in Ops |-> 0]
  BY <1>3 DEF RowStates, RowAttempts
<1>5. RowEnvelopes = [o \in Ops |-> Untimed!NoEnvelope]
  BY <1>3 DEF RowEnvelopes, EnvelopeOf, Untimed!NoEnvelope
<1>6. Leases = [o \in Ops |-> FALSE]
  <2>1. \A o \in Ops : (rows[o].state \in CLAIMABLE /\ ~LeaseOver(o)) = FALSE
    BY <1>3, States
  <2>2. QED
    BY <2>1 DEF Leases
<1>7. Owners = [o \in Ops |-> Nobody]
  <2>1. \A o \in Ops : \A w \in Workers : ~Holds(w, o)
    BY <1>1 DEF Holds
  <2>2. QED
    BY <2>1 DEF Owners, OwnerOf
<1>8. Phases = [w \in Workers |-> "idle"]
  BY <1>1 DEF Phases, PhaseOf
<1>9. QED
  BY <1>1, <1>4, <1>5, <1>6, <1>7, <1>8 DEF Untimed!ProgressInit

(* The workers over the memory store are the untimed pipeline of Progress:  *)
(* no handler looks at a clock, a height or a token for anything but the    *)
(* ownership of its row, the lease and the fate of its current envelope.    *)
THEOREM SpecImplementsProgress ==
  ASSUME StoreKind = "memory", LeaseRuns, SafeTiming, DistinctTxids
  PROVE  Spec => ImplementsProgress
<1>1. SluiceInit => Untimed!ProgressInit
  BY ProgressStart
<1>2. /\ FencingInv /\ MoneyInv /\ ProgressInv /\ [SluiceNext]_vars
      /\ FencingInv' /\ MoneyInv'
      => [Untimed!ProgressNext]_(Untimed!progressVars)
  BY ProgressStep
<1>3. QED
  BY <1>1, <1>2, SpecMoney, SpecProgressInv, PTL DEF Spec, ImplementsProgress, Untimed!ProgressSpec
=============================================================================
