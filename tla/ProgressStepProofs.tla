------------------------- MODULE ProgressStepProofs -------------------------
(***************************************************************************)
(* Sluice over the memory store read as Progress, first part: the steps of *)
(* the loop, the intake, the clock and the chain, the invariant of the     *)
(* refinement, and the cas of the owner.                                   *)
(***************************************************************************)
EXTENDS SluiceProgress, FencingProofs

\* Zenon takes every leaf that names no other prover.
USE Zenon

-----------------------------------------------------------------------------
(*                       The workers that do not move                      *)

Aside(w) ==
  \A v \in Workers \ {w} :
    /\ pc'[v] = pc[v] /\ cur'[v] = cur[v] /\ mine'[v] = mine[v]
    /\ snap'[v] = snap[v] /\ before'[v] = before[v] /\ answer'[v] = answer[v]

(* A step of w leaves the memory of every other worker alone. *)
LEMMA StepAside ==
  ASSUME FencingInv, NEW w \in Workers, WorkerStep(w) \/ Crash(w)
  PROVE  Aside(w)
<1> DEFINE Kept == \A v \in Workers \ {w} : mine'[v] = mine[v] /\ before'[v] = before[v]
<1>1. mine \in [Workers -> SUBSET Ops] /\ before \in [Workers -> OpState \cup {"absent"}]
  BY DEF FencingInv, TypeOK
<1>2. ASSUME UNCHANGED <<mine, before>> PROVE Kept
  BY <1>2
<1>3. ASSUME NEW m, NEW b, mine' = [mine EXCEPT ![w] = m], before' = [before EXCEPT ![w] = b]
      PROVE  Kept
  BY <1>1, <1>3
<1>4. ASSUME NEW b, mine' = mine, before' = [before EXCEPT ![w] = b] PROVE Kept
  BY <1>1, <1>4
<1> HIDE DEF Kept
<1>5. ASSUME NextOp(w) PROVE Kept
  BY <1>3, <1>5 DEF NextOp
<1>6. ASSUME NEW to, StepReturned(w, to) PROVE Kept
  BY <1>2, <1>4, <1>5, <1>6 DEF StepReturned, driveVars
<1>7. CASE \/ BeginSigning(w) \/ BuildEnvelope(w) \/ PersistEnvelope(w) \/ HandlerError(w)
           \/ CheckExpiry(w) \/ WriteAhead(w) \/ LookupFound(w) \/ LookupSolid(w)
           \/ LookupUnknown(w)
  <2>1. Kept
    BY <1>2, <1>7 DEF BeginSigning, BuildEnvelope, PersistEnvelope, HandlerError, CheckExpiry,
       WriteAhead, LookupFound, LookupSolid, LookupUnknown, driveVars
  <2>2. QED
    BY <2>1, StepUndisturbed DEF Kept, Undisturbed, Aside
<1>8. CASE \/ Validate(w) \/ GiveUp(w) \/ Sign(w) \/ RebuildUnsent(w) \/ MarkBroadcast(w)
           \/ Confirm(w) \/ RebuildDead(w)
  <2>1. Kept
    BY <1>6, <1>8 DEF Validate, GiveUp, Sign, RebuildUnsent, MarkBroadcast, Confirm,
       RebuildDead, Rebuild, WriteAndReturn
  <2>2. QED
    BY <2>1, StepUndisturbed DEF Kept, Undisturbed, Aside
<1>9. CASE Send(w) \/ Settle(w) \/ QueryTimeout(w) \/ AwaitSolidity(w) \/ NotDead(w)
  <2>1. Kept
    BY <1>2, <1>6, <1>9 DEF Send, Settle, QueryTimeout, AwaitSolidity, NotDead, Park,
       WriteAndReturn, driveVars
  <2>2. QED
    BY <2>1, StepUndisturbed DEF Kept, Undisturbed, Aside
<1>10. CASE Claim(w) \/ LostClaim(w) \/ Release(w) \/ Crash(w)
  <2>1. Kept
    BY <1>3, <1>5, <1>10 DEF Claim, LostClaim, Release, Crash
  <2>2. QED
    BY <2>1, StepUndisturbed DEF Kept, Undisturbed, Aside
<1>11. QED
  BY <1>7, <1>8, <1>9, <1>10 DEF WorkerStep

-----------------------------------------------------------------------------
(*                            The abstract state                           *)

LEMMA SameWords == Untimed!TERMINAL = TERMINAL /\ Untimed!CLAIMABLE = CLAIMABLE
BY DEF Untimed!TERMINAL, Untimed!CLAIMABLE, Untimed!OpState, Untimed!TRANSITIONS,
   TERMINAL, CLAIMABLE, OpState, TRANSITIONS

(* A row is owned by the worker that holds its token. *)
LEMMA OwnerFacts ==
  FencingInv => \A o \in Ops : /\ \A w \in Workers : OwnerOf(o) = w <=> Holds(w, o)
                               /\ OwnerOf(o) \in Workers \cup {Nobody}
<1> SUFFICES ASSUME FencingInv, NEW o \in Ops
             PROVE  /\ \A w \in Workers : OwnerOf(o) = w <=> Holds(w, o)
                    /\ OwnerOf(o) \in Workers \cup {Nobody}
  OBVIOUS
<1>1. ASSUME NEW v \in Workers, NEW w \in Workers, Holds(v, o), Holds(w, o) PROVE v = w
  <2>1. ~(v \in Workers \ {w} /\ o \in mine[v] /\ o \in mine[w]) \/ snap[v][o].token # snap[w][o].token
    BY DEF FencingInv, SingleWriter
  <2>2. QED
    BY <1>1, <2>1 DEF Holds
<1>2. CASE \E w \in Workers : Holds(w, o)
  <2>1. OwnerOf(o) \in Workers /\ Holds(OwnerOf(o), o)
    BY <1>2 DEF OwnerOf
  <2>2. QED
    BY <1>1, <2>1
<1>3. CASE ~\E w \in Workers : Holds(w, o)
  <2>1. OwnerOf(o) = Nobody
    BY <1>3 DEF OwnerOf
  <2>2. QED
    BY <1>3, <2>1, NobodyAssumption
<1>4. QED
  BY <1>2, <1>3

LEMMA OwnerFactsNext ==
  FencingInv' => \A o \in Ops : /\ \A w \in Workers : OwnerOf(o)' = w <=> Holds(w, o)'
                                /\ OwnerOf(o)' \in Workers \cup {Nobody}
<1> DEFINE Facts == \A o \in Ops : /\ \A w \in Workers : OwnerOf(o) = w <=> Holds(w, o)
                                   /\ OwnerOf(o) \in Workers \cup {Nobody}
<1>1. FencingInv => Facts
  BY OwnerFacts
<1> HIDE DEF Facts
<1>2. FencingInv' => Facts'
  BY <1>1, PTL
<1>3. QED
  BY <1>2 DEF Facts

LEMMA OwnerStays ==
  ASSUME FencingInv, FencingInv', NEW o \in Ops, \A v \in Workers : Holds(v, o)' <=> Holds(v, o)
  PROVE  OwnerOf(o)' = OwnerOf(o)
BY OwnerFacts, OwnerFactsNext, NobodyAssumption

LEMMA OwnerGone ==
  ASSUME FencingInv', NEW o \in Ops, \A v \in Workers : ~Holds(v, o)'
  PROVE  OwnerOf(o)' = Nobody
BY OwnerFactsNext

(* A worker that stands still keeps its phase while its row keeps its token. *)
LEMMA PhaseStays ==
  ASSUME FencingInv, NEW v \in Workers, pc'[v] = pc[v], cur'[v] = cur[v], snap'[v] = snap[v],
         before'[v] = before[v],
         cur[v] \in Ops => rows'[cur[v]].token = rows[cur[v]].token
  PROVE  PhaseOf(v)' = PhaseOf(v)
<1>1. CASE pc[v] = "idle"
  BY <1>1 DEF PhaseOf
<1>2. CASE pc[v] # "idle"
  <2>1. cur[v] \in Ops
    BY <1>2, Busy
  <2>2. op(v)' = op(v) /\ RowOf(v)'.token = RowOf(v).token
    BY <2>1 DEF op, RowOf
  <2>3. QED
    BY <1>2, <2>2 DEF PhaseOf
<1>3. QED
  BY <1>1, <1>2

(* The phase of the worker at each label, while it holds its token. *)
LEMMA PhaseAt ==
  ASSUME NEW w, pc[w] # "idle", op(w).token = RowOf(w).token
  PROVE  /\ pc[w] = "proof" => PhaseOf(w) = "unknown"
         /\ pc[w] = "release" => PhaseOf(w) = "park"
         /\ pc[w] \in {"send", "settle"} =>
              PhaseOf(w) = IF before[w] = "signed" THEN "send" ELSE "resend"
         /\ pc[w] \in {"step", "build", "persist", "sign", "ahead", "found", "confirm"} =>
              PhaseOf(w) = "ready"
BY DEF PhaseOf

LEMMA PhaseAtNext ==
  ASSUME NEW w, pc'[w] # "idle", op(w)'.token = RowOf(w)'.token
  PROVE  /\ pc'[w] = "proof" => PhaseOf(w)' = "unknown"
         /\ pc'[w] = "release" => PhaseOf(w)' = "park"
         /\ pc'[w] \in {"send", "settle"} =>
              PhaseOf(w)' = IF before'[w] = "signed" THEN "send" ELSE "resend"
         /\ pc'[w] \in {"step", "build", "persist", "sign", "ahead", "found", "confirm"} =>
              PhaseOf(w)' = "ready"
BY DEF PhaseOf

(* One worker changes its phase. *)
LEMMA OnePhase ==
  ASSUME NEW w \in Workers, NEW p, PhaseOf(w)' = p,
         \A v \in Workers \ {w} : PhaseOf(v)' = PhaseOf(v)
  PROVE  Phases' = [Phases EXCEPT ![w] = p]
BY DEF Phases

(* Solid chain time never goes back. *)
LEMMA SolidRises ==
  ASSUME FencingInv, FencingInv', [SluiceNext]_vars
  PROVE  /\ solid_now' >= solid_now /\ DOMAIN txs \subseteq DOMAIN txs'
         /\ solid_now \in Nat /\ solid_now' \in Nat
<1> SUFFICES solid_now' >= solid_now /\ DOMAIN txs \subseteq DOMAIN txs'
  <2>1. head' \in Nat \ {0} /\ blockTime' \in [1..head' -> Nat]
    BY DEF FencingInv, TypeOK, NodeTypeOK
  <2>2. SolidHeight' \in 1..head'
    <3>1. head' \in Nat \ {0} /\ SolidityLag \in Nat
      BY <2>1, NodeAssumption
    <3>2. ASSUME NEW h \in Nat \ {0}, NEW l \in Nat
          PROVE  (IF h - l >= 1 THEN h - l ELSE 1) \in 1..h
      BY SMTT(30)
    <3>3. QED
      BY <3>1, <3>2 DEF SolidHeight, solid_block
  <2>3. solid_now' \in Nat /\ solid_now \in Nat
    BY <2>1, <2>2, SolidNotAhead DEF solid_now, FencingInv, TypeOK
  <2>4. QED
    BY <2>3
<1>1. /\ solid_now \in Nat /\ SolidHeight \in 1..head /\ NodeTypeOK /\ ChainRules
      /\ NodeTypeOK' /\ ChainRules'
  BY SolidNotAhead DEF FencingInv, TypeOK
<1>2. ASSUME head' = head, blockTime' = blockTime PROVE solid_now' = solid_now
  BY <1>2 DEF solid_now, SolidHeight, solid_block
<1>3. ASSUME UNCHANGED nodeVars PROVE solid_now' >= solid_now /\ DOMAIN txs \subseteq DOMAIN txs'
  <2>1. solid_now' = solid_now /\ txs' = txs
    BY <1>2, <1>3 DEF nodeVars
  <2>2. QED
    BY <1>1, <2>1, SMT
<1>4. CASE MineBlock
  <2>1. /\ head' = head + 1
        /\ blockTime' = [h \in 1..(head + 1) |-> IF h = head + 1 THEN NextBlockTime ELSE blockTime[h]]
        /\ DOMAIN txs' = DOMAIN txs /\ head \in Nat \ {0}
    BY <1>1, <1>4, BlockKeepsNode DEF MineBlock, produce_block, NodeTypeOK
  <2>2. SolidHeight' \in 1..head' /\ SolidHeight <= SolidHeight' /\ head \in 1..head
    BY <1>1, <2>1, NodeAssumption, SMT DEF SolidHeight, solid_block
  <2>3. blockTime'[SolidHeight] = blockTime[SolidHeight] /\ blockTime' \in [1..head' -> Nat]
    BY <1>1, <2>1, SMT DEF NodeTypeOK
  <2>4. blockTime'[SolidHeight'] >= blockTime'[SolidHeight]
    <3>1. \A i, j \in 1..head' : i < j => blockTime'[i] < blockTime'[j]
      BY <1>1 DEF ChainRules
    <3>2. SolidHeight \in 1..head'
      BY <1>1, <2>1, SMT
    <3>3. QED
      BY <2>2, <2>3, <3>1, <3>2, SMT
  <2>5. QED
    BY <2>1, <2>3, <2>4 DEF solid_now
<1>5. ASSUME NEW w \in Workers, Send(w)
      PROVE  solid_now' >= solid_now /\ DOMAIN txs \subseteq DOMAIN txs'
  <2>1. PICK code : broadcast(op(w).signed, code)
    BY <1>5 DEF Send
  <2>2. op(w).signed \in Txids
    BY <1>5, SignedEnvelope DEF Send, FencingInv, Control, ControlOf
  <2>3. DOMAIN txs \subseteq DOMAIN txs' /\ head' = head /\ blockTime' = blockTime
    BY <1>1, <2>1, <2>2, BroadcastKeepsNode
  <2>4. QED
    BY <1>1, <1>2, <2>3, SMT
<1>6. ASSUME NEW w \in Workers, WorkerStep(w) \/ Crash(w), ~Send(w)
      PROVE  UNCHANGED nodeVars
  <2>1. CASE QuietStep(w)
    BY <2>1, QuietRows
  <2>2. CASE \E row : Write(w, row)
    BY <2>2 DEF Write
  <2>3. QED
    BY <1>6, <2>1, <2>2 DEF WorkerStep, QuietStep, Validate, BeginSigning, GiveUp,
       PersistEnvelope, Sign, RebuildUnsent, WriteAhead, Settle, MarkBroadcast, Confirm,
       RebuildDead, Rebuild, WriteAndReturn
<1>7. QED
  <2>1. CASE \E w \in Workers : WorkerStep(w) \/ Crash(w)
    BY <1>3, <1>5, <1>6, <2>1
  <2>2. CASE ClockTick \/ (\E o \in Ops : Submit(o)) \/ UNCHANGED vars
    BY <1>3, <2>2 DEF ClockTick, Tick, Submit, vars
  <2>3. QED
    BY <1>4, <2>1, <2>2 DEF SluiceNext

-----------------------------------------------------------------------------
(*                              The envelopes                              *)

InFlight == {"signed", "broadcasting", "broadcast"}

LEMMA EnvelopeStays ==
  ASSUME now' = now, head' = head, blockTime' = blockTime, txs' = txs, NEW o \in Ops,
         rows'[o].state = rows[o].state, rows'[o].signed = rows[o].signed
  PROVE  EnvelopeOf(o)' = EnvelopeOf(o)
<1>1. \A t : FateOf(t)' = FateOf(t)
  BY DEF FateOf, Landed, IsSolid, solid_block
<1>2. solid_now' = solid_now
  BY DEF solid_now, SolidHeight, solid_block
<1>3. QED
  BY <1>1, <1>2 DEF EnvelopeOf

(* What the abstract envelope of a row in flight says. *)
LEMMA EnvelopeReads ==
  ASSUME NEW o \in Ops, rows[o].state \in InFlight
  PROVE  /\ RowEnvelopes[o].fate = FateOf(rows[o].signed)
         /\ RowEnvelopes[o].expired <=> rows[o].signed.exp <= now
         /\ RowEnvelopes[o].provable <=> Provable(rows[o].signed)
<1>1. RowEnvelopes[o] = [fate |-> FateOf(rows[o].signed), expired |-> rows[o].signed.exp <= now,
                         provable |-> Provable(rows[o].signed)]
  BY DEF RowEnvelopes, EnvelopeOf, InFlight, Provable
<1>2. /\ RowEnvelopes[o].fate = FateOf(rows[o].signed)
      /\ RowEnvelopes[o].expired = (rows[o].signed.exp <= now)
      /\ RowEnvelopes[o].provable = Provable(rows[o].signed)
  BY <1>1, SMT
<1>3. QED
  BY <1>2

LEMMA FateReads ==
  ASSUME NEW t
  PROVE  /\ FateOf(t) \in {"unsent", "accepted", "included", "solid"}
         /\ FateOf(t) = "unsent" <=> t \notin DOMAIN txs
         /\ FateOf(t) = "accepted" <=> t \in DOMAIN txs /\ ~Landed(t)
         /\ FateOf(t) = "included" <=> Landed(t) /\ ~IsSolid(t)
         /\ FateOf(t) = "solid" <=> Landed(t) /\ IsSolid(t)
BY DEF FateOf, Landed

-----------------------------------------------------------------------------
(*                       Rows given up and rows taken                      *)

(* run_once turns to its next row. *)
LEMMA NextOpIsNextOp ==
  ASSUME FencingInv, NEW w \in Workers, NextOp(w),
         \A o \in mine[w] \ {cur[w]} :
           snap'[w][o] = snap[w][o] /\ rows'[o].token = rows[o].token,
         \A v \in Workers \ {w} : PhaseOf(v)' = PhaseOf(v)
  PROVE  Untimed!NextOp(w)
<1>1. /\ pc \in [Workers -> Labels] /\ cur \in [Workers -> Ops \cup {NoOp}]
      /\ mine' = [mine EXCEPT ![w] = mine[w] \ {cur[w]}] /\ mine[w] \subseteq Ops
  BY DEF NextOp, FencingInv, TypeOK
<1>2. CASE mine[w] \ {cur[w]} = {} /\ Goto(w, "idle") /\ cur' = [cur EXCEPT ![w] = NoOp]
  <2>1. PhaseOf(w)' = "idle"
    BY <1>1, <1>2 DEF PhaseOf, Goto
  <2>2. Phases' = [Phases EXCEPT ![w] = "idle"]
    BY <2>1, OnePhase
  <2>3. QED
    BY <1>1, <1>2, <2>2 DEF Untimed!NextOp, Untimed!Enter
<1>3. ASSUME NEW o \in mine[w] \ {cur[w]}, Goto(w, "step"), cur' = [cur EXCEPT ![w] = o]
      PROVE  Untimed!NextOp(w)
  <2>1. pc'[w] = "step" /\ cur'[w] = o /\ o \in Ops
    BY <1>1, <1>3 DEF Goto
  <2>2. op(w)'.token = snap[w][o].token /\ RowOf(w)'.token = rows[o].token
    BY <2>1 DEF op, RowOf
  <2>3. Owners[o] = w <=> Holds(w, o)
    BY <2>1, OwnerFacts DEF Owners
  <2>4. PhaseOf(w)' = IF Owners[o] = w THEN "ready" ELSE "lost"
    <3>1. CASE Owners[o] = w
      BY <2>1, <2>2, <2>3, <3>1, PhaseAtNext DEF Holds
    <3>2. CASE Owners[o] # w
      BY <2>1, <2>2, <2>3, <3>2 DEF Holds, PhaseOf
    <3>3. QED
      BY <3>1, <3>2
  <2>5. Phases' = [Phases EXCEPT ![w] = IF Owners[o] = w THEN "ready" ELSE "lost"]
    BY <2>4, OnePhase
  <2>6. QED
    BY <1>1, <1>3, <2>5 DEF Untimed!NextOp, Untimed!Enter
<1>4. QED
  BY <1>2, <1>3 DEF NextOp

(* A worker under the current token has a true copy of its row. *)
LEMMA OwnerCopy ==
  ASSUME FencingInv, NEW w \in Workers, pc[w] # "idle"
  PROVE  /\ cur[w] \in Ops
         /\ op(w).token = RowOf(w).token => op(w) = RowOf(w)
         /\ op(w).token # RowOf(w).token => Phases[w] = "lost"
<1>1. cur[w] \in Ops /\ cur[w] \in mine[w]
  BY Busy
<1>2. op(w).token = RowOf(w).token => op(w) = RowOf(w)
  BY <1>1 DEF FencingInv, SingleWriter, op, RowOf
<1>3. op(w).token # RowOf(w).token => Phases[w] = "lost"
  BY DEF Phases, PhaseOf
<1>4. QED
  BY <1>1, <1>2, <1>3

(* Nothing is written and nobody gives up a claim. *)
LEMMA RowsAtRest ==
  ASSUME FencingInv, FencingInv', rows' = rows, arrival' = arrival, now' = now, UNCHANGED nodeVars,
         \A v \in Workers, o \in Ops : Holds(v, o)' <=> Holds(v, o)
  PROVE  UNCHANGED Untimed!rowVars
<1>1. head' = head /\ blockTime' = blockTime /\ txs' = txs
  BY DEF nodeVars
<1>2. RowStates' = RowStates /\ RowAttempts' = RowAttempts
  BY DEF RowStates, RowAttempts
<1>3. Leases' = Leases
  BY DEF Leases, LeaseOver
<1>4. \A o \in Ops : OwnerOf(o)' = OwnerOf(o)
  BY OwnerStays
<1>5. Owners' = Owners
  BY <1>4 DEF Owners
<1>6. \A o \in Ops : EnvelopeOf(o)' = EnvelopeOf(o)
  BY <1>1, EnvelopeStays
<1>7. RowEnvelopes' = RowEnvelopes
  BY <1>6 DEF RowEnvelopes
<1>8. QED
  BY <1>2, <1>3, <1>5, <1>7 DEF Untimed!rowVars

(* A worker drops the row it drives and the others stay as they are. *)
LEMMA Dropped ==
  ASSUME FencingInv, FencingInv', NEW w \in Workers, Aside(w), pc[w] # "idle", NextOp(w),
         NEW c, c = cur[w], snap' = [snap EXCEPT ![w][cur[w]] = NoRow],
         \A o \in Ops : rows'[o].token = rows[o].token
  PROVE  /\ Untimed!NextOp(w)
         /\ \A o \in Ops \ {c} : OwnerOf(o)' = OwnerOf(o)
         /\ \A v \in Workers : Holds(v, c)' <=> v # w /\ Holds(v, c)
<1>1. c \in Ops /\ c \in mine[w]
  BY Busy
<1>2. snap \in [Workers -> [Ops -> Rows]] /\ mine \in [Workers -> SUBSET Ops]
  BY DEF FencingInv, TypeOK
<1>3. \A o \in Ops \ {c} : snap'[w][o] = snap[w][o]
  BY <1>1, <1>2
<1>4. \A v \in Workers \ {w} : PhaseOf(v)' = PhaseOf(v)
  BY PhaseStays DEF Aside
<1>5. Untimed!NextOp(w)
  <2>1. \A o \in mine[w] \ {cur[w]} : o \in Ops \ {c}
    BY <1>2
  <2>2. QED
    BY <1>3, <1>4, <2>1, NextOpIsNextOp
<1>6. mine'[w] = mine[w] \ {c}
  BY <1>1, <1>2 DEF NextOp
<1>7. \A o \in Ops \ {c} : \A v \in Workers : Holds(v, o)' <=> Holds(v, o)
  BY <1>3, <1>6 DEF Holds, Aside
<1>8. \A v \in Workers : Holds(v, c)' <=> v # w /\ Holds(v, c)
  BY <1>1, <1>6 DEF Holds, Aside
<1>9. \A o \in Ops \ {c} : OwnerOf(o)' = OwnerOf(o)
  BY <1>7, OwnerStays
<1>10. QED
  BY <1>5, <1>8, <1>9

(* A worker that lost its claim drops the row and nothing else happens. *)
LEMMA LostIsDrop ==
  ASSUME FencingInv, FencingInv', NEW w \in Workers, Aside(w), pc[w] # "idle", NextOp(w),
         op(w).token # RowOf(w).token, snap' = [snap EXCEPT ![w][cur[w]] = NoRow],
         rows' = rows, arrival' = arrival, now' = now, UNCHANGED nodeVars
  PROVE  Untimed!Drop(w)
<1>1. PICK c \in Ops : c = cur[w]
  BY Busy
<1>2. /\ Untimed!NextOp(w) /\ \A o \in Ops \ {c} : OwnerOf(o)' = OwnerOf(o)
      /\ \A v \in Workers : Holds(v, c)' <=> v # w /\ Holds(v, c)
  BY <1>1, Dropped
<1>3. ~Holds(w, c)
  BY <1>1 DEF Holds, op, RowOf
<1>4. OwnerOf(c)' = OwnerOf(c)
  BY <1>2, <1>3, OwnerStays
<1>5. Owners' = Owners
  BY <1>2, <1>4 DEF Owners
<1>6. RowStates' = RowStates /\ RowAttempts' = RowAttempts
  BY DEF RowStates, RowAttempts
<1>7. Leases' = Leases
  BY DEF Leases, LeaseOver
<1>8. \A o \in Ops : EnvelopeOf(o)' = EnvelopeOf(o)
  BY EnvelopeStays DEF nodeVars
<1>9. RowEnvelopes' = RowEnvelopes
  BY <1>8 DEF RowEnvelopes
<1>10. Phases[w] = "lost"
  BY OwnerCopy
<1>11. QED
  BY <1>2, <1>5, <1>6, <1>7, <1>9, <1>10 DEF Untimed!Drop, Untimed!rowVars

LEMMA LostClaimIsDrop ==
  ASSUME FencingInv, FencingInv', NEW w \in Workers, LostClaim(w)
  PROVE  Untimed!Drop(w)
<1>1. /\ NextOp(w) /\ snap' = [snap EXCEPT ![w][cur[w]] = NoRow] /\ AtCas(w) /\ ~CasHit(w)
      /\ rows' = rows /\ arrival' = arrival /\ now' = now /\ UNCHANGED nodeVars
  BY DEF LostClaim, storeVars
<1>2. Aside(w)
  BY StepAside DEF WorkerStep
<1>3. pc[w] # "idle"
  BY <1>1 DEF AtCas, AtStep, AtBuild
<1>4. op(w).state \in {"requested", "validated", "signed", "signing", "broadcasting", "broadcast"}
  BY <1>1 DEF AtCas, AtStep, AtBuild, FencingInv, Control, ControlOf
<1>5. op(w).state \notin TERMINAL
  BY <1>4, States
<1>6. op(w).token # RowOf(w).token
  <2>1. ASSUME op(w).token = RowOf(w).token PROVE FALSE
    <3>1. op(w) = RowOf(w)
      BY <1>3, <2>1, OwnerCopy
    <3>2. QED
      BY <1>1, <1>5, <3>1 DEF CasHit, CasMatches, RowOf
  <2>2. QED
    BY <2>1
<1>7. QED
  BY <1>1, <1>2, <1>3, <1>6, LostIsDrop

(* The owner gives its row back: the lease ends and nobody owns the row. *)
LEMMA OwnerReleases ==
  ASSUME StoreKind = "memory", FencingInv, FencingInv', NEW w \in Workers, Release(w),
         op(w).token = RowOf(w).token
  PROVE  Untimed!Release(w)
<1>1. PICK c \in Ops : c = cur[w] /\ c \in mine[w]
  BY Busy DEF Release
<1>2. /\ pc[w] = "release" /\ NextOp(w) /\ snap' = [snap EXCEPT ![w][cur[w]] = NoRow]
      /\ arrival' = arrival /\ now' = now /\ UNCHANGED nodeVars
      /\ rows' = [rows EXCEPT ![c].lease = NoLease]
  BY <1>1 DEF Release, release, RowOf
<1>3. rows \in [Ops -> Rows] /\ rows[c] \in Rows /\ now \in Nat
  BY DEF FencingInv, TypeOK, NodeTypeOK
<1>4. rows'[c] = [rows[c] EXCEPT !.lease = NoLease] /\ \A o \in Ops \ {c} : rows'[o] = rows[o]
  BY <1>2, <1>3
<1>5. /\ rows'[c].state = rows[c].state /\ rows'[c].token = rows[c].token
      /\ rows'[c].attempts = rows[c].attempts /\ rows'[c].signed = rows[c].signed
      /\ rows'[c].lease = NoLease
  BY <1>3, <1>4, SMT DEF Rows
<1>6. \A o \in Ops : /\ rows'[o].state = rows[o].state /\ rows'[o].token = rows[o].token
                     /\ rows'[o].attempts = rows[o].attempts /\ rows'[o].signed = rows[o].signed
  BY <1>4, <1>5
<1>7. Aside(w)
  BY StepAside DEF WorkerStep
<1>8. /\ Untimed!NextOp(w) /\ \A o \in Ops \ {c} : OwnerOf(o)' = OwnerOf(o)
      /\ \A v \in Workers : Holds(v, c)' <=> v # w /\ Holds(v, c)
  BY <1>1, <1>2, <1>6, <1>7, Dropped
<1>9. \A v \in Workers \ {w} : ~Holds(v, c)
  <2>1. snap[w][c].token = rows[c].token
    BY <1>1 DEF op, RowOf
  <2>2. \A v \in Workers \ {w} : c \in mine[v] => snap[v][c].token # snap[w][c].token
    BY <1>1 DEF FencingInv, SingleWriter
  <2>3. QED
    BY <2>1, <2>2 DEF Holds
<1>10. OwnerOf(c)' = Nobody
  BY <1>8, <1>9, OwnerGone
<1>11. Owners' = [Owners EXCEPT ![cur[w]] = Nobody]
  BY <1>1, <1>8, <1>10 DEF Owners
<1>12. LeaseOver(c)'
  <2>1. rows'[c].lease <= now'
    BY <1>2, <1>3, <1>5, SMT DEF NoLease
  <2>2. QED
    BY <2>1 DEF LeaseOver
<1>13. Leases' = [Leases EXCEPT ![cur[w]] = FALSE]
  <2>1. \A o \in Ops \ {c} : (rows[o].state \in CLAIMABLE /\ ~LeaseOver(o))' = (rows[o].state \in CLAIMABLE /\ ~LeaseOver(o))
    BY <1>2, <1>4 DEF LeaseOver
  <2>2. (rows[c].state \in CLAIMABLE /\ ~LeaseOver(c))' = FALSE
    BY <1>12
  <2>3. QED
    BY <1>1, <2>1, <2>2 DEF Leases
<1>14. RowStates' = RowStates /\ RowAttempts' = RowAttempts
  BY <1>6 DEF RowStates, RowAttempts
<1>15. \A o \in Ops : EnvelopeOf(o)' = EnvelopeOf(o)
  BY <1>2, <1>6, EnvelopeStays DEF nodeVars
<1>16. RowEnvelopes' = RowEnvelopes
  BY <1>15 DEF RowEnvelopes
<1>17. Phases[w] = "park"
  BY <1>2, PhaseAt DEF Phases
<1>18. QED
  BY <1>2, <1>8, <1>11, <1>13, <1>14, <1>16, <1>17 DEF Untimed!Release

LEMMA ReleaseIsRelease ==
  ASSUME StoreKind = "memory", FencingInv, FencingInv', NEW w \in Workers, Release(w)
  PROVE  Untimed!Release(w) \/ Untimed!Drop(w)
<1>1. CASE op(w).token # RowOf(w).token
  <2>1. /\ pc[w] # "idle" /\ NextOp(w) /\ snap' = [snap EXCEPT ![w][cur[w]] = NoRow]
        /\ rows' = rows /\ arrival' = arrival /\ now' = now /\ UNCHANGED nodeVars
    BY <1>1 DEF Release, release, RowOf
  <2>2. Aside(w)
    BY StepAside DEF WorkerStep
  <2>3. QED
    BY <1>1, <2>1, <2>2, LostIsDrop
<1>2. QED
  BY <1>1, OwnerReleases

LEMMA CrashIsCrash ==
  ASSUME FencingInv, FencingInv', NEW w \in Workers, Crash(w)
  PROVE  Untimed!Crash(w)
<1>1. /\ pc[w] # "idle" /\ rows' = rows /\ arrival' = arrival /\ now' = now /\ UNCHANGED nodeVars
      /\ pc' = [pc EXCEPT ![w] = "idle"] /\ mine' = [mine EXCEPT ![w] = {}]
      /\ cur' = [cur EXCEPT ![w] = NoOp]
  BY DEF Crash, Goto, storeVars
<1>2. pc'[w] = "idle" /\ mine'[w] = {}
  BY <1>1 DEF FencingInv, TypeOK
<1>3. Aside(w)
  BY StepAside
<1>4. \A v \in Workers \ {w} : PhaseOf(v)' = PhaseOf(v)
  BY <1>1, <1>3, PhaseStays DEF Aside
<1>5. PhaseOf(w)' = "idle"
  BY <1>2 DEF PhaseOf
<1>6. Phases' = [Phases EXCEPT ![w] = "idle"]
  BY <1>4, <1>5, OnePhase
<1>7. Phases[w] # "idle"
  BY <1>1 DEF Phases, PhaseOf
<1>8. \A o \in Ops : \A v \in Workers : Holds(v, o)' <=> v # w /\ Holds(v, o)
  BY <1>1, <1>2, <1>3 DEF Holds, Aside
<1>9. \A o \in Ops : OwnerOf(o)' = IF OwnerOf(o) = w THEN Nobody ELSE OwnerOf(o)
  <2>1. TAKE o \in Ops
  <2>2. CASE Holds(w, o)
    <3>1. \A v \in Workers : Holds(v, o) => v = w
      BY <2>2, OwnerFacts
    <3>2. OwnerOf(o)' = Nobody
      BY <1>8, <3>1, OwnerGone
    <3>3. QED
      BY <2>2, <3>2, OwnerFacts
  <2>3. CASE ~Holds(w, o)
    <3>1. OwnerOf(o)' = OwnerOf(o)
      BY <1>8, <2>3, OwnerStays
    <3>2. QED
      BY <2>3, <3>1, OwnerFacts
  <2>4. QED
    BY <2>2, <2>3
<1>10. Owners' = [o \in Ops |-> IF Owners[o] = w THEN Nobody ELSE Owners[o]]
  BY <1>9 DEF Owners
<1>11. RowStates' = RowStates /\ RowAttempts' = RowAttempts
  BY <1>1 DEF RowStates, RowAttempts
<1>12. Leases' = Leases
  BY <1>1 DEF Leases, LeaseOver
<1>13. \A o \in Ops : EnvelopeOf(o)' = EnvelopeOf(o)
  BY <1>1, EnvelopeStays DEF nodeVars
<1>14. RowEnvelopes' = RowEnvelopes
  BY <1>13 DEF RowEnvelopes
<1>15. QED
  BY <1>1, <1>6, <1>7, <1>10, <1>11, <1>12, <1>14 DEF Untimed!Crash, Untimed!Enter

LEMMA SameCardinality == ASSUME NEW S PROVE Untimed!Cardinality(S) = Cardinality(S)
BY DEF Untimed!Cardinality, Cardinality

(* What the memory store hands out is what the untimed claim hands out. *)
LEMMA SamePicked ==
  ASSUME StoreKind = "memory", NEW P \in Batches
  PROVE  P = Untimed!Picked
<1>1. \A o \in Ops : RowStates[o] = rows[o].state /\ (Leases[o] <=> rows[o].state \in CLAIMABLE /\ ~LeaseOver(o))
  BY DEF RowStates, Leases
<1>2. Untimed!Eligible = Eligible
  BY <1>1, SameWords DEF Untimed!Eligible, Eligible
<1>3. P = Oldest(Eligible)
  BY DEF Batches
<1>4. QED
  BY <1>2, <1>3, SameCardinality DEF Untimed!Picked, Oldest

(* The rows claim hands out, and those it does not. *)
LEMMA ClaimedRows ==
  ASSUME StoreKind = "memory", LeaseRuns, FencingInv, FencingInv', NEW P \in Batches, claim(P), now' = now,
         NEW o \in Ops
  PROVE  /\ rows'[o].state = rows[o].state /\ rows'[o].attempts = rows[o].attempts
         /\ rows'[o].signed = rows[o].signed
         /\ o \notin P => rows'[o] = rows[o]
         /\ o \in P => /\ rows'[o] = claimed(o) /\ rows'[o].token = rows[o].token + 1
                       /\ rows[o].state \in CLAIMABLE /\ ~LeaseOver(o)'
<1>1. TypeOK /\ rows[o] \in Rows /\ now \in Nat /\ Lease \in Nat
  BY StoreAssumption DEF FencingInv, TypeOK, NodeTypeOK
<1>2. rows'[o] = IF o \in P THEN claimed(o) ELSE rows[o]
  BY DEF claim
<1>3. /\ claimed(o).token = rows[o].token + 1 /\ claimed(o).state = rows[o].state
      /\ claimed(o).signed = rows[o].signed
  BY <1>1, ClaimedRow
<1>4. claimed(o).attempts = rows[o].attempts /\ claimed(o).lease = now + Lease
  BY <1>1, SMT DEF claimed, Rows
<1>5. ASSUME o \in P PROVE rows[o].state \in CLAIMABLE /\ ~LeaseOver(o)'
  <2>1. rows[o].state \in CLAIMABLE
    BY <1>5, PickedRows
  <2>2. rows'[o].lease = now + Lease
    BY <1>2, <1>4, <1>5
  <2>3. ~(rows'[o].lease <= now')
    BY <1>1, <2>2, SMT DEF LeaseRuns
  <2>4. QED
    BY <2>1, <2>3 DEF LeaseOver
<1>6. QED
  BY <1>2, <1>3, <1>4, <1>5

(* Whoever drove a row that is handed out has lost it. *)
LEMMA ClaimPhases ==
  ASSUME StoreKind = "memory", LeaseRuns, FencingInv, FencingInv', ProgressInv, NEW w \in Workers, Aside(w),
         NEW P \in Batches, claim(P), now' = now, NEW v \in Workers \ {w}
  PROVE  PhaseOf(v)' = IF cur[v] \in P THEN "lost" ELSE PhaseOf(v)
<1>1. /\ pc'[v] = pc[v] /\ cur'[v] = cur[v] /\ snap'[v] = snap[v] /\ before'[v] = before[v]
      /\ mine'[v] = mine[v] /\ P \subseteq Ops
  BY PickedRows DEF Aside
<1>2. CASE cur[v] \in P
  <2>1. PICK c \in Ops : c = cur[v] /\ c \in P
    BY <1>1, <1>2
  <2>2. pc[v] # "idle"
    BY <2>1, SluiceAssumption DEF ProgressInv, ThreadOf
  <2>3. c \in mine[v] /\ snap[v][c].token \in Nat /\ rows[c].token \in Nat
    <3>1. snap[v][c] \in Rows /\ rows[c] \in Rows /\ c \in mine[v]
      BY <2>1, <2>2, Busy DEF op
    <3>2. QED
      BY <3>1 DEF Rows
  <2>4. snap[v][c].token <= rows[c].token
    BY <2>3 DEF FencingInv, SingleWriter
  <2>5. rows'[c].token = rows[c].token + 1
    BY <2>1, ClaimedRows
  <2>6. snap[v][c].token # rows'[c].token
    BY <2>3, <2>4, <2>5, SMT
  <2>7. PhaseOf(v)' = "lost"
    BY <1>1, <2>1, <2>2, <2>6 DEF PhaseOf, op, RowOf
  <2>8. QED
    BY <1>2, <2>7
<1>3. CASE cur[v] \notin P
  <2>1. cur[v] \in Ops => rows'[cur[v]] = rows[cur[v]]
    BY <1>3, ClaimedRows
  <2>2. PhaseOf(v)' = PhaseOf(v)
    BY <1>1, <2>1, PhaseStays
  <2>3. QED
    BY <1>3, <2>2
<1>4. QED
  BY <1>2, <1>3

LEMMA ClaimIsClaim ==
  ASSUME StoreKind = "memory", LeaseRuns, FencingInv, FencingInv', ProgressInv,
         NEW w \in Workers, Claim(w)
  PROVE  Untimed!Claim(w)
<1>1. PICK P \in Batches :
        /\ claim(P)
        /\ snap' = [snap EXCEPT ![w] = [o \in Ops |-> IF o \in P THEN claimed(o) ELSE NoRow]]
        /\ mine' = [mine EXCEPT ![w] = P]
        /\ \E o \in P : cur' = [cur EXCEPT ![w] = o]
  BY DEF Claim
<1>2. /\ pc[w] = "idle" /\ now' = now /\ UNCHANGED nodeVars /\ pc'[w] = "step" /\ arrival' = arrival
  BY <1>1 DEF Claim, claim, Goto, FencingInv, TypeOK
<1>3. P = Untimed!Picked /\ P # {} /\ P \subseteq Ops
  BY <1>1, SamePicked, PickedRows
<1>4. mine[w] = {} /\ mine'[w] = P /\ Aside(w)
  <2>1. mine[w] = {}
    BY <1>2 DEF ProgressInv, ThreadOf
  <2>2. QED
    BY <1>1, <2>1, StepAside DEF FencingInv, TypeOK, WorkerStep
<1>5. \A o \in Ops :
         /\ rows'[o].state = rows[o].state /\ rows'[o].attempts = rows[o].attempts
         /\ rows'[o].signed = rows[o].signed
  BY <1>1, <1>2, ClaimedRows
<1>6. \A o \in Ops \ P : rows'[o] = rows[o]
  BY <1>1, <1>2, ClaimedRows
<1>7. \A o \in P : rows'[o] = claimed(o) /\ rows[o].state \in CLAIMABLE /\ ~LeaseOver(o)'
  BY <1>1, <1>2, <1>3, ClaimedRows
<1>8. \A o \in P : snap'[w][o] = rows'[o]
  BY <1>1, <1>3, <1>7 DEF FencingInv, TypeOK
<1>9. \A o \in Ops : OwnerOf(o)' = IF o \in P THEN w ELSE OwnerOf(o)
  <2>1. TAKE o \in Ops
  <2>2. CASE o \in P
    <3>1. Holds(w, o)'
      BY <1>4, <1>8, <2>2 DEF Holds
    <3>2. OwnerOf(o)' = w
      BY <3>1, OwnerFactsNext
    <3>3. QED
      BY <2>2, <3>2
  <2>3. CASE o \notin P
    <3>1. \A v \in Workers : Holds(v, o)' <=> Holds(v, o)
      BY <1>4, <1>6, <2>3 DEF Holds, Aside
    <3>2. OwnerOf(o)' = OwnerOf(o)
      BY <3>1, OwnerStays
    <3>3. QED
      BY <2>3, <3>2
  <2>4. QED
    BY <2>2, <2>3
<1>10. Owners' = [o \in Ops |-> IF o \in Untimed!Picked THEN w ELSE Owners[o]]
  BY <1>3, <1>9 DEF Owners
<1>11. Leases' = [o \in Ops |-> Leases[o] \/ o \in Untimed!Picked]
  <2>1. \A o \in Ops : (rows[o].state \in CLAIMABLE /\ ~LeaseOver(o))'
                         <=> (rows[o].state \in CLAIMABLE /\ ~LeaseOver(o)) \/ o \in P
    <3>1. TAKE o \in Ops
    <3>2. CASE o \in P
      BY <1>5, <1>7, <3>2
    <3>3. CASE o \notin P
      BY <1>2, <1>6, <3>3 DEF LeaseOver
    <3>4. QED
      BY <3>2, <3>3
  <2>2. \A o \in Ops : (rows[o].state \in CLAIMABLE /\ ~LeaseOver(o))'
                         = ((rows[o].state \in CLAIMABLE /\ ~LeaseOver(o)) \/ o \in P)
    BY <2>1
  <2>3. QED
    BY <1>3, <2>2 DEF Leases
<1>12. RowStates' = RowStates /\ RowAttempts' = RowAttempts
  BY <1>5 DEF RowStates, RowAttempts
<1>13. \A o \in Ops : EnvelopeOf(o)' = EnvelopeOf(o)
  BY <1>2, <1>5, EnvelopeStays DEF nodeVars
<1>14. RowEnvelopes' = RowEnvelopes
  BY <1>13 DEF RowEnvelopes
<1>15. PhaseOf(w)' = "ready"
  <2>1. cur'[w] \in P
    BY <1>1 DEF FencingInv, TypeOK
  <2>2. op(w)'.token = RowOf(w)'.token
    BY <1>8, <2>1 DEF op, RowOf
  <2>3. QED
    BY <1>2, <2>2, PhaseAtNext
<1>16. \A v \in Workers \ {w} : PhaseOf(v)' = IF cur[v] \in P THEN "lost" ELSE PhaseOf(v)
  BY <1>1, <1>2, <1>4, ClaimPhases
<1>17. Phases' = [v \in Workers |-> IF v = w THEN "ready"
                                    ELSE IF cur[v] \in Untimed!Picked THEN "lost" ELSE Phases[v]]
  BY <1>3, <1>15, <1>16 DEF Phases
<1>18. Phases[w] = "idle"
  BY <1>2 DEF Phases, PhaseOf
<1>19. QED
  BY <1>1, <1>2, <1>3, <1>10, <1>11, <1>12, <1>14, <1>17, <1>18 DEF Untimed!Claim

-----------------------------------------------------------------------------
(*                         Intake, clock and chain                         *)

LEMMA SubmitIsSubmit ==
  ASSUME StoreKind = "memory", FencingInv, FencingInv', ProgressInv, NEW c \in Ops, Submit(c)
  PROVE  Untimed!Submit(c)
<1>1. /\ rows[c].state = "absent" /\ rows' = [rows EXCEPT ![c].state = "requested"]
      /\ arrival' = [arrival EXCEPT ![c] = Present] /\ now' = now /\ UNCHANGED nodeVars
      /\ pc' = pc /\ cur' = cur /\ mine' = mine /\ snap' = snap /\ before' = before
  BY DEF Submit, insert_new, workerVars, driveVars
<1>2. rows \in [Ops -> Rows] /\ rows[c] \in Rows /\ now \in Nat
  BY DEF FencingInv, TypeOK, NodeTypeOK
<1>3. rows'[c] = [rows[c] EXCEPT !.state = "requested"] /\ \A o \in Ops \ {c} : rows'[o] = rows[o]
  BY <1>1, <1>2
<1>4. /\ rows'[c].state = "requested" /\ rows'[c].token = rows[c].token
      /\ rows'[c].attempts = rows[c].attempts /\ rows'[c].lease = rows[c].lease
  BY <1>2, <1>3, SMT DEF Rows
<1>5. RowStates' = [RowStates EXCEPT ![c] = "requested"] /\ RowAttempts' = RowAttempts
  BY <1>3, <1>4 DEF RowStates, RowAttempts
<1>6. \A o \in Ops : rows'[o].token = rows[o].token
  BY <1>3, <1>4
<1>7. Present = {p \in Ops : RowStates[p] # "absent"}
  BY DEF Present, RowStates
<1>8. Leases' = Leases
  <2>1. rows[c].state \notin CLAIMABLE
    BY <1>1, States
  <2>2. rows'[c].lease <= now'
    <3>1. rows'[c].lease = NoLease
      BY <1>1, <1>4 DEF ProgressInv
    <3>2. QED
      BY <1>1, <1>2, <3>1, SMT DEF NoLease
  <2>3. LeaseOver(c)'
    BY <2>2 DEF LeaseOver
  <2>4. \A o \in Ops \ {c} : (rows[o].state \in CLAIMABLE /\ ~LeaseOver(o))' = (rows[o].state \in CLAIMABLE /\ ~LeaseOver(o))
    BY <1>1, <1>3 DEF LeaseOver
  <2>5. (rows[c].state \in CLAIMABLE /\ ~LeaseOver(c))' = (rows[c].state \in CLAIMABLE /\ ~LeaseOver(c))
    BY <2>1, <2>3
  <2>6. QED
    BY <2>4, <2>5 DEF Leases
<1>9. Owners' = Owners
  <2>1. \A o \in Ops : \A v \in Workers : Holds(v, o)' <=> Holds(v, o)
    BY <1>1, <1>6 DEF Holds
  <2>2. \A o \in Ops : OwnerOf(o)' = OwnerOf(o)
    BY <2>1, OwnerStays
  <2>3. QED
    BY <2>2 DEF Owners
<1>10. Phases' = Phases
  <2>1. \A v \in Workers : PhaseOf(v)' = PhaseOf(v)
    BY <1>1, <1>6, PhaseStays
  <2>2. QED
    BY <2>1 DEF Phases
<1>11. RowEnvelopes' = RowEnvelopes
  <2>1. \A o \in Ops \ {c} : EnvelopeOf(o)' = EnvelopeOf(o)
    BY <1>1, <1>3, EnvelopeStays DEF nodeVars
  <2>2. EnvelopeOf(c)' = EnvelopeOf(c)
    BY <1>1, <1>4 DEF EnvelopeOf
  <2>3. QED
    BY <2>1, <2>2 DEF RowEnvelopes
<1>12. RowStates[c] = "absent"
  BY <1>1 DEF RowStates
<1>13. QED
  BY <1>1, <1>5, <1>7, <1>8, <1>9, <1>10, <1>11, <1>12 DEF Untimed!Submit, Untimed!loopVars

(* What the clock and the chain leave alone. *)
LEMMA OutsideStill ==
  ASSUME FencingInv, FencingInv', UNCHANGED <<storeVars, workerVars>>
  PROVE  /\ RowStates' = RowStates /\ RowAttempts' = RowAttempts /\ arrival' = arrival
         /\ Owners' = Owners /\ UNCHANGED Untimed!loopVars
<1>1. /\ rows' = rows /\ arrival' = arrival /\ pc' = pc /\ cur' = cur /\ mine' = mine
      /\ snap' = snap /\ before' = before
  BY DEF storeVars, workerVars, driveVars
<1>2. \A o \in Ops : OwnerOf(o)' = OwnerOf(o)
  <2>1. \A o \in Ops : \A v \in Workers : Holds(v, o)' <=> Holds(v, o)
    BY <1>1 DEF Holds
  <2>2. QED
    BY <2>1, OwnerStays
<1>3. \A v \in Workers : PhaseOf(v)' = PhaseOf(v)
  BY <1>1, PhaseStays
<1>4. QED
  BY <1>1, <1>2, <1>3 DEF RowStates, RowAttempts, Owners, Phases, Untimed!loopVars

(* The envelope of a row in flight, and of one that is not. *)
LEMMA EnvelopeForms ==
  ASSUME NEW o \in Ops
  PROVE  /\ rows[o].state \in InFlight =>
              EnvelopeOf(o) = [fate     |-> FateOf(rows[o].signed),
                               expired  |-> rows[o].signed.exp <= now,
                               provable |-> Provable(rows[o].signed)]
         /\ rows[o].state \notin InFlight => EnvelopeOf(o) = Untimed!NoEnvelope
BY DEF EnvelopeOf, InFlight, Provable, Untimed!NoEnvelope

(* The deadline of an envelope in flight is a number. *)
LEMMA InFlightEnvelope ==
  ASSUME FencingInv, NEW o \in Ops, rows[o].state \in InFlight
  PROVE  rows[o].signed \in Txids /\ rows[o].signed.exp \in Nat
<1>1. rows[o].signed \in Txids \cup {NoTx}
  BY DEF FencingInv, TypeOK, Rows
<1>2. rows[o].signed # NoTx
  BY DEF FencingInv, Coherent, RowGood, InFlight
<1>3. QED
  BY <1>1, <1>2 DEF Txids

(* An envelope expires when its row is among those of the tick. *)
Envelope(f, x, p) == [fate |-> f, expired |-> x, provable |-> p]

ExpiredBy(e, o, old) == [e EXCEPT !.expired = @ \/ o \in old]

(* A clock tick on one row. *)
LEMMA TickedRow ==
  ASSUME FencingInv, rows' = rows, now' = now + 1, UNCHANGED nodeVars, NEW o \in Ops,
         NEW old, o \in old <=> /\ rows[o].state \in InFlight
                               /\ ~(rows[o].signed.exp <= now) /\ rows[o].signed.exp <= now + 1
  PROVE  EnvelopeOf(o)' = ExpiredBy(EnvelopeOf(o), o, old)
<1>1. CASE rows[o].state \in InFlight
  <2>1. PICK t : t = rows[o].signed
    OBVIOUS
  <2>2. FateOf(t)' = FateOf(t) /\ Provable(t)' = Provable(t)
    BY DEF FateOf, Landed, IsSolid, solid_block, Provable, solid_now, SolidHeight, nodeVars
  <2>3. PICK f, p : f = FateOf(t) /\ p = Provable(t)
    OBVIOUS
  <2>4. PICK x \in BOOLEAN, z \in BOOLEAN : x = (t.exp <= now) /\ z = (t.exp <= now + 1)
    <3>1. (t.exp <= now) \in BOOLEAN /\ (t.exp <= now + 1) \in BOOLEAN
      BY SMT
    <3>2. QED
      BY <3>1
  <2>5. z <=> x \/ o \in old
    <3>1. t.exp \in Nat /\ now \in Nat
      BY <1>1, <2>1, InFlightEnvelope DEF FencingInv, TypeOK, NodeTypeOK
    <3>2. t.exp <= now => t.exp <= now + 1
      BY <3>1, SMT
    <3>3. QED
      BY <1>1, <2>1, <2>4, <3>2
  <2>6. EnvelopeOf(o) = Envelope(f, x, p)
    BY <1>1, <2>1, <2>3, <2>4, EnvelopeForms DEF Envelope
  <2>7. EnvelopeOf(o)' = Envelope(f, z, p)
    BY <1>1, <2>1, <2>2, <2>3, <2>4 DEF EnvelopeOf, InFlight, Provable, Envelope
  <2>8. PICK e : e = Envelope(f, x, p)
    OBVIOUS
  <2>9. [e EXCEPT !.expired = z] = Envelope(f, z, p) /\ e.expired = x
    BY <2>8, SMT DEF Envelope
  <2>10. z = (x \/ o \in old)
    BY <2>5
  <2>11. ExpiredBy(e, o, old) = Envelope(f, z, p)
    BY <2>9, <2>10 DEF ExpiredBy
  <2>12. QED
    BY <2>6, <2>7, <2>8, <2>11
<1>2. CASE rows[o].state \notin InFlight
  <2>1. EnvelopeOf(o) = Envelope("none", FALSE, FALSE)
    BY <1>2 DEF EnvelopeOf, InFlight, Envelope
  <2>2. EnvelopeOf(o)' = Envelope("none", FALSE, FALSE)
    BY <1>2 DEF EnvelopeOf, InFlight, Envelope
  <2>3. PICK no : no = FALSE
    OBVIOUS
  <2>4. PICK e : e = Envelope("none", no, no)
    OBVIOUS
  <2>5. [e EXCEPT !.expired = no] = Envelope("none", no, no) /\ e.expired = no
    BY <2>4, SMT DEF Envelope
  <2>6. (no \/ o \in old) = no
    BY <1>2, <2>3
  <2>7. ExpiredBy(e, o, old) = Envelope("none", no, no)
    BY <2>5, <2>6 DEF ExpiredBy
  <2>8. QED
    BY <2>1, <2>2, <2>3, <2>4, <2>7
<1>3. QED
  BY <1>1, <1>2

LEMMA ClockTickIsTick ==
  ASSUME StoreKind = "memory", FencingInv, FencingInv', ClockTick
  PROVE  \E over \in SUBSET Untimed!Leased, old \in SUBSET Untimed!Fresh : Untimed!Tick(over, old)
<1>1. /\ now' = now + 1 /\ rows' = rows /\ UNCHANGED nodeVars /\ UNCHANGED <<storeVars, workerVars>>
      /\ now \in Nat
  BY DEF ClockTick, Tick, storeVars, FencingInv, TypeOK, NodeTypeOK
<1>2. PICK over : over = {o \in Untimed!Leased : rows[o].lease <= now + 1}
  OBVIOUS
<1>3. PICK old : old = {o \in Untimed!Fresh : rows[o].signed.exp <= now + 1}
  OBVIOUS
<1>4. Leases' = [o \in Ops |-> Leases[o] /\ o \notin over]
  <2>1. ASSUME NEW o \in Ops
        PROVE  (rows[o].state \in CLAIMABLE /\ ~LeaseOver(o))' = (Leases[o] /\ o \notin over)
    <3>1. rows[o].lease \in Int
      BY SMT DEF FencingInv, TypeOK, Rows, NoLease
    <3>2. rows[o].lease <= now => rows[o].lease <= now + 1
      BY <1>1, <3>1, SMT
    <3>3. Leases[o] <=> rows[o].state \in CLAIMABLE /\ ~(rows[o].lease <= now)
      BY DEF Leases, LeaseOver
    <3>4. Leases[o] /\ o \notin over <=> rows[o].state \in CLAIMABLE /\ ~(rows[o].lease <= now + 1)
      BY <1>2, <3>2, <3>3 DEF Untimed!Leased
    <3>5. LeaseOver(o)' <=> rows[o].lease <= now + 1
      BY <1>1 DEF LeaseOver
    <3>6. QED
      BY <1>1, <3>4, <3>5
  <2>2. QED
    BY <2>1 DEF Leases
<1>5. \A o \in Ops : EnvelopeOf(o)' = ExpiredBy(EnvelopeOf(o), o, old)
  <2>1. TAKE o \in Ops
  <2>2. RowEnvelopes[o] = EnvelopeOf(o)
    BY DEF RowEnvelopes
  <2>3. o \in Untimed!Fresh <=> rows[o].state \in InFlight /\ ~(rows[o].signed.exp <= now)
    <3>1. CASE rows[o].state \in InFlight
      BY <3>1, EnvelopeReads, FateReads DEF Untimed!Fresh
    <3>2. CASE rows[o].state \notin InFlight
      <4>1. RowEnvelopes[o].fate = "none"
        <5>1. RowEnvelopes[o] = Untimed!NoEnvelope
          BY <2>2, <3>2, EnvelopeForms
        <5>2. Untimed!NoEnvelope.fate = "none"
          BY SMT DEF Untimed!NoEnvelope
        <5>3. QED
          BY <5>1, <5>2
      <4>2. QED
        BY <3>2, <4>1 DEF Untimed!Fresh
    <3>3. QED
      BY <3>1, <3>2
  <2>4. o \in old <=> /\ rows[o].state \in InFlight
                     /\ ~(rows[o].signed.exp <= now) /\ rows[o].signed.exp <= now + 1
    BY <1>3, <2>3
  <2>5. QED
    BY <1>1, <2>4, TickedRow
<1>6. RowEnvelopes' = [o \in Ops |-> [RowEnvelopes[o] EXCEPT !.expired = @ \/ o \in old]]
  BY <1>5 DEF RowEnvelopes, ExpiredBy
<1>7. over \in SUBSET Untimed!Leased /\ old \in SUBSET Untimed!Fresh
  BY <1>2, <1>3
<1>8. Untimed!Tick(over, old)
  BY <1>1, <1>4, <1>6, OutsideStill DEF Untimed!Tick
<1>9. QED
  BY <1>7, <1>8

(* What a block does to the fate of an envelope. *)
LEMMA BlockFate ==
  ASSUME FencingInv, FencingInv', MineBlock, NEW t \in Txids
  PROVE  /\ \/ FateOf(t)' = FateOf(t)
            \/ /\ FateOf(t) = "accepted" /\ FateOf(t)' \in {"included", "solid"}
               /\ ~(t.exp <= now) /\ ~Provable(t)
            \/ FateOf(t) = "included" /\ FateOf(t)' = "solid"
         /\ Provable(t) => Provable(t)'
<1>1. NodeTypeOK /\ ChainRules /\ produce_block /\ [SluiceNext]_vars
  BY DEF FencingInv, TypeOK, MineBlock, SluiceNext
<1>2. /\ DOMAIN txs' = DOMAIN txs /\ now' = now
      /\ \A u \in DOMAIN txs : Landed(u) => txs'[u] = txs[u]
  BY <1>1, BlockKeepsNode
<1>3. t.exp \in Nat /\ now \in Nat /\ Margin \in Nat /\ SolidityLag \in Nat /\ head \in Nat /\ head' = head + 1
  BY <1>1, SluiceAssumption, NodeAssumption DEF Txids, NodeTypeOK, produce_block
<1>4. Provable(t) => Provable(t)'
  <2>1. solid_now' >= solid_now /\ solid_now \in Nat /\ solid_now' \in Nat
    BY <1>1, SolidRises
  <2>2. solid_now >= t.exp + Margin => solid_now' >= t.exp + Margin
    BY <1>3, <2>1, SMT
  <2>3. QED
    BY <2>2 DEF Provable
<1>5. CASE t \notin DOMAIN txs
  BY <1>2, <1>4, <1>5, FateReads DEF FateOf, Landed
<1>6. CASE Landed(t)
  <2>1. t \in DOMAIN txs /\ txs'[t] = txs[t] /\ Landed(t)'
    BY <1>2, <1>6 DEF Landed
  <2>2. txs[t].block \in Nat
    BY <1>1, <2>1 DEF NodeTypeOK, TxRecords
  <2>3. IsSolid(t) => IsSolid(t)'
    <3>1. txs[t].block <= head - SolidityLag => txs[t].block <= (head + 1) - SolidityLag
      BY <1>3, <2>2, SMT
    <3>2. QED
      BY <1>3, <2>1, <3>1 DEF IsSolid, solid_block
  <2>4. QED
    BY <1>4, <1>6, <2>1, <2>3 DEF FateOf
<1>7. CASE t \in DOMAIN txs /\ ~Landed(t) /\ ~Landed(t)'
  BY <1>2, <1>4, <1>7 DEF FateOf
<1>8. CASE t \in DOMAIN txs /\ ~Landed(t) /\ Landed(t)'
  <2>1. FateOf(t) = "accepted" /\ FateOf(t)' \in {"included", "solid"}
    BY <1>8 DEF FateOf
  <2>2. Includable(t)
    BY <1>1, <1>8 DEF produce_block, Landed
  <2>3. t.exp > NextBlockTime
    BY <2>2 DEF Includable
  <2>4. NextBlockTime \in Nat /\ NextBlockTime > blockTime[head] /\ NextBlockTime >= now
    BY <1>1, NextBlockTimeRises
  <2>5. solid_now \in Nat /\ solid_now <= blockTime[head] /\ blockTime[head] \in Nat
    <3>1. head \in 1..head
      BY <1>1, <1>3, SMT DEF NodeTypeOK
    <3>2. QED
      BY <1>1, <3>1, SolidNotAhead DEF NodeTypeOK
  <2>6. ~(t.exp <= now)
    BY <1>3, <2>3, <2>4, SMT
  <2>7. ~(solid_now >= t.exp + Margin)
    BY <1>3, <2>3, <2>4, <2>5, SMT
  <2>8. QED
    BY <1>4, <2>1, <2>6, <2>7 DEF Provable
<1>9. QED
  BY <1>5, <1>6, <1>7, <1>8

(* What an envelope may become, field by field. *)
LEMMA AgedForm ==
  ASSUME NEW o \in Ops, NEW f, NEW g \in Untimed!Fates, NEW x \in BOOLEAN, NEW p \in BOOLEAN,
         NEW q \in BOOLEAN, EnvelopeOf(o) = Envelope(f, x, p), NEW e, e = Envelope(g, x, q),
         p => q, f = "none" => g = f /\ p = q,
         \/ g = f
         \/ f = "accepted" /\ ~x /\ ~p /\ g \in {"included", "solid"}
         \/ f = "included" /\ g = "solid"
  PROVE  e \in Untimed!Envelopes /\ Untimed!Ages(o, e)
<1>1. PICK a : a = EnvelopeOf(o)
  OBVIOUS
<1>2. a.fate = f /\ a.expired = x /\ a.provable = p
  BY <1>1, SMT DEF Envelope
<1>3. e.fate = g /\ e.expired = x /\ e.provable = q
  BY SMT DEF Envelope
<1>4. e \in Untimed!Envelopes
  BY DEF Untimed!Envelopes, Envelope
<1>5. RowEnvelopes[o] = a
  BY <1>1 DEF RowEnvelopes
<1>6. f = "none" => e = a
  BY <1>1
<1>7. QED
  BY <1>2, <1>3, <1>4, <1>5, <1>6 DEF Untimed!Ages

LEMMA AgedRow ==
  ASSUME FencingInv, FencingInv', MineBlock, NEW o \in Ops, NEW e, e = EnvelopeOf(o)'
  PROVE  e \in Untimed!Envelopes /\ Untimed!Ages(o, e)
<1>1. rows' = rows /\ now' = now
  BY DEF MineBlock, produce_block, storeVars
<1>2. CASE rows[o].state \in InFlight
  <2>1. PICK t \in Txids : t = rows[o].signed
    BY <1>2, InFlightEnvelope
  <2>2. PICK x \in BOOLEAN, p \in BOOLEAN, q \in BOOLEAN :
          x = (t.exp <= now) /\ p = Provable(t) /\ q = Provable(t)'
    <3>1. (t.exp <= now) \in BOOLEAN /\ Provable(t) \in BOOLEAN /\ Provable(t)' \in BOOLEAN
      BY SMT DEF Provable
    <3>2. QED
      BY <3>1
  <2>3. PICK f, g : f = FateOf(t) /\ g = FateOf(t)'
    OBVIOUS
  <2>4. EnvelopeOf(o) = Envelope(f, x, p)
    BY <1>2, <2>1, <2>2, <2>3, EnvelopeForms DEF Envelope
  <2>5. e = Envelope(g, x, q)
    BY <1>1, <1>2, <2>1, <2>2, <2>3 DEF EnvelopeOf, InFlight, Provable, Envelope
  <2>6. g \in Untimed!Fates
    BY <2>3 DEF FateOf, Untimed!Fates
  <2>7. f # "none"
    BY <2>3 DEF FateOf
  <2>8. /\ p => q
        /\ \/ g = f
           \/ f = "accepted" /\ ~x /\ ~p /\ g \in {"included", "solid"}
           \/ f = "included" /\ g = "solid"
    BY <2>2, <2>3, BlockFate
  <2>9. QED
    BY <2>4, <2>5, <2>6, <2>7, <2>8, AgedForm
<1>3. CASE rows[o].state \notin InFlight
  <2>1. EnvelopeOf(o) = Envelope("none", FALSE, FALSE)
    BY <1>3 DEF EnvelopeOf, InFlight, Envelope
  <2>2. e = Envelope("none", FALSE, FALSE)
    BY <1>1, <1>3 DEF EnvelopeOf, InFlight, Envelope
  <2>3. "none" \in Untimed!Fates
    BY DEF Untimed!Fates
  <2>4. QED
    BY <2>1, <2>2, <2>3, AgedForm
<1>4. QED
  BY <1>2, <1>3

(* A proof of death is right in the next state too. *)
LEMMA ProofHolds ==
  ASSUME SafeTiming
  PROVE  FencingInv /\ MoneyInv =>
           \A w \in Workers : pc[w] = "proof" /\ proof_of_death(w) => ~Landed(op(w).signed)
BY ProofOfDeath DEF MoneyInv, Dead

LEMMA ProofHoldsNext ==
  ASSUME SafeTiming
  PROVE  FencingInv' /\ MoneyInv' =>
           \A w \in Workers : pc'[w] = "proof" /\ proof_of_death(w)' => ~Landed(op(w).signed)'
<1> DEFINE Facts == \A w \in Workers : pc[w] = "proof" /\ proof_of_death(w) => ~Landed(op(w).signed)
<1>1. FencingInv /\ MoneyInv => Facts
  BY ProofHolds
<1> HIDE DEF Facts
<1>2. FencingInv' /\ MoneyInv' => Facts'
  BY <1>1, PTL
<1>3. QED
  BY <1>2 DEF Facts

(* No block overtakes a worker between its lookup and its proof. *)
LEMMA BlockIsPrompt ==
  ASSUME SafeTiming, FencingInv, FencingInv', MoneyInv', MineBlock, NEW o \in Ops,
         NEW e, e = EnvelopeOf(o)'
  PROVE  Untimed!PromptProof(o, e)
<1>1. /\ rows' = rows /\ now' = now /\ pc' = pc /\ cur' = cur /\ snap' = snap
  BY DEF MineBlock, produce_block, storeVars, workerVars, driveVars
<1>2. SUFFICES ASSUME e.fate \in {"included", "solid"}, e.provable, NEW w \in Workers,
                      Phases[w] = "unknown", cur[w] = o
               PROVE  FALSE
  BY DEF Untimed!PromptProof
<1>3. pc[w] = "proof" /\ op(w).token = RowOf(w).token
  BY <1>2 DEF Phases, PhaseOf
<1>4. op(w) = rows[o] /\ rows[o].state \in InFlight
  <2>1. op(w) = rows[o]
    BY <1>2, <1>3, OwnerCopy DEF RowOf
  <2>2. op(w).state \in {"broadcasting", "broadcast"}
    BY <1>3 DEF FencingInv, Control, ControlOf
  <2>3. QED
    BY <2>1, <2>2 DEF InFlight
<1>5. PICK t : t = rows[o].signed
  OBVIOUS
<1>6. PICK g, x, q : e = Envelope(g, x, q) /\ g = FateOf(t)' /\ q = Provable(t)'
  BY <1>1, <1>4, <1>5 DEF EnvelopeOf, InFlight, Provable, Envelope
<1>7. e.fate = g /\ e.provable = q
  BY <1>6, SMT DEF Envelope
<1>8. Landed(t)'
  BY <1>2, <1>6, <1>7 DEF FateOf
<1>9. op(w)'.signed = t
  BY <1>1, <1>4, <1>5 DEF op
<1>10. proof_of_death(w)'
  <2>1. Provable(t)'
    BY <1>2, <1>6, <1>7
  <2>2. QED
    BY <1>9, <2>1 DEF proof_of_death, Provable
<1>11. ~Landed(t)'
  <2>1. Landed(op(w).signed)' <=> Landed(t)'
    BY <1>9 DEF Landed
  <2>2. QED
    BY <1>1, <1>3, <1>10, <2>1, ProofHoldsNext
<1>12. QED
  BY <1>8, <1>11

LEMMA MineBlockIsBlocks ==
  ASSUME SafeTiming, StoreKind = "memory", FencingInv, FencingInv', MoneyInv', MineBlock
  PROVE  \E envs \in [Ops -> Untimed!Aged] : Untimed!Blocks(envs)
<1>1. /\ rows' = rows /\ now' = now /\ UNCHANGED <<storeVars, workerVars>>
  BY DEF MineBlock, produce_block, storeVars
<1>2. PICK envs : envs = RowEnvelopes'
  OBVIOUS
<1>3. \A o \in Ops : envs[o] = EnvelopeOf(o)'
  BY <1>2 DEF RowEnvelopes
<1>4. \A o \in Ops : envs[o] \in Untimed!Envelopes /\ Untimed!Ages(o, envs[o])
  BY <1>3, AgedRow
<1>5. \A o \in Ops : Untimed!PromptProof(o, envs[o])
  BY <1>3, BlockIsPrompt
<1>6. envs \in [Ops -> Untimed!Aged]
  <2>1. \A o \in Ops : envs[o] \in Untimed!Aged
    BY <1>4 DEF Untimed!Aged
  <2>2. envs = [o \in Ops |-> envs[o]]
    BY <1>2 DEF RowEnvelopes
  <2>3. QED
    BY <2>1, <2>2
<1>7. Leases' = Leases
  BY <1>1 DEF Leases, LeaseOver
<1>8. Untimed!Blocks(envs)
  BY <1>1, <1>2, <1>4, <1>5, <1>7, OutsideStill DEF Untimed!Blocks
<1>9. QED
  BY <1>6, <1>8

-----------------------------------------------------------------------------
(*                          What a cas has written                         *)

(* The cas of w took its row to state to, with n attempts and envelope s. *)
Wrote(w, to, n, s) ==
  /\ cur[w] \in Ops /\ cur[w] \in mine[w] /\ to \in OpState
  /\ op(w) = rows[cur[w]] /\ rows[cur[w]].state \in CLAIMABLE
  /\ rows'[cur[w]].state = to /\ rows'[cur[w]].attempts = n /\ rows'[cur[w]].signed = s
  /\ rows'[cur[w]].token = rows[cur[w]].token
  /\ rows'[cur[w]].lease = IF to \in TERMINAL THEN NoLease ELSE now + Lease
  /\ \A o \in Ops \ {cur[w]} : rows'[o] = rows[o] /\ snap'[w][o] = snap[w][o]
  /\ snap'[w][cur[w]] = IF to \in TERMINAL THEN NoRow ELSE rows'[cur[w]]
  /\ now' = now /\ head' = head /\ blockTime' = blockTime /\ txs' = txs /\ arrival' = arrival

(* What a cas makes of a row r. *)
Fields(row, r, to, n, s) ==
  /\ row.state = to /\ row.token = r.token /\ row.attempts = n /\ row.signed = s
  /\ row.lease = IF to \in TERMINAL THEN NoLease ELSE now + Lease

(* The rows the handlers write. *)
LEMMA WrittenRow ==
  ASSUME NEW r \in Rows, NEW to \in OpState, now \in Nat
  PROVE  /\ Fields(Committed(r, to), r, to, r.attempts, r.signed)
         /\ \A s \in Txids \cup {NoTx} :
              Fields([Committed(r, to) EXCEPT !.signed = s], r, to, r.attempts, s)
         /\ \A t, s \in Txids \cup {NoTx} :
              Fields([Committed(r, to) EXCEPT !.txid = t, !.signed = s], r, to, r.attempts, s)
         /\ \A n \in Nat : \A t, s \in Txids \cup {NoTx} :
              Fields([Committed(r, to) EXCEPT !.attempts = n, !.txid = t, !.signed = s], r, to, n, s)
BY StoreAssumption, SMTT(30) DEF Rows, Committed, NoLease, Fields

(* A cas writes one row, and the worker's copy follows. *)
LEMMA WriteWrote ==
  ASSUME FencingInv, NEW w \in Workers, pc[w] # "idle", NEW row, Write(w, row),
         NEW to \in OpState, NEW n, NEW s,
         Fields(row, RowOf(w), to, n, s)
  PROVE  Wrote(w, to, n, s)
<1>1. /\ cur[w] \in Ops /\ cur[w] \in mine[w] /\ op(w) = rows[cur[w]]
      /\ rows[cur[w]].state \in OpState \ TERMINAL
  BY Busy, HitIsFresh DEF Write
<1>2. rows[cur[w]].state \in CLAIMABLE
  BY <1>1, States DEF OpState
<1>3. /\ rows' = [rows EXCEPT ![cur[w]] = row]
      /\ snap' = [snap EXCEPT ![w][cur[w]] = IF to \in TERMINAL THEN NoRow ELSE row]
      /\ rows \in [Ops -> Rows] /\ snap \in [Workers -> [Ops -> Rows]]
      /\ now' = now /\ head' = head /\ blockTime' = blockTime /\ txs' = txs /\ arrival' = arrival
  BY DEF Write, nodeVars, FencingInv, TypeOK, Fields
<1>4. rows'[cur[w]] = row /\ \A o \in Ops \ {cur[w]} : rows'[o] = rows[o]
  BY <1>1, <1>3
<1>5. /\ snap'[w][cur[w]] = IF to \in TERMINAL THEN NoRow ELSE row
      /\ \A o \in Ops \ {cur[w]} : snap'[w][o] = snap[w][o]
  BY <1>1, <1>3, SMT
<1>6. QED
  BY <1>1, <1>2, <1>3, <1>4, <1>5 DEF Wrote, RowOf, Fields

LEMMA CommitWrote ==
  ASSUME FencingInv, NEW w \in Workers, pc[w] # "idle", NEW to \in OpState,
         Write(w, Committed(RowOf(w), to))
  PROVE  Wrote(w, to, rows[cur[w]].attempts, rows[cur[w]].signed)
<1>1. RowOf(w) \in Rows /\ now \in Nat
  BY Busy DEF RowOf
<1>2. Fields(Committed(RowOf(w), to), RowOf(w), to, RowOf(w).attempts, RowOf(w).signed)
  BY <1>1, WrittenRow
<1>3. QED
  BY <1>2, WriteWrote DEF RowOf

LEMMA PersistWrote ==
  ASSUME FencingInv, NEW w \in Workers, PersistEnvelope(w)
  PROVE  Wrote(w, "signing", rows[cur[w]].attempts, NoTx) /\ rows[cur[w]].state = "signing"
<1> DEFINE row == [Committed(RowOf(w), "signing") EXCEPT !.txid = draft[w], !.signed = NoTx]
<1>1. pc[w] = "persist" /\ Write(w, row)
  BY DEF PersistEnvelope
<1>2. /\ RowOf(w) \in Rows /\ now \in Nat /\ "signing" \in OpState
      /\ draft[w] \in Txids \cup {NoTx} /\ NoTx \in Txids \cup {NoTx} /\ op(w).state = "signing"
  BY <1>1, Busy, SMT DEF RowOf, OpState, FencingInv, TypeOK, Control, ControlOf
<1>3. Fields(row, RowOf(w), "signing", RowOf(w).attempts, NoTx)
  BY <1>2, WrittenRow
<1> HIDE DEF row
<1>4. Wrote(w, "signing", rows[cur[w]].attempts, NoTx)
  BY <1>1, <1>2, <1>3, WriteWrote DEF RowOf
<1>5. QED
  BY <1>2, <1>4 DEF Wrote

LEMMA SignWrote ==
  ASSUME FencingInv, NEW w \in Workers, Sign(w)
  PROVE  /\ Wrote(w, "signed", rows[cur[w]].attempts, op(w).txid) /\ rows[cur[w]].state = "signing"
         /\ StepReturned(w, "signed") /\ UNCHANGED <<all_txids, writeAhead>>
<1> DEFINE row == [Committed(RowOf(w), "signed") EXCEPT !.signed = op(w).txid]
<1>1. pc[w] = "sign" /\ Write(w, row) /\ StepReturned(w, row.state) /\ UNCHANGED <<all_txids, writeAhead>>
  BY DEF Sign, WriteAndReturn, Unlogged
<1>2. /\ RowOf(w) \in Rows /\ now \in Nat /\ "signed" \in OpState
      /\ op(w).txid \in Txids \cup {NoTx} /\ op(w).state = "signing"
  BY <1>1, Busy, SMT DEF RowOf, OpState, FencingInv, Control, ControlOf, Rows
<1>3. Fields(row, RowOf(w), "signed", RowOf(w).attempts, op(w).txid)
  BY <1>2, WrittenRow
<1> HIDE DEF row
<1>4. Wrote(w, "signed", rows[cur[w]].attempts, op(w).txid)
  BY <1>1, <1>2, <1>3, WriteWrote DEF RowOf
<1>5. QED
  BY <1>1, <1>2, <1>3, <1>4 DEF Wrote, Fields

LEMMA RebuildWrote ==
  ASSUME FencingInv, NEW w \in Workers, pc[w] # "idle", Rebuild(w)
  PROVE  /\ Wrote(w, "signing", rows[cur[w]].attempts + 1, NoTx)
         /\ StepReturned(w, "signing") /\ UNCHANGED <<all_txids, writeAhead>>
<1> DEFINE row == [Committed(RowOf(w), "signing") EXCEPT
                     !.attempts = op(w).attempts + 1, !.txid = NoTx, !.signed = NoTx]
<1>1. Write(w, row) /\ StepReturned(w, row.state) /\ UNCHANGED <<all_txids, writeAhead>>
  BY DEF Rebuild, WriteAndReturn, Unlogged
<1>2. /\ RowOf(w) \in Rows /\ now \in Nat /\ "signing" \in OpState
      /\ op(w).attempts + 1 \in Nat /\ NoTx \in Txids \cup {NoTx}
  BY Busy, SMT DEF RowOf, OpState, Rows
<1>3. Fields(row, RowOf(w), "signing", op(w).attempts + 1, NoTx)
  BY <1>2, WrittenRow
<1> HIDE DEF row
<1>4. Wrote(w, "signing", op(w).attempts + 1, NoTx)
  BY <1>1, <1>2, <1>3, WriteWrote DEF RowOf
<1>5. op(w) = rows[cur[w]]
  BY <1>4 DEF Wrote
<1>6. QED
  BY <1>1, <1>3, <1>4, <1>5 DEF Fields

(* The other handlers that end in a cas keep the attempts and the envelope. *)
LEMMA ReturnWrote ==
  ASSUME FencingInv, NEW w \in Workers, pc[w] # "idle", NEW to \in OpState,
         WriteAndReturn(w, Committed(RowOf(w), to))
  PROVE  /\ Wrote(w, to, rows[cur[w]].attempts, rows[cur[w]].signed)
         /\ StepReturned(w, to) /\ UNCHANGED <<all_txids, writeAhead>>
<1>1. Write(w, Committed(RowOf(w), to)) /\ StepReturned(w, Committed(RowOf(w), to).state)
  BY DEF WriteAndReturn
<1>2. Fields(Committed(RowOf(w), to), RowOf(w), to, RowOf(w).attempts, RowOf(w).signed)
  BY Busy, WrittenRow DEF RowOf
<1>3. Committed(RowOf(w), to).state = to
  BY <1>2 DEF Fields
<1>4. QED
  BY <1>1, <1>3, CommitWrote DEF WriteAndReturn, Unlogged

(* Every cas of a handler, with what it leaves in the log. *)
LEMMA CasWrote ==
  ASSUME FencingInv, NEW w \in Workers
  PROVE  /\ Validate(w) => \E to \in {"validated", "rejected"} :
              /\ Wrote(w, to, rows[cur[w]].attempts, rows[cur[w]].signed)
              /\ StepReturned(w, to) /\ writeAhead' = writeAhead
         /\ BeginSigning(w) =>
              /\ Wrote(w, "signing", rows[cur[w]].attempts, rows[cur[w]].signed)
              /\ writeAhead' = writeAhead
         /\ GiveUp(w) =>
              /\ Wrote(w, "failed", rows[cur[w]].attempts, rows[cur[w]].signed)
              /\ StepReturned(w, "failed") /\ writeAhead' = writeAhead
         /\ WriteAhead(w) =>
              Wrote(w, "broadcasting", rows[cur[w]].attempts, rows[cur[w]].signed)
         /\ Settle(w) /\ answer[w] \notin RETRY_SAME_BYTES =>
              /\ Wrote(w, Verdict(answer[w]), rows[cur[w]].attempts, rows[cur[w]].signed)
              /\ StepReturned(w, Verdict(answer[w])) /\ writeAhead' = writeAhead
         /\ MarkBroadcast(w) =>
              /\ Wrote(w, "broadcast", rows[cur[w]].attempts, rows[cur[w]].signed)
              /\ StepReturned(w, "broadcast") /\ writeAhead' = writeAhead
         /\ Confirm(w) => \E to \in {"confirmed", "failed"} :
              /\ Wrote(w, to, rows[cur[w]].attempts, rows[cur[w]].signed)
              /\ StepReturned(w, to) /\ writeAhead' = writeAhead
<1>0. {"validated", "rejected", "signing", "failed", "broadcasting", "broadcast", "confirmed"}
        \subseteq OpState
  BY DEF OpState
<1>1. ASSUME Validate(w)
      PROVE  \E to \in {"validated", "rejected"} :
               /\ Wrote(w, to, rows[cur[w]].attempts, rows[cur[w]].signed)
               /\ StepReturned(w, to) /\ writeAhead' = writeAhead
  <2>1. PICK to \in {"validated", "rejected"} : WriteAndReturn(w, Committed(RowOf(w), to))
    BY <1>1 DEF Validate
  <2>2. QED
    BY <1>0, <1>1, <2>1, ReturnWrote DEF Validate, AtStep
<1>2. ASSUME BeginSigning(w)
      PROVE  /\ Wrote(w, "signing", rows[cur[w]].attempts, rows[cur[w]].signed)
             /\ writeAhead' = writeAhead
  BY <1>0, <1>2, CommitWrote DEF BeginSigning, AtStep, Unlogged
<1>3. ASSUME GiveUp(w)
      PROVE  /\ Wrote(w, "failed", rows[cur[w]].attempts, rows[cur[w]].signed)
             /\ StepReturned(w, "failed") /\ writeAhead' = writeAhead
  BY <1>0, <1>3, ReturnWrote DEF GiveUp, AtBuild, AtStep
<1>4. ASSUME WriteAhead(w)
      PROVE  Wrote(w, "broadcasting", rows[cur[w]].attempts, rows[cur[w]].signed)
  BY <1>0, <1>4, CommitWrote DEF WriteAhead
<1>5. ASSUME Settle(w), answer[w] \notin RETRY_SAME_BYTES
      PROVE  /\ Wrote(w, Verdict(answer[w]), rows[cur[w]].attempts, rows[cur[w]].signed)
             /\ StepReturned(w, Verdict(answer[w])) /\ writeAhead' = writeAhead
  <2>1. Verdict(answer[w]) \in OpState
    BY <1>0 DEF Verdict
  <2>2. QED
    BY <1>5, <2>1, ReturnWrote DEF Settle
<1>6. ASSUME MarkBroadcast(w)
      PROVE  /\ Wrote(w, "broadcast", rows[cur[w]].attempts, rows[cur[w]].signed)
             /\ StepReturned(w, "broadcast") /\ writeAhead' = writeAhead
  BY <1>0, <1>6, ReturnWrote DEF MarkBroadcast
<1>7. ASSUME Confirm(w)
      PROVE  \E to \in {"confirmed", "failed"} :
               /\ Wrote(w, to, rows[cur[w]].attempts, rows[cur[w]].signed)
               /\ StepReturned(w, to) /\ writeAhead' = writeAhead
  <2>1. PICK to \in {"confirmed", "failed"} : WriteAndReturn(w, Committed(RowOf(w), to))
    BY <1>7 DEF Confirm
  <2>2. QED
    BY <1>0, <1>7, <2>1, ReturnWrote DEF Confirm
<1>8. QED
  BY <1>1, <1>2, <1>3, <1>4, <1>5, <1>6, <1>7

-----------------------------------------------------------------------------
(*                        The invariant of the steps                       *)

(* What a worker at rest knows stays true while the node learns more. *)
LEMMA ThreadStays ==
  ASSUME NEW v \in Workers, ThreadOf(v), pc'[v] = pc[v], cur'[v] = cur[v], mine'[v] = mine[v],
         snap'[v] = snap[v], before'[v] = before[v], answer'[v] = answer[v],
         DOMAIN txs \subseteq DOMAIN txs'
  PROVE  ThreadOf(v)'
BY DEF ThreadOf, op

(* A worker that has turned to another of its operations, or is done. *)
LEMMA NextOpThread ==
  ASSUME FencingInv, NEW w \in Workers, NextOp(w),
         \A o \in mine[w] \ {cur[w]} : snap'[w][o] = snap[w][o]
  PROVE  ThreadOf(w)'
<1>1. /\ pc \in [Workers -> Labels] /\ cur \in [Workers -> Ops \cup {NoOp}]
      /\ mine \in [Workers -> SUBSET Ops] /\ before \in [Workers -> OpState \cup {"absent"}]
  BY DEF FencingInv, TypeOK
<1>2. CASE pc'[w] = "idle" /\ cur'[w] = NoOp /\ mine'[w] = {}
  BY <1>2 DEF ThreadOf
<1>3. CASE \E o \in mine[w] \ {cur[w]} : pc'[w] = "step" /\ cur'[w] = o /\ before'[w] = snap[w][o].state
  BY <1>3 DEF ThreadOf, op
<1>4. QED
  BY <1>1, <1>2, <1>3 DEF NextOp, Goto

(* A worker whose handler has returned. *)
LEMMA ReturnThread ==
  ASSUME FencingInv, NEW w \in Workers, NEW to, StepReturned(w, to),
         \A o \in mine[w] \ {cur[w]} : snap'[w][o] = snap[w][o],
         to \notin TERMINAL => snap'[w][cur[w]].state = to
  PROVE  ThreadOf(w)'
<1>1. /\ pc \in [Workers -> Labels] /\ before \in [Workers -> OpState \cup {"absent"}]
  BY DEF FencingInv, TypeOK
<1>2. CASE NextOp(w)
  BY <1>2, NextOpThread
<1>3. CASE pc'[w] = "release"
  BY <1>3 DEF ThreadOf
<1>4. CASE pc'[w] = "step" /\ before'[w] = to /\ cur'[w] = cur[w] /\ to \notin TERMINAL
  BY <1>4 DEF ThreadOf, op
<1>5. QED
  BY <1>1, <1>2, <1>3, <1>4 DEF StepReturned, Goto

LEMMA WroteThread ==
  ASSUME FencingInv, NEW w \in Workers, NEW to, NEW n, NEW s, Wrote(w, to, n, s),
         StepReturned(w, to)
  PROVE  ThreadOf(w)'
<1>1. \A o \in mine[w] \ {cur[w]} : snap'[w][o] = snap[w][o]
  BY DEF Wrote, FencingInv, TypeOK
<1>2. to \notin TERMINAL => snap'[w][cur[w]].state = to
  BY DEF Wrote
<1>3. QED
  BY <1>1, <1>2, ReturnThread

LEMMA ParkThread ==
  ASSUME FencingInv, NEW w \in Workers, StepReturned(w, op(w).state), snap' = snap
  PROVE  ThreadOf(w)'
BY ReturnThread DEF op

(* Where a worker that goes on within its handler stands. *)
LEMMA GotoThread ==
  ASSUME FencingInv, NEW w \in Workers, NEW label \in Labels, Goto(w, label),
         before' = before, cur' = cur, label # "idle",
         label \in {"step", "ahead", "proof"} => before[w] = op(w)'.state,
         label \in {"send", "settle"} => before[w] \in {"signed", "broadcasting"},
         label \in {"persist", "sign"} => op(w)'.attempts < MaxBuildAttempts,
         label = "found" \/ (label = "settle" /\ answer'[w] \in ACCEPTED) =>
           op(w)'.signed \in DOMAIN txs'
  PROVE  ThreadOf(w)'
<1>1. pc'[w] = label
  BY DEF Goto, FencingInv, TypeOK
<1>2. QED
  BY <1>1 DEF ThreadOf

(* The worker that moves. *)
LEMMA StepThread ==
  ASSUME FencingInv, ProgressInv, NEW w \in Workers, WorkerStep(w) \/ Crash(w)
  PROVE  ThreadOf(w)'
<1>0. ThreadOf(w) /\ ControlOf(w)
  BY DEF ProgressInv, FencingInv, Control
<1>1. CASE Validate(w) \/ GiveUp(w) \/ MarkBroadcast(w) \/ Confirm(w)
  BY <1>1, CasWrote, WroteThread
<1>2. CASE Sign(w)
  BY <1>2, SignWrote, WroteThread
<1>3. CASE RebuildUnsent(w) \/ RebuildDead(w)
  <2>1. pc[w] # "idle" /\ Rebuild(w)
    BY <1>3 DEF RebuildUnsent, RebuildDead, AtStep
  <2>2. QED
    BY <2>1, RebuildWrote, WroteThread
<1>4. CASE Settle(w)
  <2>1. CASE answer[w] \in RETRY_SAME_BYTES
    BY <1>4, <2>1, ParkThread DEF Settle, Park
  <2>2. QED
    BY <1>4, <2>1, CasWrote, WroteThread
<1>5. CASE QueryTimeout(w) \/ AwaitSolidity(w)
  BY <1>5, ParkThread DEF QueryTimeout, AwaitSolidity, Park
<1>6. CASE BeginSigning(w)
  BY <1>6, GotoThread DEF BeginSigning, driveVars, Labels
<1>7. CASE LookupSolid(w)
  BY <1>7, GotoThread DEF LookupSolid, driveVars, Labels
<1>8. CASE HandlerError(w)
  BY <1>8, GotoThread DEF HandlerError, driveVars, Labels
<1>9. CASE BuildEnvelope(w)
  <2>1. /\ pc[w] # "idle" /\ ~GaveUp(w) /\ Goto(w, "persist") /\ before' = before /\ cur' = cur
        /\ snap' = snap
    BY <1>9 DEF BuildEnvelope, AtBuild, AtStep, driveVars
  <2>2. op(w).attempts < MaxBuildAttempts
    <3>1. op(w) \in Rows
      BY <2>1, Busy
    <3>2. QED
      BY <2>1, <3>1, SluiceAssumption, SMT DEF GaveUp, Rows
  <2>3. op(w)' = op(w)
    BY <2>1 DEF op
  <2>4. QED
    BY <2>1, <2>2, <2>3, GotoThread DEF Labels
<1>10. CASE PersistEnvelope(w)
  <2>1. pc[w] = "persist" /\ Goto(w, "sign") /\ before' = before /\ cur' = cur
    BY <1>10 DEF PersistEnvelope, driveVars
  <2>2. op(w)'.attempts = op(w).attempts
    BY <1>10, <2>1, PersistWrote, States DEF Wrote, op
  <2>3. op(w)'.attempts < MaxBuildAttempts
    BY <1>0, <2>1, <2>2 DEF ThreadOf
  <2>4. QED
    BY <2>1, <2>3, GotoThread DEF Labels
<1>11. CASE WriteAhead(w)
  <2>1. pc[w] = "ahead" /\ Goto(w, "send") /\ before' = before /\ cur' = cur
    BY <1>11 DEF WriteAhead, driveVars
  <2>2. before[w] = "signed"
    BY <1>0, <2>1 DEF ThreadOf, ControlOf
  <2>3. QED
    BY <2>1, <2>2, GotoThread DEF Labels
<1>12. CASE Send(w)
  <2>1. PICK code \in BroadcastCode \cup {NodeTimeout} :
          /\ broadcast(op(w).signed, code)
          /\ IF code = NodeTimeout
               THEN StepReturned(w, op(w).state)
               ELSE /\ answer' = [answer EXCEPT ![w] = code]
                    /\ Goto(w, "settle") /\ before' = before /\ cur' = cur
    BY <1>12 DEF Send, driveVars
  <2>2. pc[w] = "send" /\ snap' = snap
    BY <1>12 DEF Send
  <2>3. CASE code = NodeTimeout
    BY <2>1, <2>2, <2>3, ParkThread
  <2>4. CASE code # NodeTimeout
    <3>1. answer'[w] = code
      BY <2>1, <2>4 DEF FencingInv, TypeOK
    <3>2. op(w)' = op(w)
      BY <2>1, <2>2, <2>4 DEF op
    <3>3. code \in ACCEPTED => op(w).signed \in DOMAIN txs'
      BY <2>1 DEF broadcast, ACCEPTED, NodeTimeout, UnknownCode
    <3>4. before[w] \in {"signed", "broadcasting"}
      BY <1>0, <2>2 DEF ThreadOf
    <3>5. QED
      BY <2>1, <2>4, <3>1, <3>2, <3>3, <3>4, GotoThread DEF Labels
  <2>5. QED
    BY <2>3, <2>4
<1>13. CASE LookupFound(w)
  <2>1. /\ find_tx(op(w).signed) \in {"included", "pending"} /\ Goto(w, "found")
        /\ before' = before /\ cur' = cur /\ snap' = snap /\ txs' = txs
    BY <1>13 DEF LookupFound, driveVars, nodeVars
  <2>2. op(w).signed \in DOMAIN txs
    BY <2>1 DEF find_tx, Landed
  <2>3. op(w)' = op(w)
    BY <2>1 DEF op
  <2>4. QED
    BY <2>1, <2>2, <2>3, GotoThread DEF Labels
<1>14. CASE LookupUnknown(w) \/ CheckExpiry(w)
  <2>1. PICK label \in {"proof", "ahead"} :
          /\ pc[w] = "step" /\ Goto(w, label) /\ before' = before /\ cur' = cur /\ snap' = snap
    BY <1>14 DEF LookupUnknown, CheckExpiry, AtStep, driveVars
  <2>2. before[w] = op(w).state /\ op(w)' = op(w)
    BY <1>0, <2>1 DEF ThreadOf, op
  <2>3. QED
    BY <2>1, <2>2, GotoThread DEF Labels
<1>15. CASE NotDead(w)
  <2>1. pc[w] = "proof" /\ before[w] = op(w).state
    BY <1>0, <1>15 DEF NotDead, ThreadOf
  <2>2. CASE op(w).state = "broadcast" /\ Park(w)
    BY <2>2, ParkThread DEF Park
  <2>3. CASE op(w).state = "broadcasting" /\ Goto(w, "send") /\ UNCHANGED driveVars
    BY <2>1, <2>3, GotoThread DEF Labels, driveVars
  <2>4. QED
    BY <1>15, <2>2, <2>3 DEF NotDead
<1>16. CASE LostClaim(w) \/ Release(w)
  <2>1. NextOp(w) /\ snap' = [snap EXCEPT ![w][cur[w]] = NoRow]
    BY <1>16 DEF LostClaim, Release
  <2>2. snap \in [Workers -> [Ops -> Rows]] /\ mine[w] \subseteq Ops
    BY DEF FencingInv, TypeOK
  <2>3. \A o \in mine[w] \ {cur[w]} : snap'[w][o] = snap[w][o]
    BY <2>1, <2>2, SMT
  <2>4. QED
    BY <2>1, <2>3, NextOpThread
<1>17. CASE Crash(w)
  BY <1>17 DEF Crash, Goto, ThreadOf, FencingInv, TypeOK
<1>18. CASE Claim(w)
  <2>1. PICK picked \in Batches : \E o \in picked :
          /\ snap' = [snap EXCEPT ![w] = [p \in Ops |-> IF p \in picked THEN claimed(p) ELSE NoRow]]
          /\ cur' = [cur EXCEPT ![w] = o]
          /\ before' = [before EXCEPT ![w] = rows[o].state]
    BY <1>18 DEF Claim
  <2>2. PICK o \in picked :
          /\ snap' = [snap EXCEPT ![w] = [p \in Ops |-> IF p \in picked THEN claimed(p) ELSE NoRow]]
          /\ cur' = [cur EXCEPT ![w] = o]
          /\ before' = [before EXCEPT ![w] = rows[o].state]
    BY <2>1
  <2>3. o \in Ops /\ claimed(o).state = rows[o].state
    BY PickedRows, ClaimedRow DEF FencingInv
  <2>4. pc'[w] = "step" /\ cur'[w] = o /\ before'[w] = rows[o].state /\ snap'[w][o] = claimed(o)
    BY <1>18, <2>2, <2>3 DEF Claim, Goto, FencingInv, TypeOK
  <2>5. QED
    BY <2>3, <2>4 DEF ThreadOf, op
<1>19. QED
  BY <1>1, <1>2, <1>3, <1>4, <1>5, <1>6, <1>7, <1>8, <1>9, <1>10, <1>11, <1>12, <1>13, <1>14,
     <1>15, <1>16, <1>17, <1>18 DEF WorkerStep

(* A cas gives up an envelope that was sent only with a proof. *)
LEMMA WroteRetires ==
  ASSUME FencingInv, FencingInv', ProgressInv, [SluiceNext]_vars,
         NEW w \in Workers, NEW to, NEW n, NEW s, Wrote(w, to, n, s),
         \/ writeAhead' = writeAhead
         \/ /\ writeAhead' = [writeAhead EXCEPT ![cur[w]] = @ \cup {s}]
            /\ to = "broadcasting" /\ s \in Txids /\ s.pay = Pay[cur[w]],
         \/ to # "signed" /\ s = rows[cur[w]].signed
         \/ \A t \in writeAhead[cur[w]] : Provable(t)
  PROVE  RetiredProvable'
<1>1. /\ solid_now' >= solid_now /\ writeAhead \in [Ops -> SUBSET Txids]
      /\ solid_now \in Nat /\ solid_now' \in Nat
  BY SolidRises DEF FencingInv, TypeOK
<1>2. \A t \in Txids : Provable(t) => Provable(t)'
  BY <1>1, SluiceAssumption, SMT DEF Provable, Txids
<1>3. ASSUME NEW o \in Ops \ {cur[w]}
      PROVE  rows'[o] = rows[o] /\ writeAhead'[o] = writeAhead[o]
  BY <1>1 DEF Wrote
<1>4. ASSUME NEW o \in Ops, NEW t \in writeAhead'[o]
      PROVE  t.pay = Pay[o]
  <2>1. t \in writeAhead[o] => t.pay = Pay[o]
    BY DEF ProgressInv, RetiredProvable
  <2>2. CASE writeAhead' = writeAhead
    BY <2>1, <2>2
  <2>3. CASE writeAhead' = [writeAhead EXCEPT ![cur[w]] = @ \cup {s}] /\ s.pay = Pay[cur[w]]
    <3>1. CASE o = cur[w]
      <4>1. writeAhead'[o] = writeAhead[o] \cup {s}
        BY <1>1, <2>3, <3>1
      <4>2. QED
        BY <2>1, <2>3, <3>1, <4>1
    <3>2. CASE o # cur[w]
      BY <1>3, <2>1, <3>2
    <3>3. QED
      BY <3>1, <3>2
  <2>4. QED
    BY <2>2, <2>3
<1>5. ASSUME NEW o \in Ops \ {cur[w]}, NEW t \in writeAhead'[o],
             rows'[o].state = "signed" \/ rows'[o].signed # t
      PROVE  Provable(t)'
  <2>1. t \in writeAhead[o] /\ (rows[o].state = "signed" \/ rows[o].signed # t)
    BY <1>3, <1>5
  <2>2. Provable(t)
    BY <2>1 DEF ProgressInv, RetiredProvable
  <2>3. t \in Txids
    BY <1>1, <2>1
  <2>4. QED
    BY <1>2, <2>2, <2>3
<1>6. ASSUME NEW t \in writeAhead'[cur[w]], to = "signed" \/ s # t PROVE Provable(t)'
  <2>1. t \in writeAhead[cur[w]] /\ cur[w] \in Ops
    <3>1. CASE writeAhead' = writeAhead
      BY <3>1 DEF Wrote
    <3>2. CASE /\ writeAhead' = [writeAhead EXCEPT ![cur[w]] = @ \cup {s}]
               /\ to = "broadcasting"
      <4>1. s # t /\ cur[w] \in Ops
        BY <1>6, <3>2 DEF Wrote
      <4>2. writeAhead'[cur[w]] = writeAhead[cur[w]] \cup {s}
        BY <1>1, <3>2, <4>1
      <4>3. QED
        BY <4>1, <4>2
    <3>3. QED
      BY <3>1, <3>2
  <2>2. Provable(t)
    BY <1>6, <2>1 DEF ProgressInv, RetiredProvable
  <2>3. QED
    BY <1>1, <1>2, <2>1, <2>2
<1>7. QED
  BY <1>4, <1>5, <1>6 DEF RetiredProvable, Wrote

LEMMA StillRetired ==
  ASSUME FencingInv, FencingInv', ProgressInv, [SluiceNext]_vars, RowsStill, writeAhead' = writeAhead
  PROVE  RetiredProvable'
<1>1. /\ solid_now' >= solid_now /\ writeAhead \in [Ops -> SUBSET Txids]
      /\ solid_now \in Nat /\ solid_now' \in Nat
  BY SolidRises DEF FencingInv, TypeOK
<1>2. \A t \in Txids : Provable(t) => Provable(t)'
  BY <1>1, SluiceAssumption, SMT DEF Provable, Txids
<1>3. QED
  BY <1>1, <1>2 DEF ProgressInv, RetiredProvable, RowsStill

(* The steps of a worker. *)
LEMMA WriterRetires ==
  ASSUME FencingInv, FencingInv', ProgressInv, [SluiceNext]_vars,
         NEW w \in Workers, WorkerStep(w), ~QuietStep(w), ~Send(w)
  PROVE  /\ RetiredProvable'
         /\ \A o \in Ops : rows'[o].state = "absent" => rows'[o].lease = NoLease
<1>0. /\ ControlOf(w) /\ \A o \in Ops : RowGood(rows[o], Pay[o], all_txids[o], writeAhead[o])
      /\ \A o \in Ops : rows[o].state = "absent" => rows[o].lease = NoLease
      /\ writeAhead \in [Ops -> SUBSET Txids]
  BY DEF FencingInv, Control, Coherent, ProgressInv, TypeOK
<1>1. ASSUME NEW to, NEW n, NEW s, Wrote(w, to, n, s)
      PROVE  \A o \in Ops : rows'[o].state = "absent" => rows'[o].lease = NoLease
  BY <1>0, <1>1, States DEF Wrote
<1>2. ASSUME NEW to \in OpState \ {"signed"},
             Wrote(w, to, rows[cur[w]].attempts, rows[cur[w]].signed), writeAhead' = writeAhead
      PROVE  RetiredProvable'
  BY <1>2, WroteRetires
<1>3. CASE Validate(w) \/ BeginSigning(w) \/ GiveUp(w) \/ MarkBroadcast(w) \/ Confirm(w)
  <2>1. PICK to \in {"validated", "rejected", "signing", "failed", "broadcast", "confirmed"} :
          /\ Wrote(w, to, rows[cur[w]].attempts, rows[cur[w]].signed) /\ writeAhead' = writeAhead
    BY <1>3, CasWrote
  <2>2. to \in OpState \ {"signed"}
    BY DEF OpState
  <2>3. QED
    BY <1>1, <1>2, <2>1, <2>2
<1>4. CASE Settle(w)
  <2>1. /\ Wrote(w, Verdict(answer[w]), rows[cur[w]].attempts, rows[cur[w]].signed)
        /\ writeAhead' = writeAhead
    BY <1>4, CasWrote DEF QuietStep
  <2>2. Verdict(answer[w]) \in OpState \ {"signed"}
    BY DEF OpState, Verdict
  <2>3. QED
    BY <1>1, <1>2, <2>1, <2>2
<1>5. CASE PersistEnvelope(w)
  <2>1. /\ Wrote(w, "signing", rows[cur[w]].attempts, NoTx) /\ writeAhead' = writeAhead
        /\ rows[cur[w]].state = "signing" /\ cur[w] \in Ops
    BY <1>5, PersistWrote DEF PersistEnvelope, Wrote
  <2>2. rows[cur[w]].signed = NoTx
    BY <1>0, <2>1 DEF RowGood
  <2>3. QED
    BY <1>1, <2>1, <2>2, WroteRetires
<1>6. CASE Sign(w)
  <2>1. /\ Wrote(w, "signed", rows[cur[w]].attempts, op(w).txid) /\ writeAhead' = writeAhead
        /\ rows[cur[w]].state = "signing" /\ cur[w] \in Ops
    BY <1>6, SignWrote DEF Wrote
  <2>2. rows[cur[w]].signed = NoTx /\ NoTx \notin Txids
    BY <1>0, <2>1, StoreAssumption DEF RowGood
  <2>3. \A t \in writeAhead[cur[w]] : Provable(t)
    BY <1>0, <2>1, <2>2 DEF ProgressInv, RetiredProvable
  <2>4. QED
    BY <1>1, <2>1, <2>3, WroteRetires
<1>7. CASE RebuildUnsent(w)
  <2>1. pc[w] = "step" /\ op(w).state = "signed" /\ Rebuild(w)
    BY <1>7 DEF RebuildUnsent, AtStep
  <2>2. /\ Wrote(w, "signing", rows[cur[w]].attempts + 1, NoTx) /\ writeAhead' = writeAhead
        /\ op(w) = rows[cur[w]] /\ cur[w] \in Ops
    BY <2>1, RebuildWrote DEF Wrote
  <2>3. \A t \in writeAhead[cur[w]] : Provable(t)
    BY <2>1, <2>2 DEF ProgressInv, RetiredProvable
  <2>4. QED
    BY <1>1, <2>2, <2>3, WroteRetires
<1>8. CASE RebuildDead(w)
  <2>1. pc[w] = "proof" /\ proof_of_death(w) /\ Rebuild(w)
    BY <1>8 DEF RebuildDead
  <2>2. /\ Wrote(w, "signing", rows[cur[w]].attempts + 1, NoTx) /\ writeAhead' = writeAhead
        /\ op(w) = rows[cur[w]] /\ cur[w] \in Ops
    BY <2>1, RebuildWrote DEF Wrote
  <2>3. \A t \in writeAhead[cur[w]] : Provable(t)
    BY <2>1, <2>2 DEF ProgressInv, RetiredProvable, proof_of_death, Provable
  <2>4. QED
    BY <1>1, <2>2, <2>3, WroteRetires
<1>9. CASE WriteAhead(w)
  <2>1. /\ Wrote(w, "broadcasting", rows[cur[w]].attempts, rows[cur[w]].signed)
        /\ pc[w] = "ahead" /\ op(w).state = "signed"
        /\ writeAhead' = [writeAhead EXCEPT ![cur[w]] = @ \cup {op(w).signed}]
    BY <1>0, <1>9, CasWrote DEF WriteAhead, ControlOf
  <2>2. op(w) = rows[cur[w]] /\ cur[w] \in Ops
    BY <2>1 DEF Wrote
  <2>3. op(w).signed \in Txids /\ op(w).signed = op(w).txid
    BY <2>1, SignedEnvelope
  <2>4. rows[cur[w]].signed.pay = Pay[cur[w]]
    BY <1>0, <2>2, <2>3, StoreAssumption DEF RowGood
  <2>5. QED
    BY <1>1, <2>1, <2>2, <2>3, <2>4, WroteRetires
<1>10. QED
  BY <1>3, <1>4, <1>5, <1>6, <1>7, <1>8, <1>9 DEF WorkerStep, QuietStep

(* A row with no operation has no lease. *)
LEMMA QuietAbsent ==
  ASSUME FencingInv, ProgressInv, NEW w \in Workers, QuietStep(w)
  PROVE  \A o \in Ops : rows'[o].state = "absent" => rows'[o].lease = NoLease
<1>1. rows \in [Ops -> Rows] /\ \A o \in Ops : rows[o].state = "absent" => rows[o].lease = NoLease
  BY DEF FencingInv, TypeOK, ProgressInv
<1>2. CASE rows' = rows
  BY <1>1, <1>2
<1>3. CASE Claim(w)
  <2>1. PICK picked \in Batches : claim(picked)
    BY <1>3 DEF Claim
  <2>2. ASSUME NEW o \in picked PROVE rows[o].state # "absent"
    BY PickedRows, States
  <2>3. ASSUME NEW o \in Ops PROVE rows'[o] = IF o \in picked THEN claimed(o) ELSE rows[o]
    BY <2>1 DEF claim
  <2>4. ASSUME NEW o \in Ops, rows'[o].state = "absent" PROVE rows'[o] = rows[o]
    BY <2>2, <2>3, <2>4, ClaimedRow DEF FencingInv
  <2>5. QED
    BY <1>1, <2>4
<1>4. CASE Release(w)
  <2>1. CASE rows' = [rows EXCEPT ![cur[w]].lease = NoLease]
    BY <1>1, <2>1, SMT DEF Rows
  <2>2. QED
    BY <1>2, <1>4, <2>1 DEF Release, release
<1>5. QED
  BY <1>2, <1>3, <1>4 DEF QuietStep, BuildEnvelope, HandlerError, QueryTimeout, CheckExpiry,
     LookupFound, AwaitSolidity, LookupSolid, LookupUnknown, NotDead, LostClaim, Crash, Settle, Park, storeVars

LEMMA ProgressInvStep ==
  ASSUME FencingInv, FencingInv', ProgressInv, [SluiceNext]_vars
  PROVE  ProgressInv'
<1>1. /\ \A v \in Workers : ThreadOf(v)
      /\ \A o \in Ops : rows[o].state = "absent" => rows[o].lease = NoLease
      /\ DOMAIN txs \subseteq DOMAIN txs'
  BY SolidRises DEF ProgressInv
<1>2. ASSUME NEW w \in Workers, WorkerStep(w) \/ Crash(w) PROVE ProgressInv'
  <2>1. \A v \in Workers : ThreadOf(v)'
    BY <1>1, <1>2, StepAside, StepThread, ThreadStays DEF Aside
  <2>2. CASE QuietStep(w)
    BY <2>1, <2>2, QuietAbsent, QuietRows, StillRetired DEF ProgressInv
  <2>3. CASE Send(w)
    <3>1. rows' = rows /\ RowsStill /\ writeAhead' = writeAhead
      BY <2>3 DEF Send, storeVars, RowsStill
    <3>2. QED
      BY <1>1, <2>1, <3>1, StillRetired DEF ProgressInv
  <2>4. CASE WorkerStep(w) /\ ~QuietStep(w) /\ ~Send(w)
    BY <2>1, <2>4, WriterRetires DEF ProgressInv
  <2>5. QED
    BY <1>2, <2>2, <2>3, <2>4 DEF QuietStep
<1>3. ASSUME UNCHANGED workerVars PROVE \A v \in Workers : ThreadOf(v)'
  BY <1>1, <1>3, ThreadStays DEF workerVars, driveVars, localVars
<1>4. CASE UNCHANGED vars \/ ClockTick \/ MineBlock
  <2>1. rows' = rows /\ RowsStill /\ writeAhead' = writeAhead /\ UNCHANGED workerVars
    BY <1>4 DEF vars, ClockTick, MineBlock, storeVars, RowsStill
  <2>2. QED
    BY <1>1, <1>3, <2>1, StillRetired DEF ProgressInv
<1>5. ASSUME NEW o \in Ops, Submit(o) PROVE ProgressInv'
  <2>1. /\ rows' = [rows EXCEPT ![o].state = "requested"] /\ rows[o].state = "absent"
        /\ rows \in [Ops -> Rows] /\ writeAhead' = writeAhead /\ UNCHANGED <<now, nodeVars, workerVars>>
        /\ RowGood(rows[o], Pay[o], all_txids[o], writeAhead[o])
    BY <1>5 DEF Submit, insert_new, FencingInv, TypeOK, Coherent
  <2>2. /\ rows'[o].state = "requested" /\ rows'[o].signed = rows[o].signed
        /\ \A p \in Ops \ {o} : rows'[p] = rows[p]
    BY <2>1, SMT DEF Rows
  <2>3. solid_now' = solid_now
    BY <2>1 DEF nodeVars, solid_now, SolidHeight, solid_block
  <2>4. \A t : Provable(t) => Provable(t)'
    BY <2>3 DEF Provable
  <2>5. RetiredProvable'
    BY <2>1, <2>2, <2>4 DEF ProgressInv, RetiredProvable
  <2>6. QED
    BY <1>1, <1>3, <2>1, <2>2, <2>5 DEF ProgressInv
<1>6. QED
  BY <1>2, <1>4, <1>5 DEF SluiceNext

LEMMA ProgressInvInit == SluiceInit => ProgressInv
<1> SUFFICES ASSUME SluiceInit PROVE ProgressInv
  OBVIOUS
<1>1. \A w \in Workers : ThreadOf(w)
  BY DEF SluiceInit, ThreadOf
<1>2. \A o \in Ops : rows[o].lease = NoLease /\ writeAhead[o] = {}
  BY SMT DEF SluiceInit, StoreInit, NoRow
<1>3. QED
  BY <1>1, <1>2 DEF ProgressInv, RetiredProvable

(* What the labels say of a worker's thread, and that an envelope that was  *)
(* sent is given up only under a proof of death, in every reachable state   *)
(* and over either store (_drive, _rebuild and _proof_of_death).            *)
THEOREM SpecProgressInv == Spec => []ProgressInv
<1>1. SluiceInit => FencingInv /\ ProgressInv
  BY FencingInit, ProgressInvInit
<1>2. FencingInv /\ ProgressInv /\ [SluiceNext]_vars => (FencingInv /\ ProgressInv)'
  BY FencingStep, ProgressInvStep
<1>3. QED
  BY <1>1, <1>2, PTL DEF Spec

-----------------------------------------------------------------------------
(*                      A cas is a write of the owner                      *)

(* What stays of the rows when only one of them, or none, is written. *)
LEMMA OtherLeases ==
  ASSUME NEW o \in Ops, rows'[o].state = rows[o].state, rows'[o].lease = rows[o].lease, now' = now
  PROVE  (rows[o].state \in CLAIMABLE /\ ~LeaseOver(o))' <=> (rows[o].state \in CLAIMABLE /\ ~LeaseOver(o))
BY DEF LeaseOver

(* A cas is a write of the owner. *)
LEMMA WroteIsWrite ==
  ASSUME StoreKind = "memory", LeaseRuns, FencingInv, FencingInv', NEW w \in Workers, Aside(w),
         NEW to, NEW n, NEW s, Wrote(w, to, n, s),
         \A o \in Ops \ {cur[w]} : o \in mine'[w] <=> o \in mine[w],
         cur[w] \in mine'[w] <=> to \notin TERMINAL
  PROVE  /\ Untimed!Write(w, to)
         /\ RowAttempts' = [RowAttempts EXCEPT ![cur[w]] = n]
         /\ \A v \in Workers \ {w} : PhaseOf(v)' = PhaseOf(v)
<1>0. PICK c \in Ops : c = cur[w]
  BY DEF Wrote
<1>1. c \in mine[w] /\ to \in OpState /\ snap[w][c] = rows[c]
  BY <1>0 DEF Wrote, op
<1>2. rows'[c].state = to /\ rows'[c].attempts = n
  BY <1>0 DEF Wrote
<1>3. \A o \in Ops \ {c} : rows'[o] = rows[o] /\ snap'[w][o] = snap[w][o]
  BY <1>0 DEF Wrote
<1>4. \A o \in Ops : rows'[o].token = rows[o].token
  BY <1>0 DEF Wrote
<1>5. now' = now /\ arrival' = arrival
  BY <1>0 DEF Wrote
<1>6. to \notin TERMINAL => snap'[w][c] = rows'[c] /\ rows'[c].lease = now + Lease
  BY <1>0 DEF Wrote
<1>7. \A v \in Workers \ {w} : PhaseOf(v)' = PhaseOf(v)
  BY <1>4, PhaseStays DEF Aside
<1>8. ASSUME NEW v \in Workers \ {w}, NEW o \in Ops PROVE Holds(v, o)' <=> Holds(v, o)
  BY <1>4 DEF Holds, Aside
<1>9. ASSUME NEW o \in Ops \ {c} PROVE Holds(w, o)' <=> Holds(w, o)
  BY <1>0, <1>3, <1>4 DEF Holds
<1>10. Holds(w, c)' <=> to \notin TERMINAL
  BY <1>0, <1>1, <1>4, <1>6 DEF Holds
<1>11. \A v \in Workers : Holds(v, c) => v = w
  BY <1>1, OwnerFacts DEF Holds
<1>12. RowStates' = [RowStates EXCEPT ![c] = to] /\ RowAttempts' = [RowAttempts EXCEPT ![c] = n]
  BY <1>1, <1>2, <1>3 DEF RowStates, RowAttempts
<1>13. Leases' = [Leases EXCEPT ![c] = to \notin TERMINAL]
  <2>1. to \in CLAIMABLE <=> to \notin TERMINAL
    BY <1>1, States DEF OpState
  <2>2. to \notin TERMINAL => ~(rows'[c].lease <= now')
    <3>1. now \in Nat /\ Lease \in Nat /\ Lease > 0
      BY StoreAssumption DEF FencingInv, TypeOK, NodeTypeOK, LeaseRuns
    <3>2. ~(now + Lease <= now)
      BY <3>1, SMT
    <3>3. QED
      BY <1>5, <1>6, <3>2
  <2>3. (rows[c].state \in CLAIMABLE /\ ~LeaseOver(c))' <=> to \notin TERMINAL
    BY <1>2, <2>1, <2>2 DEF LeaseOver
  <2>4. \A o \in Ops \ {c} : (rows[o].state \in CLAIMABLE /\ ~LeaseOver(o))'
                               <=> (rows[o].state \in CLAIMABLE /\ ~LeaseOver(o))
    BY <1>3, <1>5, OtherLeases
  <2>5. QED
    BY <1>1, <2>3, <2>4 DEF Leases
<1>14. \A o \in Ops \ {c} : OwnerOf(o)' = OwnerOf(o)
  BY <1>8, <1>9, OwnerStays
<1>15. OwnerOf(c)' = IF to \in TERMINAL THEN Nobody ELSE w
  <2>1. CASE to \in TERMINAL
    BY <1>1, <1>8, <1>10, <1>11, <2>1, OwnerGone
  <2>2. CASE to \notin TERMINAL
    BY <1>1, <1>10, <2>2, OwnerFactsNext
  <2>3. QED
    BY <2>1, <2>2
<1>16. Owners' = [Owners EXCEPT ![c] = IF to \in TERMINAL THEN Nobody ELSE w]
  BY <1>1, <1>14, <1>15 DEF Owners
<1>17. QED
  BY <1>0, <1>5, <1>7, <1>12, <1>13, <1>16, SameWords DEF Untimed!Write

(* A handler that ends in a cas is a write after which the loop goes on. *)
LEMMA WroteAndReturned ==
  ASSUME StoreKind = "memory", LeaseRuns, FencingInv, FencingInv', NEW w \in Workers, Aside(w),
         NEW to, NEW n, NEW s, Wrote(w, to, n, s), StepReturned(w, to)
  PROVE  Untimed!WriteAndReturn(w, to) /\ RowAttempts' = [RowAttempts EXCEPT ![cur[w]] = n]
<1>1. /\ cur[w] \in Ops /\ cur[w] \in mine[w] /\ to \in OpState
      /\ \A o \in Ops \ {cur[w]} : rows'[o] = rows[o] /\ snap'[w][o] = snap[w][o]
  BY DEF Wrote
<1>2. /\ TypeOK /\ mine[w] \subseteq Ops /\ pc \in [Workers -> Labels]
  BY DEF FencingInv, TypeOK
<1>3. CASE to \in TERMINAL
  <2>1. NextOp(w) /\ mine'[w] = mine[w] \ {cur[w]}
    BY <1>1, <1>2, <1>3, StepReturnedShape DEF StepReturned
  <2>2. /\ Untimed!Write(w, to) /\ RowAttempts' = [RowAttempts EXCEPT ![cur[w]] = n]
        /\ \A v \in Workers \ {w} : PhaseOf(v)' = PhaseOf(v)
    BY <1>3, <2>1, WroteIsWrite
  <2>3. Untimed!NextOp(w)
    BY <1>1, <1>2, <2>1, <2>2, NextOpIsNextOp
  <2>4. QED
    BY <1>3, <2>2, <2>3, SameWords DEF Untimed!WriteAndReturn
<1>4. CASE to \notin TERMINAL
  <2>1. mine' = mine /\ cur' = cur /\ (Goto(w, "release") \/ Goto(w, "step"))
    BY <1>4 DEF StepReturned, driveVars
  <2>2. /\ Untimed!Write(w, to) /\ RowAttempts' = [RowAttempts EXCEPT ![cur[w]] = n]
        /\ \A v \in Workers \ {w} : PhaseOf(v)' = PhaseOf(v)
    BY <1>1, <1>4, <2>1, WroteIsWrite
  <2>3. op(w)' = RowOf(w)'
    BY <1>4, <2>1 DEF Wrote, op, RowOf
  <2>4. pc'[w] \in {"release", "step"}
    BY <1>2, <2>1 DEF Goto
  <2>5. PhaseOf(w)' = "park" \/ PhaseOf(w)' = "ready"
    BY <2>3, <2>4, PhaseAtNext
  <2>6. Untimed!Return(w)
    BY <2>1, <2>2, <2>5, OnePhase DEF Untimed!Return, Untimed!Enter
  <2>7. QED
    BY <1>4, <2>2, <2>6, SameWords DEF Untimed!WriteAndReturn
<1>5. QED
  BY <1>3, <1>4

(* A handler that goes on after its cas. *)
LEMMA WroteAndWent ==
  ASSUME StoreKind = "memory", LeaseRuns, FencingInv, FencingInv', NEW w \in Workers, Aside(w),
         NEW to, NEW n, NEW s, Wrote(w, to, n, s), to \notin TERMINAL, UNCHANGED driveVars
  PROVE  /\ Untimed!Write(w, to) /\ RowAttempts' = [RowAttempts EXCEPT ![cur[w]] = n]
         /\ \A v \in Workers \ {w} : PhaseOf(v)' = PhaseOf(v)
         /\ op(w)' = RowOf(w)'
<1>1. mine' = mine /\ cur' = cur /\ cur[w] \in mine[w]
  BY DEF driveVars, Wrote
<1>2. op(w)' = RowOf(w)'
  BY <1>1 DEF Wrote, op, RowOf
<1>3. QED
  BY <1>1, <1>2, WroteIsWrite

(* What a cas does to the envelope of its row. *)
LEMMA WroteEnvelope ==
  ASSUME FencingInv, NEW w \in Workers, NEW to, NEW n, NEW s, Wrote(w, to, n, s)
  PROVE  /\ to \notin InFlight =>
              RowEnvelopes' = [RowEnvelopes EXCEPT ![cur[w]] = Untimed!NoEnvelope]
         /\ to \notin InFlight /\ rows[cur[w]].state \notin InFlight =>
              RowEnvelopes' = RowEnvelopes
         /\ to \in InFlight /\ rows[cur[w]].state \in InFlight /\ s = rows[cur[w]].signed =>
              RowEnvelopes' = RowEnvelopes
         /\ to \in InFlight =>
              RowEnvelopes' = [RowEnvelopes EXCEPT ![cur[w]] =
                 [fate |-> FateOf(s), expired |-> s.exp <= now, provable |-> Provable(s)]]
<1>0. PICK c \in Ops : c = cur[w]
  BY DEF Wrote
<1>1. rows'[c].state = to /\ rows'[c].signed = s
  BY <1>0 DEF Wrote
<1>2. now' = now /\ head' = head /\ blockTime' = blockTime /\ txs' = txs
  BY DEF Wrote
<1>3. \A o \in Ops \ {c} : EnvelopeOf(o)' = EnvelopeOf(o)
  <2>1. \A o \in Ops \ {c} : rows'[o] = rows[o]
    BY <1>0 DEF Wrote
  <2>2. QED
    BY <1>2, <2>1, EnvelopeStays
<1>4. FateOf(s)' = FateOf(s) /\ Provable(s)' = Provable(s)
  <2>1. solid_now' = solid_now
    BY <1>2 DEF solid_block, solid_now, SolidHeight
  <2>2. QED
    BY <1>2, <2>1 DEF FateOf, Landed, IsSolid, solid_block, Provable
<1>5. to \notin InFlight => EnvelopeOf(c)' = Untimed!NoEnvelope
  BY <1>1 DEF EnvelopeOf, Untimed!NoEnvelope, InFlight
<1>6. rows[c].state \notin InFlight => EnvelopeOf(c) = Untimed!NoEnvelope
  BY DEF EnvelopeOf, Untimed!NoEnvelope, InFlight
<1>7. to \in InFlight => EnvelopeOf(c)' =
        [fate |-> FateOf(s), expired |-> s.exp <= now, provable |-> Provable(s)]
  <2>1. to \in InFlight => EnvelopeOf(c)' =
          [fate |-> FateOf(s)', expired |-> s.exp <= now', provable |-> Provable(s)']
    BY <1>1 DEF EnvelopeOf, InFlight, Provable
  <2>2. QED
    BY <1>2, <1>4, <2>1
<1>8. rows[c].state \in InFlight /\ s = rows[c].signed => EnvelopeOf(c) =
        [fate |-> FateOf(s), expired |-> s.exp <= now, provable |-> Provable(s)]
  BY DEF EnvelopeOf, InFlight, Provable
<1>9. \A e : EnvelopeOf(c)' = e => RowEnvelopes' = [RowEnvelopes EXCEPT ![c] = e]
  BY <1>3 DEF RowEnvelopes
<1>10. EnvelopeOf(c)' = EnvelopeOf(c) => RowEnvelopes' = RowEnvelopes
  BY <1>3 DEF RowEnvelopes
<1>11. QED
  BY <1>0, <1>5, <1>6, <1>7, <1>8, <1>9, <1>10

LEMMA StillNoEnvelope ==
  ASSUME FencingInv, NEW w \in Workers, NEW to, NEW n, NEW s, Wrote(w, to, n, s),
         to \notin InFlight, rows[cur[w]].state \notin InFlight
  PROVE  RowEnvelopes' = RowEnvelopes
BY WroteEnvelope

LEMMA SameEnvelope ==
  ASSUME FencingInv, NEW w \in Workers, NEW to, NEW n, Wrote(w, to, n, rows[cur[w]].signed),
         to \in InFlight, rows[cur[w]].state \in InFlight
  PROVE  RowEnvelopes' = RowEnvelopes
BY WroteEnvelope

LEMMA EnvelopeGone ==
  ASSUME FencingInv, NEW w \in Workers, NEW to, NEW n, NEW s, Wrote(w, to, n, s),
         to \notin InFlight
  PROVE  RowEnvelopes' = [RowEnvelopes EXCEPT ![cur[w]] = Untimed!NoEnvelope]
BY WroteEnvelope

LEMMA EnvelopeSet ==
  ASSUME FencingInv, NEW w \in Workers, NEW to, NEW n, NEW s, Wrote(w, to, n, s),
         to \in InFlight
  PROVE  RowEnvelopes' = [RowEnvelopes EXCEPT ![cur[w]] =
           [fate |-> FateOf(s), expired |-> s.exp <= now, provable |-> Provable(s)]]
BY WroteEnvelope
=============================================================================
