--------------------------- MODULE SluiceProgress ---------------------------
(***************************************************************************)
(* How Sluice over the memory store reads as Progress.                     *)
(***************************************************************************)
EXTENDS SluiceInv

CONSTANT Nobody

ASSUME NobodyAssumption == Nobody \notin Workers

Holds(w, o) == o \in mine[w] /\ snap[w][o].token = rows[o].token

OwnerOf(o) ==
  IF \E w \in Workers : Holds(w, o) THEN CHOOSE w \in Workers : Holds(w, o) ELSE Nobody

FateOf(t) ==
  IF Landed(t) THEN (IF IsSolid(t) THEN "solid" ELSE "included")
  ELSE IF t \in DOMAIN txs THEN "accepted" ELSE "unsent"

EnvelopeOf(o) ==
  IF rows[o].state \in {"signed", "broadcasting", "broadcast"}
    THEN [fate     |-> FateOf(rows[o].signed),
          expired  |-> rows[o].signed.exp <= now,
          provable |-> solid_now >= rows[o].signed.exp + Margin]
    ELSE [fate |-> "none", expired |-> FALSE, provable |-> FALSE]

PhaseOf(w) ==
  IF pc[w] = "idle" THEN "idle"
  ELSE IF op(w).token # RowOf(w).token THEN "lost"
  ELSE CASE pc[w] = "proof"              -> "unknown"
         [] pc[w] \in {"send", "settle"} -> IF before[w] = "signed" THEN "send" ELSE "resend"
         [] pc[w] = "release"            -> "park"
         [] OTHER                        -> "ready"

RowStates    == [o \in Ops |-> rows[o].state]
RowAttempts  == [o \in Ops |-> rows[o].attempts]
RowEnvelopes == [o \in Ops |-> EnvelopeOf(o)]
Leases       == [o \in Ops |-> rows[o].state \in CLAIMABLE /\ ~LeaseOver(o)]
Owners       == [o \in Ops |-> OwnerOf(o)]
Phases       == [w \in Workers |-> PhaseOf(w)]

Untimed == INSTANCE Progress WITH
  state <- RowStates, attempts <- RowAttempts, env <- RowEnvelopes,
  leased <- Leases, owner <- Owners, phase <- Phases

(* Nothing in the pipeline depends on clocks, heights and tokens except     *)
(* through ownership, the lease and the fate of the current envelope: every *)
(* step of the handlers is one of the untimed specification.                *)
ImplementsProgress == Untimed!ProgressSpec

-----------------------------------------------------------------------------
(* The rest of the inductive invariant of this refinement, beyond FencingInv *)
(* and MoneyInv, and the assumption it needs: a lease that is renewed runs.  *)
LeaseRuns == Lease > 0

(* What a worker's label says of the step it is in. *)
ThreadOf(w) ==
  /\ pc[w] = "idle" => cur[w] = NoOp /\ mine[w] = {}
  /\ pc[w] \in {"step", "ahead", "proof"} => before[w] = op(w).state
  /\ pc[w] \in {"send", "settle"} => before[w] \in {"signed", "broadcasting"}
  /\ pc[w] \in {"persist", "sign"} => op(w).attempts < MaxBuildAttempts
  /\ pc[w] = "found" \/ (pc[w] = "settle" /\ answer[w] \in ACCEPTED) =>
       op(w).signed \in DOMAIN txs

Provable(t) == solid_now >= t.exp + Margin

(* An envelope that was sent is given up only with a proof. *)
RetiredProvable ==
  \A o \in Ops : \A t \in writeAhead[o] :
    /\ t.pay = Pay[o]
    /\ rows[o].state = "signed" \/ rows[o].signed # t => Provable(t)

ProgressInv ==
  /\ \A w \in Workers : ThreadOf(w)
  /\ \A o \in Ops : rows[o].state = "absent" => rows[o].lease = NoLease
  /\ RetiredProvable
=============================================================================
