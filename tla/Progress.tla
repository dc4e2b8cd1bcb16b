------------------------------- MODULE Progress -----------------------------
(***************************************************************************)
(* The workers and the pipeline over the memory store, without clocks,     *)
(* heights and tokens: what is left is who owns a row, whether its lease   *)
(* still runs, and what has become of its current envelope. The state is   *)
(* finite without any bound, so it can be asked whether operations finish. *)
(* Sluice implements this specification (module SluiceProgress).           *)
(*                                                                         *)
(* phase[w]: idle, ready (in a handler), unknown (the lookup did not find  *)
(* the envelope), send and resend (at node.broadcast, or holding its       *)
(* answer, in _broadcast and in _reconcile_broadcast), park (about to      *)
(* release), lost (its claim on cur[w] was taken over).                    *)
(***************************************************************************)
EXTENDS OpStates, Naturals, FiniteSets

CONSTANTS Ops, Workers, Nobody, NoOp, ClaimBatch, MaxBuildAttempts

ASSUME ProgressAssumption ==
  /\ Nobody \notin Workers /\ NoOp \notin Ops
  /\ ClaimBatch \in Nat \ {0} /\ MaxBuildAttempts \in Nat

VARIABLES
  state, attempts, arrival,
  env,     \* the row's current envelope: where it is, is it expired, is it provably dead
  leased,  \* the row's lease is still running
  owner,   \* the worker that holds the row's current token
  mine, cur, phase

rowVars  == <<state, attempts, arrival, env, leased, owner>>
loopVars == <<mine, cur, phase>>
progressVars == <<rowVars, loopVars>>

Fates == {"none", "unsent", "accepted", "included", "solid"}
Envelopes == [fate : Fates, expired : BOOLEAN, provable : BOOLEAN]
NoEnvelope == [fate |-> "none", expired |-> FALSE, provable |-> FALSE]
NewEnvelopes == {e \in Envelopes : e.fate = "unsent" \/ (e.fate = "accepted" /\ e.provable)}

ProgressInit ==
  /\ state = [o \in Ops |-> "absent"]
  /\ attempts = [o \in Ops |-> 0]
  /\ arrival = [o \in Ops |-> {}]
  /\ env = [o \in Ops |-> NoEnvelope]
  /\ leased = [o \in Ops |-> FALSE]
  /\ owner = [o \in Ops |-> Nobody]
  /\ mine = [w \in Workers |-> {}]
  /\ cur = [w \in Workers |-> NoOp]
  /\ phase = [w \in Workers |-> "idle"]

-----------------------------------------------------------------------------
(*                           The loop of a worker                          *)

Enter(w, p) == phase' = [phase EXCEPT ![w] = p]

(* run_once turns to another claimed row, or is done. *)
NextOp(w) ==
  LET left == mine[w] \ {cur[w]} IN
  /\ mine' = [mine EXCEPT ![w] = left]
  /\ \/ left = {} /\ cur' = [cur EXCEPT ![w] = NoOp] /\ Enter(w, "idle")
     \/ \E o \in left :
          /\ cur' = [cur EXCEPT ![w] = o]
          /\ Enter(w, IF owner[o] = w THEN "ready" ELSE "lost")

At(w, p, states) == phase[w] = p /\ state[cur[w]] \in states

(* The handler goes on: with the next step, or to release if out of steps. *)
Return(w) == (Enter(w, "ready") \/ Enter(w, "park")) /\ UNCHANGED <<mine, cur>>

(* The handler returned the operation as it was. *)
Park(w) == Enter(w, "park") /\ UNCHANGED <<rowVars, mine, cur>>

(* A cas by the owner. It renews the lease; into a terminal state it drops *)
(* it, and _drive is done with the row.                                    *)
Write(w, to) ==
  /\ state' = [state EXCEPT ![cur[w]] = to]
  /\ leased' = [leased EXCEPT ![cur[w]] = to \notin TERMINAL]
  /\ owner' = [owner EXCEPT ![cur[w]] = IF to \in TERMINAL THEN Nobody ELSE w]
  /\ UNCHANGED arrival

WriteAndReturn(w, to) ==
  /\ Write(w, to)
  /\ IF to \in TERMINAL THEN NextOp(w) ELSE Return(w)

Eligible == {o \in Ops : state[o] \in CLAIMABLE /\ ~leased[o]}

Picked == {o \in Eligible : Cardinality(arrival[o] \cap Eligible) < ClaimBatch}

Submit(o) ==
  /\ state[o] = "absent"
  /\ state' = [state EXCEPT ![o] = "requested"]
  /\ arrival' = [arrival EXCEPT ![o] = {p \in Ops : state[p] # "absent"}]
  /\ UNCHANGED <<attempts, env, leased, owner, loopVars>>

(* claim: whoever drove one of the picked rows has lost it. *)
Claim(w) ==
  /\ phase[w] = "idle" /\ Picked # {}
  /\ leased' = [o \in Ops |-> leased[o] \/ o \in Picked]
  /\ owner' = [o \in Ops |-> IF o \in Picked THEN w ELSE owner[o]]
  /\ mine' = [mine EXCEPT ![w] = Picked]
  /\ \E o \in Picked : cur' = [cur EXCEPT ![w] = o]
  /\ phase' = [v \in Workers |-> IF v = w THEN "ready"
                                 ELSE IF cur[v] \in Picked THEN "lost" ELSE phase[v]]
  /\ UNCHANGED <<state, attempts, arrival, env>>

-----------------------------------------------------------------------------
(*                               Handlers                                  *)

Validate(w) ==
  /\ At(w, "ready", {"requested"})
  /\ \E to \in {"validated", "rejected"} : WriteAndReturn(w, to)
  /\ UNCHANGED <<attempts, env>>

(* SIGNING is entered, or the new envelope is made durable in it. *)
BeginSigning(w) ==
  /\ At(w, "ready", {"validated", "signing"})
  /\ state[cur[w]] = "signing" => attempts[cur[w]] < MaxBuildAttempts
  /\ Write(w, "signing")
  /\ UNCHANGED <<attempts, env, loopVars>>

GiveUp(w) ==
  /\ At(w, "ready", {"signing"})
  /\ attempts[cur[w]] >= MaxBuildAttempts
  /\ WriteAndReturn(w, "failed")
  /\ UNCHANGED <<attempts, env>>

(* Time has passed since the envelope was built. It may repeat one that was *)
(* built in the same instant and is dead; then the node may know it.        *)
Sign(w) ==
  /\ At(w, "ready", {"signing"})
  /\ attempts[cur[w]] < MaxBuildAttempts
  /\ \E e \in NewEnvelopes : env' = [env EXCEPT ![cur[w]] = e]
  /\ WriteAndReturn(w, "signed")
  /\ UNCHANGED attempts

(* Mutant: a rebuild is not counted. *)
Rebuild_Uncounted(w) ==
  /\ env' = [env EXCEPT ![cur[w]] = NoEnvelope]
  /\ WriteAndReturn(w, "signing")
  /\ UNCHANGED attempts

Rebuild(w) ==
  /\ attempts' = [attempts EXCEPT ![cur[w]] = @ + 1]
  /\ env' = [env EXCEPT ![cur[w]] = NoEnvelope]
  /\ WriteAndReturn(w, "signing")

RebuildUnsent(w) ==
  /\ At(w, "ready", {"signed"}) /\ env[cur[w]].expired
  /\ Rebuild(w)

(* The envelope was not expired when the clock was read; it may be now. *)
WriteAhead(w) ==
  /\ At(w, "ready", {"signed"})
  /\ Write(w, "broadcasting")
  /\ Enter(w, "send")
  /\ UNCHANGED <<attempts, env, mine, cur>>

(* The handler leaves the row in BROADCASTING: a change for _broadcast,    *)
(* which found it in SIGNED, and none for _reconcile_broadcast.            *)
StillSending(w) ==
  /\ (phase[w] = "send" /\ Enter(w, "ready")) \/ Enter(w, "park")
  /\ UNCHANGED <<mine, cur>>

(* node.broadcast, which a worker that has lost its claim may reach too.   *)
(* The answer is held, or was lost and the handler returned.               *)
Send(w) ==
  /\ phase[w] \in {"send", "resend", "lost"}
  /\ \/ UNCHANGED env
     \/ /\ env[cur[w]].fate = "unsent" /\ ~env[cur[w]].expired
        /\ env' = [env EXCEPT ![cur[w]].fate = "accepted"]
  /\ \/ UNCHANGED loopVars
     \/ phase[w] # "lost" /\ StillSending(w)
  /\ UNCHANGED <<state, attempts, arrival, leased, owner>>

(* _settle_broadcast_result: accepted, refused for good, ambiguous or      *)
(* stale, and busy, after which nothing is written at all. When the node   *)
(* refuses is left open.                                                   *)
Settle(w) ==
  /\ phase[w] \in {"send", "resend"}
  /\ \/ env[cur[w]].fate # "unsent" /\ WriteAndReturn(w, "broadcast")
     \/ WriteAndReturn(w, "failed")
     \/ Write(w, "broadcasting") /\ StillSending(w)
     \/ StillSending(w) /\ UNCHANGED <<state, arrival, leased, owner>>
  /\ UNCHANGED attempts
  /\ env' = [env EXCEPT ![cur[w]] = IF state'[cur[w]] \in TERMINAL THEN NoEnvelope ELSE @]

(* find_tx, while it answers: what it says of the owner's envelope. *)
FoundPending(o) == env[o].fate = "accepted" /\ ~env[o].expired
FoundNowhere(o) == env[o].fate = "unsent" \/ (env[o].fate = "accepted" /\ env[o].expired)

(* The lookup was right when it was made; the envelope may have expired. *)
MarkBroadcast(w) ==
  /\ At(w, "ready", {"broadcasting"})
  /\ env[cur[w]].fate \in {"accepted", "included", "solid"}
  /\ WriteAndReturn(w, "broadcast")
  /\ UNCHANGED <<attempts, env>>

AwaitSolidity(w) ==
  /\ At(w, "ready", {"broadcast"})
  /\ FoundPending(cur[w]) \/ env[cur[w]].fate = "included"
  /\ Park(w)

Confirm(w) ==
  /\ At(w, "ready", {"broadcast"}) /\ env[cur[w]].fate = "solid"
  /\ \E to \in {"confirmed", "failed"} : WriteAndReturn(w, to)
  /\ env' = [env EXCEPT ![cur[w]] = NoEnvelope]
  /\ UNCHANGED attempts

LookupUnknown(w) ==
  /\ At(w, "ready", {"broadcasting", "broadcast"}) /\ FoundNowhere(cur[w])
  /\ Enter(w, "unknown")
  /\ UNCHANGED <<rowVars, mine, cur>>

RebuildDead(w) ==
  /\ phase[w] = "unknown" /\ env[cur[w]].provable
  /\ Rebuild(w)

NotDead(w) ==
  /\ phase[w] = "unknown" /\ ~env[cur[w]].provable
  /\ \/ /\ state[cur[w]] = "broadcasting"
        /\ Enter(w, "resend")
        /\ UNCHANGED <<rowVars, mine, cur>>
     \/ state[cur[w]] = "broadcast" /\ Park(w)

Release(w) ==
  /\ phase[w] = "park"
  /\ leased' = [leased EXCEPT ![cur[w]] = FALSE]
  /\ owner' = [owner EXCEPT ![cur[w]] = Nobody]
  /\ NextOp(w)
  /\ UNCHANGED <<state, attempts, arrival, env>>

(* A worker that was fenced finds out, at a cas or at its release. *)
Drop(w) ==
  /\ phase[w] = "lost"
  /\ NextOp(w)
  /\ UNCHANGED rowVars

Drive(w) ==
  \/ Validate(w) \/ BeginSigning(w) \/ GiveUp(w) \/ Sign(w) \/ RebuildUnsent(w)
  \/ WriteAhead(w) \/ Send(w) \/ Settle(w) \/ MarkBroadcast(w) \/ AwaitSolidity(w)
  \/ Confirm(w) \/ LookupUnknown(w) \/ RebuildDead(w) \/ NotDead(w) \/ Release(w) \/ Drop(w)

Step(w) == Claim(w) \/ Drive(w)

-----------------------------------------------------------------------------
(*                        Faults, time and the chain                       *)

QueryTimeout(w) ==
  /\ At(w, "ready", {"broadcasting", "broadcast"})
  /\ Park(w)

Crash(w) ==
  /\ phase[w] # "idle"
  /\ owner' = [o \in Ops |-> IF owner[o] = w THEN Nobody ELSE owner[o]]
  /\ mine' = [mine EXCEPT ![w] = {}]
  /\ cur' = [cur EXCEPT ![w] = NoOp]
  /\ Enter(w, "idle")
  /\ UNCHANGED <<state, attempts, arrival, env, leased>>

Leased == {o \in Ops : leased[o]}
Fresh  == {o \in Ops : env[o].fate # "none" /\ ~env[o].expired}

(* The clock moves: the leases of over run out, the envelopes of old expire. *)
Tick(over, old) ==
  /\ leased' = [o \in Ops |-> leased[o] /\ o \notin over]
  /\ env' = [o \in Ops |-> [env[o] EXCEPT !.expired = @ \/ o \in old]]
  /\ UNCHANGED <<state, attempts, arrival, owner, loopVars>>

(* What a block, or several, may do to an envelope. *)
Ages(o, e) ==
  /\ e.expired = env[o].expired /\ (env[o].fate = "none" => e = env[o])
  /\ env[o].provable => e.provable
  /\ \/ e.fate = env[o].fate
     \/ /\ env[o].fate = "accepted" /\ ~env[o].expired /\ ~env[o].provable
        /\ e.fate \in {"included", "solid"}
     \/ env[o].fate = "included" /\ e.fate = "solid"

Aged == {e \in Envelopes : \E o \in Ops : Ages(o, e)}

(* The chain does not run ahead of a worker between its lookup and its     *)
(* proof: SafeTiming of Sluice, which is where this rests.                 *)
PromptProof(o, e) ==
  e.fate \in {"included", "solid"} /\ e.provable =>
    \A w \in Workers : ~(phase[w] = "unknown" /\ cur[w] = o)

Blocks(envs) ==
  /\ \A o \in Ops : Ages(o, envs[o]) /\ PromptProof(o, envs[o])
  /\ env' = envs
  /\ UNCHANGED <<state, attempts, arrival, leased, owner, loopVars>>

ProgressNext ==
  \/ \E o \in Ops : Submit(o)
  \/ \E w \in Workers : Step(w) \/ QueryTimeout(w) \/ Crash(w)
  \/ \E over \in SUBSET Leased, old \in SUBSET Fresh : Tick(over, old)
  \/ \E envs \in [Ops -> Aged] : Blocks(envs)

ProgressSpec == ProgressInit /\ [][ProgressNext]_progressVars
=============================================================================
