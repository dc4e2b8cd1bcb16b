------------------------------- MODULE Settling -----------------------------
(***************************************************************************)
(* Does every operation finish? Progress with fairness. Faults (a lookup   *)
(* that times out, a dead process, a lease that runs out while its owner   *)
(* is at work) may strike at any moment, MaxFaults times in all; between   *)
(* them nothing is assumed except that things keep moving:                 *)
(*   - a worker that can take a step takes one (run_forever's loop; a      *)
(*     process that died is started again);                                *)
(*   - the clock runs, so leases nobody renews and envelopes run out;      *)
(*   - blocks are produced, so blocks become solid and solid time passes   *)
(*     every deadline.                                                     *)
(* Nothing is assumed of the node's answers to a broadcast: all of them    *)
(* may be lost, busy or wrong.                                             *)
(***************************************************************************)
EXTENDS Progress

CONSTANTS
  First,      \* the operation that is submitted first
  MaxFaults

ASSUME SettlingAssumption == First \in Ops /\ MaxFaults \in Nat

VARIABLE faults

settlingVars == <<progressVars, faults>>

(* ProgressInit after Submit(First). *)
SettlingInit ==
  /\ state = [o \in Ops |-> IF o = First THEN "requested" ELSE "absent"]
  /\ attempts = [o \in Ops |-> 0]
  /\ arrival = [o \in Ops |-> {}]
  /\ env = [o \in Ops |-> NoEnvelope]
  /\ leased = [o \in Ops |-> FALSE]
  /\ owner = [o \in Ops |-> Nobody]
  /\ mine = [w \in Workers |-> {}]
  /\ cur = [w \in Workers |-> NoOp]
  /\ phase = [w \in Workers |-> "idle"]
  /\ faults = 0

Unowned == {o \in Ops : owner[o] = Nobody}

(* Leases and envelopes run out one by one: a tick or a block that ends     *)
(* several is as good as one after the other.                               *)
Calm ==
  \/ \E o \in Ops : Submit(o)
  \/ \E o \in Leased \cap Unowned : Tick({o}, {})
  \/ \E o \in Fresh : Tick({}, {o})
  \/ \E o \in Ops : \E e \in Aged \ {env[o]} : Blocks([env EXCEPT ![o] = e])

Fault ==
  /\ faults < MaxFaults
  /\ faults' = faults + 1
  /\ \/ \E w \in Workers : QueryTimeout(w) \/ Crash(w)
     \/ \E o \in Leased \ Unowned : Tick({o}, {})

SettlingNext ==
  \/ (Calm \/ \E w \in Workers : Step(w)) /\ UNCHANGED faults
  \/ Fault

StepTaken(w) == UNCHANGED faults /\ Step(w)
LeaseEnds(o) == o \in Leased \cap Unowned /\ Tick({o}, {}) /\ UNCHANGED faults
Expires(o)   == o \in Fresh /\ Tick({}, {o}) /\ UNCHANGED faults
TurnsSolid(o) ==
  /\ env[o].fate = "included"
  /\ Blocks([env EXCEPT ![o].fate = "solid"]) /\ UNCHANGED faults
DeadlinePasses(o) ==
  /\ env[o].fate # "none" /\ ~env[o].provable
  /\ Blocks([env EXCEPT ![o].provable = TRUE]) /\ UNCHANGED faults

(* Each of these happens once to an envelope, so it is enough that one of   *)
(* them keeps happening.                                                    *)
TimePasses(o) == LeaseEnds(o) \/ Expires(o) \/ TurnsSolid(o) \/ DeadlinePasses(o)

Fairness ==
  /\ \A w \in Workers : WF_settlingVars(StepTaken(w))
  /\ \A o \in Ops : WF_settlingVars(TimePasses(o))

SettlingSpec == SettlingInit /\ [][SettlingNext]_settlingVars /\ Fairness

-----------------------------------------------------------------------------
(* Every operation that was accepted is settled: no crash, lost answer,     *)
(* stolen lease or dead transaction leaves it in the pipeline for ever, and *)
(* no operation starves behind others that wait (run_once's batch is the    *)
(* oldest claimable rows, parked ones included). A settled operation stays  *)
(* settled, so it is enough that the pipeline is empty again and again.     *)
EverySettles == []<>(\A o \in Ops : state[o] \notin CLAIMABLE)
=============================================================================
