---------------------------- MODULE StoreContract ---------------------------
(***************************************************************************)
(* What a worker may rely on, whichever store it uses: claim, cas and      *)
(* release take effect at one instant each. A copy in held[w][o] is the    *)
(* worker's proof of ownership; it is good while its token is the row's.   *)
(***************************************************************************)
EXTENDS OpStates, Integers, FiniteSets

CONSTANTS Ops, Workers, ClaimBatch, Lease, NoLease, NoCopy

VARIABLES now, table, held

contractVars == <<now, table, held>>

Copy(row) == [state |-> row.state, token |-> row.token]

ContractInit ==
  /\ now = 0
  /\ table = [o \in Ops |-> [state |-> "requested", token |-> 0, lease |-> NoLease]]
  /\ held = [w \in Workers |-> [o \in Ops |-> NoCopy]]

Leases == 0..(now + Lease)

Free(o) == table[o].state \in CLAIMABLE /\ table[o].lease < now

(* claim: free rows only, each under a new token and a lease that starts   *)
(* no later than now.                                                      *)
Claim(w, picked) ==
  /\ picked # {} /\ Cardinality(picked) <= ClaimBatch
  /\ \A o \in picked : Free(o)
  /\ \E lease \in Leases :
       table' = [o \in Ops |->
                   IF o \in picked
                     THEN [table[o] EXCEPT !.token = @ + 1, !.lease = lease]
                     ELSE table[o]]
  /\ held' = [held EXCEPT ![w] =
                [o \in Ops |-> IF o \in picked THEN Copy(table'[o]) ELSE NoCopy]]
  /\ UNCHANGED now

(* cas: the owner writes, and whoever is not writes nothing. The owner may *)
(* not hear that it has written. Writes into a terminal state are left out *)
(* (the database store makes none), and so is the unique txid.             *)
Cas(w, o) ==
  /\ held[w][o] = Copy(table[o])
  /\ \E to \in CLAIMABLE, lease \in Leases \cup {table[o].lease} :
       /\ can_transition(table[o].state, to)
       /\ table' = [table EXCEPT ![o].state = to, ![o].lease = lease]
       /\ held' = [held EXCEPT ![w][o].state = to] \/ UNCHANGED held
  /\ UNCHANGED now

Release(w, o) ==
  /\ held[w][o] # NoCopy /\ held[w][o].token = table[o].token
  /\ table' = [table EXCEPT ![o].lease = NoLease]
  /\ held' = [held EXCEPT ![w][o] = NoCopy]
  /\ UNCHANGED now

Refused(w, o) ==
  /\ held[w][o] # NoCopy /\ held[w][o] # Copy(table[o])
  /\ held' = [held EXCEPT ![w][o] = NoCopy]
  /\ UNCHANGED <<now, table>>

Die(w) ==
  /\ held' = [held EXCEPT ![w] = [o \in Ops |-> NoCopy]]
  /\ UNCHANGED <<now, table>>

Tick == now' = now + 1 /\ UNCHANGED <<table, held>>

ContractNext ==
  \/ \E w \in Workers, picked \in SUBSET Ops : Claim(w, picked)
  \/ \E w \in Workers, o \in Ops : Cas(w, o) \/ Release(w, o) \/ Refused(w, o)
  \/ \E w \in Workers : Die(w)
  \/ Tick

ContractSpec == ContractInit /\ [][ContractNext]_contractVars
=============================================================================
