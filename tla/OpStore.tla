------------------------------ MODULE OpStore -------------------------------
(***************************************************************************)
(* The operation store: one row per operation, the append-only event log,  *)
(* and the calls of the Store protocol (sluice/store/memory.py and         *)
(* sluice/store/postgres.py, chosen by StoreKind).                         *)
(*                                                                         *)
(* The log is kept as what the code reads back from it: all_txids, the     *)
(* txids in an operation's events, and writeAhead, those among them whose  *)
(* event is the "write-ahead" of a broadcast.                              *)
(***************************************************************************)
EXTENDS OpStates, TronNode, FiniteSets

CONSTANTS
  Ops,         \* operation ids
  Pay,         \* Pay[o]: the payment operation o asks for
  StoreKind,   \* "memory" or "postgres"
  NoTx,        \* NULL in the txid and signed_tx columns
  Lease,       \* lease_seconds
  ClaimBatch,  \* claim_batch
  MaxToken     \* bound on fencing_token

ASSUME StoreAssumption ==
  /\ IsFiniteSet(Ops)
  /\ Pay \in [Ops -> Payments]
  /\ StoreKind \in {"memory", "postgres"}
  /\ NoTx \notin Txids
  /\ Lease \in Nat /\ ClaimBatch \in Nat /\ MaxToken \in Nat

VARIABLES
  rows,
  arrival,    \* arrival[o]: the operations that had a row before o had one
  all_txids,
  writeAhead

storeVars == <<rows, arrival, all_txids, writeAhead>>

NoLease == -1   \* lease_expires_at is NULL

Rows == [state    : OpState \cup {"absent"},
         token    : Nat,
         lease    : Nat \cup {NoLease},
         attempts : Nat,
         txid     : Txids \cup {NoTx},
         signed   : Txids \cup {NoTx}]

NoRow == [state |-> "absent", token |-> 0, lease |-> NoLease, attempts |-> 0,
          txid |-> NoTx, signed |-> NoTx]

StoreInit ==
  /\ rows = [o \in Ops |-> NoRow]
  /\ arrival = [o \in Ops |-> {}]
  /\ all_txids = [o \in Ops |-> {}]
  /\ writeAhead = [o \in Ops |-> {}]

Present == {o \in Ops : rows[o].state # "absent"}

(* insert_new for an id with no row. With a row it changes nothing. *)
insert_new(o) ==
  /\ rows[o].state = "absent"
  /\ rows' = [rows EXCEPT ![o].state = "requested"]
  /\ arrival' = [arrival EXCEPT ![o] = Present]
  /\ UNCHANGED <<all_txids, writeAhead>>

(* A NULL lease compares as over in both stores; at the very instant of    *)
(* its expiry a lease is over for the memory store only.                   *)
LeaseOver(o) ==
  IF StoreKind = "memory" THEN rows[o].lease <= now ELSE rows[o].lease < now

Eligible == {o \in Ops : rows[o].state \in CLAIMABLE /\ LeaseOver(o)}

Oldest(S) == {o \in S : Cardinality(arrival[o] \cap S) < ClaimBatch}

(* What claim may pick: the oldest eligible rows, in the database among    *)
(* those that no concurrent transaction has locked (SKIP LOCKED).          *)
Batches ==
  IF StoreKind = "memory" THEN {Oldest(Eligible)} ELSE {Oldest(S) : S \in SUBSET Eligible}

(* Mutant: the lease is renewed and the token is not. *)
claimed_SameToken(o) == [rows[o] EXCEPT !.lease = now + Lease]

claimed(o) == [rows[o] EXCEPT !.token = @ + 1, !.lease = now + Lease]

(* claim hands out the picked rows, each under a token nobody held before. *)
claim(picked) ==
  /\ picked \in Batches
  /\ \A o \in picked : rows[o].token < MaxToken
  /\ rows' = [o \in Ops |-> IF o \in picked THEN claimed(o) ELSE rows[o]]
  /\ UNCHANGED <<arrival, all_txids, writeAhead>>

(* Mutant: optimistic locking on the state alone. *)
CasMatches_StateOnly(o, token, from) == rows[o].state = from /\ from \notin TERMINAL

(* The fenced compare: token and state, and never a terminal row. *)
CasMatches(o, token, from) ==
  /\ rows[o].token = token
  /\ rows[o].state = from
  /\ from \notin TERMINAL

(* The state a cas writes, the lease it renews or, when terminal, drops. *)
Committed(row, to) ==
  [row EXCEPT !.state = to,
              !.lease = IF to \in TERMINAL THEN NoLease ELSE now + Lease]

(* Every _cas renews the lease and one into a terminal state drops it too: *)
(* the database's UPDATE then assigns lease_expires_at twice, and the      *)
(* database refuses such a statement whatever rows it would match.         *)
CasRaises(to) == StoreKind = "postgres" /\ to \in TERMINAL

(* Mutant: no unique index. *)
TxidTaken_NoIndex(o, t) == FALSE

(* The partial unique index on txid, which only the database has. *)
TxidTaken(o, t) ==
  StoreKind = "postgres" /\ \E p \in Ops \ {o} : rows[p].txid = t

(* Mutant: whoever gives a row back ends its lease. *)
release_Unfenced(o, token) ==
  /\ rows' = IF rows[o].state \notin TERMINAL THEN [rows EXCEPT ![o].lease = NoLease] ELSE rows
  /\ UNCHANGED <<arrival, all_txids, writeAhead>>

(* release is fenced by the token alone; the database also spares terminal rows. *)
release(o, token) ==
  /\ rows' = IF rows[o].token = token /\ (StoreKind = "memory" \/ rows[o].state \notin TERMINAL)
               THEN [rows EXCEPT ![o].lease = NoLease]
               ELSE rows
  /\ UNCHANGED <<arrival, all_txids, writeAhead>>
=============================================================================
