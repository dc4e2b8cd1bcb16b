------------------------------- MODULE PgStore ------------------------------
(***************************************************************************)
(* claim, cas and release of sluice/store/postgres.py as the database runs *)
(* them: transactions that read at the start of their statement, take row  *)
(* locks one by one, look again at a row they have locked, and publish at  *)
(* commit. now() is the time at which the transaction began.               *)
(*                                                                         *)
(* Row locks, SKIP LOCKED and the second look at a row that was changed    *)
(* since the statement began are PostgreSQL's (READ COMMITTED). The txid   *)
(* column is left out, and with it the wait of a write for another that is *)
(* about to store the same txid.                                           *)
(***************************************************************************)
EXTENDS OpStates, Integers, FiniteSets

CONSTANTS
  Ops,
  CreatedAt,   \* CreatedAt[o]: the order of created_at
  Workers, Nobody,
  ClaimBatch, Lease, NoLease, NoCopy, NoOp,
  Targets,            \* the states the workers write, a bound
  MaxTime, MaxToken   \* bounds

ASSUME PgAssumption ==
  /\ IsFiniteSet(Ops) /\ CreatedAt \in [Ops -> Nat]
  /\ Nobody \notin Workers /\ NoOp \notin Ops
  /\ ClaimBatch \in Nat \ {0} /\ Lease \in Nat /\ NoLease = -1
  /\ Targets \subseteq CLAIMABLE

VARIABLES
  now,
  table,  \* the committed rows
  held,   \* the copies a worker was given: its proof of ownership
  lock,   \* lock[o]: the worker whose open transaction has locked the row
  tx      \* the open transaction of a worker

pgVars == <<now, table, held, lock, tx>>

Copy(row) == [state |-> row.state, token |-> row.token]

(* do: none, claim, or a write that waits for its row or has locked it.    *)
Idle == [do |-> "none", at |-> 0, scan |-> {}, got |-> {}, o |-> NoOp, to |-> "absent"]

PgInit ==
  /\ now = 0
  /\ table = [o \in Ops |-> [state |-> "requested", token |-> 0, lease |-> NoLease]]
  /\ held = [w \in Workers |-> [o \in Ops |-> NoCopy]]
  /\ lock = [o \in Ops |-> Nobody]
  /\ tx = [w \in Workers |-> Idle]

Holding(w) == {o \in Ops : held[w][o] # NoCopy}

Unlocked(w) == [o \in Ops |-> IF lock[o] = w THEN Nobody ELSE lock[o]]

End(w) == tx' = [tx EXCEPT ![w] = Idle] /\ lock' = Unlocked(w)

-----------------------------------------------------------------------------
(* claim. run_once claims when it is done with its batch. *)

Qualifies(o, at) == table[o].state \in CLAIMABLE /\ table[o].lease < at

BeginClaim(w) ==
  /\ tx[w].do = "none" /\ Holding(w) = {}
  /\ \A o \in Ops : table[o].token < MaxToken
  /\ tx' = [tx EXCEPT ![w] = [Idle EXCEPT !.do = "claim", !.at = now,
                                          !.scan = {o \in Ops : Qualifies(o, now)}]]
  /\ UNCHANGED <<now, table, held, lock>>

Full(w) == tx[w].scan = {} \/ Cardinality(tx[w].got) = ClaimBatch

(* Mutant: SELECT without FOR UPDATE, so that the row is taken as the scan  *)
(* saw it.                                                                  *)
Take_Blind(w, o) ==
  IF lock[o] = Nobody
    THEN /\ lock' = [lock EXCEPT ![o] = w]
         /\ tx' = [tx EXCEPT ![w].scan = @ \ {o}, ![w].got = @ \cup {o}]
    ELSE /\ tx' = [tx EXCEPT ![w].scan = @ \ {o}]
         /\ UNCHANGED lock

(* A locked row is skipped; one that changed since the scan is looked at again. *)
Take(w, o) ==
  IF lock[o] = Nobody /\ Qualifies(o, tx[w].at)
    THEN /\ lock' = [lock EXCEPT ![o] = w]
         /\ tx' = [tx EXCEPT ![w].scan = @ \ {o}, ![w].got = @ \cup {o}]
    ELSE /\ tx' = [tx EXCEPT ![w].scan = @ \ {o}]
         /\ UNCHANGED lock

(* The next row of the scan, ORDER BY created_at. *)
ScanNext(w) ==
  /\ tx[w].do = "claim" /\ ~Full(w)
  /\ \E o \in tx[w].scan :
       /\ \A p \in tx[w].scan : CreatedAt[o] <= CreatedAt[p]
       /\ Take(w, o)
  /\ UNCHANGED <<now, table, held>>

CommitClaim(w) ==
  /\ tx[w].do = "claim" /\ Full(w)
  /\ table' = [o \in Ops |->
                 IF o \in tx[w].got
                   THEN [table[o] EXCEPT !.token = @ + 1, !.lease = tx[w].at + Lease]
                   ELSE table[o]]
  /\ held' = [held EXCEPT ![w] =
                [o \in Ops |-> IF o \in tx[w].got THEN Copy(table'[o]) ELSE NoCopy]]
  /\ End(w)
  /\ UNCHANGED now

-----------------------------------------------------------------------------
(* cas and release: one UPDATE by primary key. *)

(* crumb is the cas that worker.py makes after an exception: from a state   *)
(* into the same state, without renewing the lease. The state is the one    *)
(* the step began in; if the step has written another since, that one       *)
(* matches no row any more and the crumb does nothing, so only the case in  *)
(* which it is still the state of the copy is a step here.                  *)
Writes == {"cas", "crumb", "release"}

(* The WHERE clause. release compares the token alone. *)
Matches(w, o, do) ==
  /\ table[o].token = held[w][o].token
  /\ do # "release" => table[o].state = held[w][o].state
  /\ table[o].state \notin TERMINAL

(* No row matched: the worker gives up, or goes on to release. *)
Miss(w, o, do) ==
  held' = IF do = "crumb" THEN held ELSE [held EXCEPT ![w][o] = NoCopy]

Begin(w, o, do, to) ==
  /\ tx[w].do = "none" /\ o \in Holding(w)
  /\ IF Matches(w, o, do)
       THEN /\ tx' = [tx EXCEPT ![w] = [Idle EXCEPT !.do = do, !.at = now, !.o = o, !.to = to]]
            /\ UNCHANGED held
       ELSE Miss(w, o, do) /\ UNCHANGED tx
  /\ UNCHANGED <<now, table, lock>>

(* A write into a terminal state does not get this far (OpStore!CasRaises). *)
BeginCas(w, o) ==
  /\ o \in Holding(w)
  /\ \E to \in Targets : can_transition(held[w][o].state, to) /\ Begin(w, o, "cas", to)

BeginCrumb(w, o) == o \in Holding(w) /\ Begin(w, o, "crumb", held[w][o].state)

BeginRelease(w, o) == Begin(w, o, "release", "absent")

(* Mutants: token and state are compared in a query of their own and the    *)
(* UPDATE has the primary key alone; cas returns None from a transaction    *)
(* that it leaves open.                                                     *)
LockRow_Blind(w) ==
  /\ tx[w].do \in Writes /\ lock[tx[w].o] = Nobody
  /\ lock' = [lock EXCEPT ![tx[w].o] = w]
  /\ UNCHANGED <<now, table, held, tx>>

LockRow_Leak(w) ==
  /\ tx[w].do \in Writes /\ lock[tx[w].o] = Nobody
  /\ lock' = [lock EXCEPT ![tx[w].o] = w]
  /\ IF Matches(w, tx[w].o, tx[w].do)
       THEN UNCHANGED <<held, tx>>
       ELSE Miss(w, tx[w].o, tx[w].do) /\ tx' = [tx EXCEPT ![w] = Idle]
  /\ UNCHANGED <<now, table>>

(* UPDATE waits for whoever has locked the row, and looks again. *)
LockRow(w) ==
  /\ tx[w].do \in Writes /\ lock[tx[w].o] = Nobody
  /\ IF Matches(w, tx[w].o, tx[w].do)
       THEN /\ lock' = [lock EXCEPT ![tx[w].o] = w]
            /\ UNCHANGED <<held, tx>>
       ELSE Miss(w, tx[w].o, tx[w].do) /\ End(w)
  /\ UNCHANGED <<now, table>>

(* The row, its event and the lease are published. The connection may fail *)
(* before the worker hears of it; then it keeps the copy it had.           *)
CommitCas(w) ==
  /\ tx[w].do \in {"cas", "crumb"} /\ lock[tx[w].o] = w
  /\ table' = [table EXCEPT ![tx[w].o].state = tx[w].to,
                            ![tx[w].o].lease = IF tx[w].do = "cas" THEN tx[w].at + Lease ELSE @]
  /\ held' = [held EXCEPT ![w][tx[w].o].state = tx[w].to] \/ UNCHANGED held
  /\ End(w)
  /\ UNCHANGED now

CommitRelease(w) ==
  /\ tx[w].do = "release" /\ lock[tx[w].o] = w
  /\ table' = [table EXCEPT ![tx[w].o].lease = NoLease]
  /\ held' = [held EXCEPT ![w][tx[w].o] = NoCopy]
  /\ End(w)
  /\ UNCHANGED now

-----------------------------------------------------------------------------
(* The process dies or loses its connection: the transaction is rolled back. *)
Crash(w) ==
  /\ tx[w] # Idle \/ Holding(w) # {}
  /\ held' = [held EXCEPT ![w] = [o \in Ops |-> NoCopy]]
  /\ End(w)
  /\ UNCHANGED <<now, table>>

Tick == now < MaxTime /\ now' = now + 1 /\ UNCHANGED <<table, held, lock, tx>>

(* What an open transaction does next. *)
Proceed(w) == ScanNext(w) \/ CommitClaim(w) \/ LockRow(w) \/ CommitCas(w) \/ CommitRelease(w)

Call(w, o) == BeginCas(w, o) \/ BeginCrumb(w, o) \/ BeginRelease(w, o)

PgNext ==
  \/ \E w \in Workers : BeginClaim(w) \/ Proceed(w) \/ Crash(w)
  \/ \E w \in Workers, o \in Ops : Call(w, o)
  \/ Tick

(* The database runs what it was asked to run, and its lock queue is fair. *)
PgSpec ==
  /\ PgInit /\ [][PgNext]_pgVars
  /\ \A w \in Workers : WF_pgVars(Proceed(w)) /\ SF_pgVars(LockRow(w))

-----------------------------------------------------------------------------
Contract == INSTANCE StoreContract

(* The three statements do in effect at one instant each what the contract  *)
(* of store/__init__.py says: "the race between two workers dies inside one *)
(* statement", and a zombie "dies on the WHERE". The instant is the commit. *)
ImplementsContract == Contract!ContractSpec

(* No call of the store hangs on a row: claim waits for no lock, and what a *)
(* write by primary key waits for is a transaction that itself waits for no *)
(* row (cas, release and claim each lock what they change and nothing more).*)
CallsReturn == \A w \in Workers : []<>(tx[w] = Idle)
=============================================================================
