------------------------------- MODULE PgAudit ------------------------------
(***************************************************************************)
(* The event log of the database store (operation_events). cas inserts its *)
(* event in the transaction of its write; event_id is drawn from a         *)
(* sequence when the row is inserted, not when it is published, and an id  *)
(* drawn by a transaction that is rolled back is lost.                     *)
(***************************************************************************)
EXTENDS PgStore

CONSTANT MaxEvents   \* a bound

ASSUME AuditAssumption == MaxEvents \in Nat

VARIABLES
  log,    \* log[o]: the committed events
  seq,    \* the next event_id
  drawn   \* drawn[w]: the id of the event in w's open transaction, or 0

auditVars == <<pgVars, log, seq, drawn>>

Event(id, from, to, token) == [id |-> id, from |-> from, to |-> to, token |-> token]

(* insert_new has left its own event. *)
AuditInit ==
  /\ PgInit
  /\ log = [o \in Ops |-> {Event(0, "absent", "requested", 0)}]
  /\ seq = 1
  /\ drawn = [w \in Workers |-> 0]

EventOf(w, id) ==
  Event(id, held[w][tx[w].o].state, tx[w].to, held[w][tx[w].o].token)

InTransaction(w) == tx[w].do \in {"cas", "crumb"} /\ lock[tx[w].o] = w

(* Mutant: the event is published at once. *)
InsertEvent_Autocommit(w) ==
  /\ InTransaction(w) /\ drawn[w] = 0
  /\ drawn' = [drawn EXCEPT ![w] = seq]
  /\ seq' = seq + 1
  /\ log' = [log EXCEPT ![tx[w].o] = @ \cup {EventOf(w, seq)}]
  /\ UNCHANGED pgVars

InsertEvent(w) ==
  /\ InTransaction(w) /\ drawn[w] = 0
  /\ drawn' = [drawn EXCEPT ![w] = seq]
  /\ seq' = seq + 1
  /\ UNCHANGED <<pgVars, log>>

CommitBoth(w) ==
  /\ drawn[w] # 0 /\ CommitCas(w)
  /\ log' = [log EXCEPT ![tx[w].o] = @ \cup {EventOf(w, drawn[w])}]
  /\ drawn' = [drawn EXCEPT ![w] = 0]
  /\ UNCHANGED seq

(* claim, release and the beginning of a call leave no event. *)
NoEvent(w) ==
  /\ \/ BeginClaim(w) \/ ScanNext(w) \/ CommitClaim(w) \/ LockRow(w) \/ CommitRelease(w)
     \/ seq <= MaxEvents /\ \E o \in Ops : Call(w, o)
  /\ UNCHANGED <<log, seq, drawn>>

RollBack(w) ==
  /\ Crash(w)
  /\ drawn' = [drawn EXCEPT ![w] = 0]
  /\ UNCHANGED <<log, seq>>

AuditNext ==
  \/ \E w \in Workers : InsertEvent(w) \/ CommitBoth(w) \/ NoEvent(w) \/ RollBack(w)
  \/ Tick /\ UNCHANGED <<log, seq, drawn>>

(* The fairness of PgSpec, for transactions that hold an event. *)
Locks(w) == LockRow(w) /\ UNCHANGED <<log, seq, drawn>>

AuditProceed(w) ==
  \/ InsertEvent(w) \/ CommitBoth(w) \/ Locks(w)
  \/ (ScanNext(w) \/ CommitClaim(w) \/ CommitRelease(w)) /\ UNCHANGED <<log, seq, drawn>>

AuditSpec ==
  /\ AuditInit /\ [][AuditNext]_auditVars
  /\ \A w \in Workers : WF_auditVars(AuditProceed(w)) /\ SF_auditVars(Locks(w))

-----------------------------------------------------------------------------
(* f comes next after e when the events of o are read ORDER BY event_id. *)
Follows(o, e, f) ==
  /\ e \in log[o] /\ f \in log[o] /\ e.id < f.id
  /\ \A g \in log[o] : g.id <= e.id \/ f.id <= g.id

Last(o, e) == e \in log[o] /\ \A g \in log[o] : g.id <= e.id

(* The events of an operation, in the order of their ids, are one unbroken  *)
(* history, though ids are drawn before anything is published: each begins  *)
(* where the one before ended, under a token that is not older (cas writes  *)
(* the event of a write it has locked the row for).                         *)
AuditTrail ==
  \A o \in Ops : \A e, f \in log[o] : Follows(o, e, f) => f.from = e.to /\ e.token <= f.token

(* "the audit log can't drift from reality even under a crash": the last    *)
(* event of an operation ends where its row is (the event and the row of a  *)
(* cas are published by one commit or by none).                             *)
NoDrift ==
  \A o \in Ops : \A e \in log[o] :
    Last(o, e) => e.to = table[o].state /\ e.token <= table[o].token
=============================================================================
