------------------------------- MODULE Intake -------------------------------
(***************************************************************************)
(* The intake: the two endpoints of sluice/api.py, submit_withdrawal       *)
(* (sluice/service.py) and insert_new and get of the database store.       *)
(* Requests are handled concurrently, by threads and by processes; a       *)
(* client whose request failed sends it again. (The memory store inserts   *)
(* in one step under its lock: OpStore.)                                   *)
(***************************************************************************)
EXTENDS Money, Address, OpStates

CONSTANTS
  Requests,
  Ids,
  Request,     \* Request[r]: [id, body]
  NotUuid,     \* an id that is not a UUID
  GET, NotJson,  \* bodies: of a status query, and one that is not JSON
  Asset, NoAsset, Decimals, MinUnits, MaxUnits,
  NoRow, NoReply, Nobody,
  MaxFaults

ASSUME IntakeAssumption ==
  /\ NotUuid \notin Ids /\ GET # NotJson /\ Nobody \notin Requests
  /\ \A r \in Requests : Request[r].id \in Ids \cup {NotUuid}
  /\ MaxFaults \in Nat

VARIABLES
  rows,
  events,     \* events[i]: the intake events in the log of i
  inserting,  \* inserting[i]: the transaction that has inserted i and is open
  pc,
  result,     \* the answer, once the request is decided
  faults

tableVars  == <<rows, events, inserting>>
intakeVars == <<tableVars, pc, result, faults>>

id(r) == Request[r].id
body(r) == Request[r].body

IntakeInit ==
  /\ rows = [i \in Ids |-> NoRow]
  /\ events = [i \in Ids |-> 0]
  /\ inserting = [i \in Ids |-> Nobody]
  /\ pc = [r \in Requests |-> "start"]
  /\ result = [r \in Requests |-> NoReply]
  /\ faults = 0

-----------------------------------------------------------------------------
(*                          What a request means                           *)

asset(p) == IF p.asset = NoAsset THEN Asset ELSE p.asset

(* submit_withdrawal's checks, in front of the store. *)
Addressed(p) == is_valid(p.to) /\ asset(p) = Asset

Accepted(p) ==
  /\ Addressed(p)
  /\ Parses(p.amount, Decimals)
  /\ to_units(p.amount, Decimals) \in MinUnits..MaxUnits

(* to_units raises something that submit_withdrawal does not catch. *)
Uncaught(p) ==
  Addressed(p) /\ ~Refused(p.amount, Decimals) /\ TooLong(p.amount, Decimals)

(* SHA-256 is taken to be injective. *)
request_hash(p) == <<p.to, to_units(p.amount, Decimals), asset(p)>>

IsGet(r)  == id(r) # NotUuid /\ body(r) = GET
IsForm(r) == id(r) # NotUuid /\ body(r) \notin {GET, NotJson}
IsPost(r) == IsForm(r) /\ Accepted(body(r))

Gets  == {r \in Requests : IsGet(r)}
Posts == {r \in Requests : IsPost(r)}

(* Requests that end in an exception nobody catches. *)
Raising == {r \in Requests : IsForm(r) /\ Uncaught(body(r))}

Hash(r) == request_hash(body(r))

(* NoRow is no row and NoReply no answer. *)
ASSUME NullAssumption ==
  /\ \A r \in Posts, s \in OpState : NoRow # [meaning |-> Hash(r), state |-> s]
  /\ \A code \in {200, 201, 400, 404, 409, 422, 500}, s \in OpState \cup {"absent"} :
       NoReply # <<code, s>>

-----------------------------------------------------------------------------
(*                              The handlers                               *)

Goto(r, label) == pc' = [pc EXCEPT ![r] = label]

Answer(r, code, state) ==
  /\ result' = [result EXCEPT ![r] = <<code, state>>]
  /\ Goto(r, "reply")

Turn(r) ==
  /\ pc[r] = "start" /\ r \notin Posts \cup Gets
  /\ Answer(r, IF body(r) = NotJson THEN 400
               ELSE IF r \in Raising THEN 500 ELSE 422, "absent")
  /\ UNCHANGED <<tableVars, faults>>

Status(r) ==
  /\ pc[r] = "start" /\ r \in Gets
  /\ IF rows[id(r)] = NoRow THEN Answer(r, 404, "absent")
                            ELSE Answer(r, 200, rows[id(r)].state)
  /\ UNCHANGED <<tableVars, faults>>

Submit(r) ==
  /\ pc[r] = "start" /\ r \in Posts
  /\ Goto(r, "insert")
  /\ UNCHANGED <<tableVars, result, faults>>

(* Mutant: a known id is a replay. *)
Found_NoCompare(r) == Answer(r, 200, rows[id(r)].state)

(* The row that is found decides between a replay and PayloadMismatch. *)
Found(r) ==
  IF rows[id(r)].meaning = Hash(r)
    THEN Answer(r, 200, rows[id(r)].state)
    ELSE Answer(r, 409, "absent")

Insert(r) ==
  /\ rows' = [rows EXCEPT ![id(r)] = [meaning |-> Hash(r), state |-> "requested"]]
  /\ events' = [events EXCEPT ![id(r)] = @ + 1]

(* Mutant: an insertion that is still open is overlooked. *)
InsertOnConflict_NoWait(r) ==
  /\ pc[r] = "insert"
  /\ IF rows[id(r)] = NoRow
       THEN /\ inserting' = [inserting EXCEPT ![id(r)] = r]
            /\ Goto(r, "event")
       ELSE Goto(r, "select") /\ UNCHANGED inserting
  /\ UNCHANGED <<rows, events, result, faults>>

(* INSERT ... ON CONFLICT DO NOTHING waits for an open insertion of the key. *)
InsertOnConflict(r) ==
  /\ pc[r] = "insert"
  /\ inserting[id(r)] = Nobody
  /\ IF rows[id(r)] = NoRow
       THEN /\ inserting' = [inserting EXCEPT ![id(r)] = r]
            /\ Goto(r, "event")
       ELSE Goto(r, "select") /\ UNCHANGED inserting
  /\ UNCHANGED <<rows, events, result, faults>>

InsertEvent(r) ==
  /\ pc[r] = "event"
  /\ Goto(r, "commit")
  /\ UNCHANGED <<tableVars, result, faults>>

Committed(r) ==
  /\ pc[r] = "commit"
  /\ Insert(r)
  /\ inserting' = [inserting EXCEPT ![id(r)] = Nobody]

Commit(r) == Committed(r) /\ Answer(r, 201, "requested") /\ UNCHANGED faults

(* "read whoever won", in a transaction of its own. *)
SelectExisting(r) ==
  /\ pc[r] = "select"
  /\ Found(r)
  /\ UNCHANGED <<tableVars, faults>>

Deliver(r) ==
  /\ pc[r] = "reply"
  /\ Goto(r, "done")
  /\ UNCHANGED <<tableVars, result, faults>>

-----------------------------------------------------------------------------
(*                          Failures and workers                           *)

(* Mutant: the transaction is left open. *)
Fail_NoRollback(r) ==
  /\ pc[r] \notin {"failed", "done"}
  /\ result' = [result EXCEPT ![r] = NoReply]
  /\ Goto(r, "failed")
  /\ UNCHANGED tableVars

(* The connection or the process fails: an open transaction is rolled back, *)
(* and a client that waited for an answer does not get it.                  *)
Fail(r) ==
  /\ pc[r] \notin {"failed", "done"}
  /\ inserting' = [i \in Ids |-> IF inserting[i] = r THEN Nobody ELSE inserting[i]]
  /\ result' = [result EXCEPT ![r] = NoReply]
  /\ Goto(r, "failed")
  /\ UNCHANGED <<rows, events>>

(* The commit took effect and its confirmation was lost. *)
CommitUnheard(r) ==
  /\ Committed(r)
  /\ Goto(r, "failed")
  /\ UNCHANGED result

Fault(r) ==
  /\ faults < MaxFaults /\ faults' = faults + 1
  /\ Fail(r) \/ CommitUnheard(r)

(* The client sends the same request again. *)
Retry(r) ==
  /\ pc[r] = "failed"
  /\ Goto(r, "start")
  /\ UNCHANGED <<tableVars, result, faults>>

(* The workers drive a committed row (Sluice). *)
Drive(i) ==
  /\ rows[i] # NoRow
  /\ \E s \in OpState :
       /\ can_transition(rows[i].state, s)
       /\ rows' = [rows EXCEPT ![i].state = s]
  /\ UNCHANGED <<events, inserting, pc, result, faults>>

Serve(r) ==
  \/ Turn(r) \/ Status(r) \/ Submit(r) \/ InsertOnConflict(r) \/ InsertEvent(r)
  \/ Commit(r) \/ SelectExisting(r) \/ Deliver(r)

IntakeNext ==
  \/ \E r \in Requests : Serve(r) \/ Fault(r) \/ Retry(r)
  \/ \E i \in Ids : Drive(i)

(* Threads are scheduled, transactions end, and clients retry. *)
IntakeSpec ==
  /\ IntakeInit /\ [][IntakeNext]_intakeVars
  /\ \A r \in Requests : WF_intakeVars(Serve(r) \/ Retry(r))

-----------------------------------------------------------------------------
(* Two open insertions of one id, a reader of an uncommitted row or a row   *)
(* without its event would each break the promise below; this is what the   *)
(* transaction of insert_new maintains.                                     *)
OneIntake ==
  \A i \in Ids :
    /\ events[i] = IF rows[i] = NoRow THEN 0 ELSE 1
    /\ inserting[i] # Nobody => rows[i] = NoRow
    /\ \A r \in Requests :
         id(r) = i => /\ pc[r] \in {"event", "commit"} <=> inserting[i] = r
                      /\ pc[r] = "select" => rows[i] # NoRow

Promised == INSTANCE Register WITH
  IdOf     <- id,
  Meaning  <- Hash,
  register <- rows,
  reply    <- result,
  heard    <- [r \in Requests |-> pc[r] = "done"]

(* Racing, failing and repeated POSTs implement the register: one of them   *)
(* creates the row, an equal one is told how the row stands at that moment, *)
(* a different one is refused and the row is untouched (service.py, "the    *)
(* store guarantees exactly one wins and both callers see the same row").   *)
ImplementsRegister == Promised!RegisterSpec

(* A client that goes on retrying is answered, whoever fails in between: no *)
(* request waits for ever on another one's open insertion. (The answer to   *)
(* an amount that is too long for int() is 500, every time.)                *)
EveryRequestAnswered == <>(\A r \in Requests : pc[r] = "done")
=============================================================================
