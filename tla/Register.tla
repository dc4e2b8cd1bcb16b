------------------------------ MODULE Register ------------------------------
(***************************************************************************)
(* What the intake promises: a register of withdrawals that is written     *)
(* once per id. Each request is answered as if it had been served at one   *)
(* instant between its arrival and its answer, and a request that is sent  *)
(* again because its answer was lost does no harm.                         *)
(***************************************************************************)
EXTENDS OpStates, Naturals

CONSTANTS Requests, Ids, Posts, Gets, IdOf(_), Meaning(_), NoRow, NoReply

VARIABLES
  register,
  reply,    \* the answer that is on its way to the client
  heard     \* the client has it

registerVars == <<register, reply, heard>>

RegisterInit ==
  /\ register = [i \in Ids |-> NoRow]
  /\ reply = [r \in Requests |-> NoReply]
  /\ heard = [r \in Requests |-> FALSE]

Unserved(r) == reply[r] = NoReply /\ ~heard[r]

Tell(r, code, state) ==
  /\ reply' = [reply EXCEPT ![r] = <<code, state>>]
  /\ UNCHANGED heard

(* The first request for an id creates it. The client may never be told. *)
Create(r) ==
  /\ r \in Posts /\ Unserved(r) /\ register[IdOf(r)] = NoRow
  /\ register' = [register EXCEPT ![IdOf(r)] = [meaning |-> Meaning(r), state |-> "requested"]]
  /\ Tell(r, 201, "requested") \/ UNCHANGED <<reply, heard>>

(* The same request again is told how the withdrawal stands, a different    *)
(* one under its id is refused; neither touches it.                         *)
Replay(r) ==
  /\ r \in Posts /\ Unserved(r) /\ register[IdOf(r)] # NoRow
  /\ IF register[IdOf(r)].meaning = Meaning(r)
       THEN Tell(r, 200, register[IdOf(r)].state)
       ELSE Tell(r, 409, "absent")
  /\ UNCHANGED register

Query(r) ==
  /\ r \in Gets /\ Unserved(r)
  /\ IF register[IdOf(r)] = NoRow
       THEN Tell(r, 404, "absent")
       ELSE Tell(r, 200, register[IdOf(r)].state)
  /\ UNCHANGED register

Refuse(r) ==
  /\ r \notin Posts \cup Gets /\ Unserved(r)
  /\ \E code \in {400, 422, 500} : Tell(r, code, "absent")
  /\ UNCHANGED register

Hear(r) ==
  /\ reply[r] # NoReply
  /\ heard' = [heard EXCEPT ![r] = TRUE]
  /\ UNCHANGED <<register, reply>>

Lose(r) ==
  /\ ~heard[r]
  /\ reply' = [reply EXCEPT ![r] = NoReply]
  /\ UNCHANGED <<register, heard>>

(* The workers drive the withdrawal. *)
Advance(i) ==
  /\ register[i] # NoRow
  /\ \E s \in OpState :
       /\ can_transition(register[i].state, s)
       /\ register' = [register EXCEPT ![i].state = s]
  /\ UNCHANGED <<reply, heard>>

RegisterNext ==
  \/ \E r \in Requests : Create(r) \/ Replay(r) \/ Query(r) \/ Refuse(r) \/ Hear(r) \/ Lose(r)
  \/ \E i \in Ids : Advance(i)

RegisterSpec == RegisterInit /\ [][RegisterNext]_registerVars
=============================================================================
