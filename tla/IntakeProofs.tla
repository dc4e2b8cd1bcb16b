---------------------------- MODULE IntakeProofs ----------------------------
(***************************************************************************)
(* For any number of requests and ids, and any failures: the intake keeps  *)
(* OneIntake and implements the register. For amounts and addresses of any *)
(* length: to_units, to_human, is_valid and from_payload keep what         *)
(* Conversions promises, by induction on the digits.                       *)
(***************************************************************************)
EXTENDS Intake, Conversions, TLAPS, WellFoundedInduction, SequenceTheorems

Row == [meaning : {Hash(r) : r \in Posts}, state : OpState]

PCs == {"start", "insert", "event", "commit", "select", "reply", "done", "failed"}

IntakeTypeOK ==
  /\ rows \in [Ids -> Row \cup {NoRow}]
  /\ events \in [Ids -> Nat]
  /\ inserting \in [Ids -> Requests \cup {Nobody}]
  /\ pc \in [Requests -> PCs]
  /\ DOMAIN result = Requests

(* A request is past the door only if it is a POST, and it has an answer   *)
(* only between the decision and the client.                               *)
Decided ==
  /\ \A r \in Requests :
       /\ result[r] # NoReply <=> pc[r] \in {"reply", "done"}
       /\ pc[r] \in {"insert", "event", "commit", "select"} => r \in Posts
  /\ \A i \in Ids : inserting[i] # Nobody => id(inserting[i]) = i

IntakeInv == IntakeTypeOK /\ OneIntake /\ Decided

-----------------------------------------------------------------------------
LEMMA PostFacts ==
  ASSUME NEW r \in Posts
  PROVE  /\ r \in Requests /\ id(r) \in Ids
         /\ [meaning |-> Hash(r), state |-> "requested"] \in Row
         /\ [meaning |-> Hash(r), state |-> "requested"] # NoRow
  BY IntakeAssumption, NullAssumption DEF Posts, IsPost, IsForm, id, Row, OpState

LEMMA GetFacts == ASSUME NEW r \in Gets PROVE r \in Requests /\ id(r) \in Ids
  BY IntakeAssumption, Zenon DEF Gets, IsGet, id

LEMMA RowsAreRows ==
  ASSUME NEW row \in Row
  PROVE  row # NoRow /\ row.state \in OpState
  BY NullAssumption, ZenonT(30) DEF Row

LEMMA InitIntake == IntakeInit => IntakeInv
  BY IntakeAssumption DEF IntakeInit, IntakeInv, IntakeTypeOK, OneIntake, Decided, PCs
(* What an answered request, a served row and an open insertion tell of     *)
(* the requests that are not concerned.                                     *)
LEMMA Answers ==
  ASSUME IntakeInv, NEW r \in Requests, NEW code \in {200, 201, 400, 404, 409, 422, 500},
         NEW s \in OpState \cup {"absent"}, Answer(r, code, s),
         pc[r] \notin {"event", "commit"}, UNCHANGED tableVars
  PROVE  IntakeInv'
  <1>1. IntakeTypeOK' BY ZenonT(30) DEF IntakeInv, IntakeTypeOK, Answer, Goto, PCs, tableVars
  <1>2. OneIntake' BY DEF IntakeInv, IntakeTypeOK, OneIntake, Answer, Goto, tableVars
  <1>3. Decided' BY NullAssumption DEF IntakeInv, IntakeTypeOK, Decided, Answer, Goto, tableVars
  <1>4. QED BY <1>1, <1>2, <1>3, ZenonT(30) DEF IntakeInv

(* The transaction of insert_new ends with the row and its event, whatever  *)
(* the request is told.                                                     *)
LEMMA Insertion ==
  ASSUME IntakeInv, NEW r \in Posts, Insert(r), rows[id(r)] = NoRow,
         inserting' = [inserting EXCEPT ![id(r)] = Nobody],
         inserting[id(r)] \in {r, Nobody},
         \/ Answer(r, 201, "requested")
         \/ Goto(r, "failed") /\ UNCHANGED result /\ result[r] = NoReply
  PROVE  IntakeInv'
  <1>1. IntakeTypeOK'
    BY PostFacts DEF IntakeInv, IntakeTypeOK, Insert, Answer, Goto, PCs
  <1>2. OneIntake'
    BY PostFacts, IntakeAssumption
    DEF IntakeInv, IntakeTypeOK, OneIntake, Insert, Answer, Goto
  <1>3. Decided'
    BY PostFacts, NullAssumption DEF IntakeInv, IntakeTypeOK, Decided, Answer, Goto, OpState
  <1>4. QED BY <1>1, <1>2, <1>3, Zenon DEF IntakeInv

LEMMA FoundAnswers ==
  ASSUME IntakeInv, NEW r \in Posts, rows[id(r)] # NoRow, Found(r)
  PROVE  \E code \in {200, 201, 400, 404, 409, 422, 500}, s \in OpState \cup {"absent"} :
           Answer(r, code, s)
  <1>1. rows[id(r)].state \in OpState
    BY PostFacts, RowsAreRows, ZenonT(30) DEF IntakeInv, IntakeTypeOK
  <1>2. QED BY <1>1 DEF Found

LEMMA NextIntake == IntakeInv /\ [IntakeNext]_intakeVars => IntakeInv'
  <1> SUFFICES ASSUME IntakeInv, [IntakeNext]_intakeVars PROVE IntakeInv' BY Zenon
  <1> DEFINE Codes == {200, 201, 400, 404, 409, 422, 500}
             States == OpState \cup {"absent"}
  <1>1. ASSUME NEW r \in Requests, Turn(r) PROVE IntakeInv'
    <2>1. \E code \in Codes, s \in States : Answer(r, code, s) BY <1>1 DEF Turn
    <2>2. UNCHANGED tableVars /\ pc[r] \notin {"event", "commit"} BY <1>1, ZenonT(30) DEF Turn
    <2>3. QED BY <2>1, <2>2, Answers
  <1>2. ASSUME NEW r \in Requests, Status(r) PROVE IntakeInv'
    <2>1. rows[id(r)] # NoRow => rows[id(r)].state \in OpState
      BY <1>2, GetFacts, RowsAreRows, ZenonT(30) DEF Status, IntakeInv, IntakeTypeOK
    <2>2. \E code \in Codes, s \in States : Answer(r, code, s)
      BY <1>2, <2>1 DEF Status
    <2>3. UNCHANGED tableVars /\ pc[r] \notin {"event", "commit"} BY <1>2, Zenon DEF Status
    <2>4. QED BY <2>2, <2>3, Answers
  <1>3. ASSUME NEW r \in Requests, Submit(r) PROVE IntakeInv'
    BY <1>3 DEF Submit, Goto, tableVars, IntakeInv, IntakeTypeOK, OneIntake, Decided, PCs
  <1>5. ASSUME NEW r \in Requests, InsertOnConflict(r) PROVE IntakeInv'
    BY <1>5, PostFacts, IntakeAssumption
    DEF InsertOnConflict, Goto, IntakeInv, IntakeTypeOK, OneIntake, Decided, PCs
  <1>6. ASSUME NEW r \in Requests, InsertEvent(r) PROVE IntakeInv'
    BY <1>6 DEF InsertEvent, Goto, tableVars, IntakeInv, IntakeTypeOK, OneIntake, Decided, PCs
  <1>7. ASSUME NEW r \in Requests, Committed(r),
               Answer(r, 201, "requested") \/ (Goto(r, "failed") /\ UNCHANGED result)
        PROVE  IntakeInv'
    <2>1. r \in Posts /\ id(r) \in Ids /\ inserting[id(r)] = r /\ result[r] = NoReply
      BY <1>7, PostFacts, Zenon DEF Committed, IntakeInv, Decided, OneIntake
    <2>2. rows[id(r)] = NoRow
      BY <2>1, IntakeAssumption DEF IntakeInv, OneIntake
    <2>3. QED BY <1>7, <2>1, <2>2, Insertion, ZenonT(30) DEF Committed
  <1>8. ASSUME NEW r \in Requests, SelectExisting(r) PROVE IntakeInv'
    <2>1. r \in Posts /\ rows[id(r)] # NoRow
      BY <1>8, PostFacts, ZenonT(30) DEF SelectExisting, IntakeInv, Decided, OneIntake
    <2>2. QED BY <1>8, <2>1, FoundAnswers, Answers DEF SelectExisting
  <1>9. ASSUME NEW r \in Requests, Deliver(r) PROVE IntakeInv'
    BY <1>9 DEF Deliver, Goto, tableVars, IntakeInv, IntakeTypeOK, OneIntake, Decided, PCs
  <1>10. ASSUME NEW r \in Requests, Fail(r) PROVE IntakeInv'
    BY <1>10, IntakeAssumption
    DEF Fail, Goto, IntakeInv, IntakeTypeOK, OneIntake, Decided, PCs
  <1>11. ASSUME NEW r \in Requests, Retry(r) PROVE IntakeInv'
    BY <1>11 DEF Retry, Goto, tableVars, IntakeInv, IntakeTypeOK, OneIntake, Decided, PCs
  <1>12. ASSUME NEW i \in Ids, Drive(i) PROVE IntakeInv'
    <2>1. PICK s \in OpState : rows' = [rows EXCEPT ![i].state = s] BY <1>12, Zenon DEF Drive
    <2>2. rows[i] \in Row BY <1>12, Zenon DEF Drive, IntakeInv, IntakeTypeOK
    <2>3. [rows[i] EXCEPT !.state = s] \in Row BY <2>2, Zenon DEF Row
    <2>4. rows'[i] \in Row /\ rows'[i] # NoRow
      BY <2>1, <2>3, RowsAreRows, ZenonT(30) DEF IntakeInv, IntakeTypeOK
    <2>5. \A j \in Ids : j # i => rows'[j] = rows[j]
      BY <2>1, Zenon DEF IntakeInv, IntakeTypeOK
    <2>6. rows' \in [Ids -> Row \cup {NoRow}]
      BY <2>1, <2>4, <2>5, ZenonT(30) DEF IntakeInv, IntakeTypeOK
    <2>7. \A j \in Ids : rows'[j] = NoRow <=> rows[j] = NoRow BY <1>12, <2>4, <2>5, ZenonT(30) DEF Drive
    <2>8. QED
      BY <1>12, <2>6, <2>7 DEF Drive, IntakeInv, IntakeTypeOK, OneIntake, Decided
  <1>13. CASE UNCHANGED intakeVars
    BY <1>13 DEF intakeVars, tableVars, IntakeInv, IntakeTypeOK, OneIntake, Decided
  <1>14. QED
    BY <1>1, <1>2, <1>3, <1>5, <1>6, <1>7, <1>8, <1>9, <1>10, <1>11, <1>12, <1>13, SMTT(30)
    DEF IntakeNext, Serve, Fault, Commit, CommitUnheard

(* insert_new commits a row and its event together and once, and no two     *)
(* transactions hold one id, for any number of requests and failures.       *)
THEOREM SpecOneIntake == IntakeSpec => []OneIntake
  <1>1. IntakeInv => OneIntake BY Zenon DEF IntakeInv
  <1>2. QED BY <1>1, InitIntake, NextIntake, PTL DEF IntakeSpec

-----------------------------------------------------------------------------
(*                       The intake is the register                        *)

LEMMA SameStates ==
  /\ Promised!OpState = OpState
  /\ \A s, t : Promised!can_transition(s, t) <=> can_transition(s, t)
  BY Zenon DEF Promised!OpState, OpState, Promised!can_transition, can_transition,
         Promised!TRANSITIONS, TRANSITIONS

(* An action that answers a request without moving a row. *)
LEMMA AnswerTells ==
  ASSUME NEW r \in Requests, NEW code, NEW s, IntakeInv, Answer(r, code, s),
         pc[r] \notin {"reply", "done"}
  PROVE  Promised!Tell(r, code, s) /\ Promised!Unserved(r)
  BY Zenon DEF Promised!Tell, Promised!Unserved, Answer, Goto, IntakeInv, IntakeTypeOK, Decided

LEMMA FoundReplays ==
  ASSUME IntakeInv, NEW r \in Posts, pc[r] \notin {"reply", "done"},
         rows[id(r)] # NoRow, Found(r), UNCHANGED rows
  PROVE  Promised!Replay(r)
  <1>1. r \in Requests BY PostFacts, Zenon
  <1>2. QED BY <1>1, AnswerTells DEF Found, Promised!Replay

(* A step that neither moves a row nor decides or delivers an answer. *)
LEMMA Unseen ==
  ASSUME IntakeInv, UNCHANGED rows, NEW r \in Requests, NEW label \in PCs \ {"done"},
         Goto(r, label), pc[r] # "done",
         result' = result
  PROVE  UNCHANGED Promised!registerVars
  BY Zenon DEF Promised!registerVars, Goto, IntakeInv, IntakeTypeOK

LEMMA StepImplements ==
  IntakeInv /\ [IntakeNext]_intakeVars => [Promised!RegisterNext]_(Promised!registerVars)
  <1> SUFFICES ASSUME IntakeInv, [IntakeNext]_intakeVars
               PROVE  Promised!RegisterNext \/ UNCHANGED Promised!registerVars
    BY Zenon
  <1> DEFINE Goal == Promised!RegisterNext \/ UNCHANGED Promised!registerVars
  <1>1. ASSUME NEW r \in Requests, Turn(r) PROVE Goal
    <2>1. \E code \in {400, 422, 500} : Answer(r, code, "absent") BY <1>1 DEF Turn
    <2>2. Promised!Refuse(r)
      BY <1>1, <2>1, AnswerTells DEF Turn, Promised!Refuse, tableVars
    <2>3. QED BY <2>2, Zenon DEF Promised!RegisterNext
  <1>2. ASSUME NEW r \in Requests, Status(r) PROVE Goal
    <2>1. Promised!Query(r) BY <1>2, AnswerTells DEF Status, Promised!Query, tableVars
    <2>2. QED BY <2>1, Zenon DEF Promised!RegisterNext
  <1>3. ASSUME NEW r \in Requests, Submit(r) \/ InsertEvent(r) \/ InsertOnConflict(r) \/ Retry(r)
        PROVE Goal
    BY <1>3, Unseen, Zenon DEF Submit, InsertEvent, InsertOnConflict, Retry, tableVars, PCs, Goto
  <1>5. ASSUME NEW r \in Requests, Committed(r),
               Answer(r, 201, "requested") \/ (Goto(r, "failed") /\ UNCHANGED result)
        PROVE  Goal
    <2>1. r \in Posts /\ id(r) \in Ids /\ inserting[id(r)] = r /\ pc[r] = "commit"
      BY <1>5, PostFacts, Zenon DEF Committed, IntakeInv, Decided, OneIntake
    <2>2. rows[id(r)] = NoRow /\ Promised!Unserved(r)
      <3>1. rows[id(r)] = NoRow BY <2>1, IntakeAssumption DEF IntakeInv, OneIntake
      <3>2. result[r] = NoReply BY <2>1, Zenon DEF IntakeInv, Decided
      <3>3. QED BY <2>1, <3>1, <3>2, ZenonT(30) DEF Promised!Unserved
    <2>3. CASE Answer(r, 201, "requested")
      <3>1. Promised!Tell(r, 201, "requested") BY <2>1, <2>3, AnswerTells, ZenonT(30)
      <3>2. Promised!Create(r)
        BY <1>5, <2>1, <2>2, <3>1, ZenonT(30) DEF Committed, Insert, Promised!Create
      <3>3. QED BY <3>2, Zenon DEF Promised!RegisterNext
    <2>4. CASE Goto(r, "failed") /\ UNCHANGED result
      <3>1. [q \in Requests |-> pc'[q] = "done"] = [q \in Requests |-> pc[q] = "done"]
        BY <2>1, <2>4, Zenon DEF Goto, IntakeInv, IntakeTypeOK
      <3>2. Promised!Create(r)
        BY <1>5, <2>1, <2>2, <2>4, <3>1, ZenonT(30) DEF Committed, Insert, Promised!Create
      <3>3. QED BY <3>2, Zenon DEF Promised!RegisterNext
    <2>5. QED BY <1>5, <2>3, <2>4, ZenonT(30)
  <1>6. ASSUME NEW r \in Requests, SelectExisting(r) PROVE Goal
    <2>1. r \in Posts /\ rows[id(r)] # NoRow
      BY <1>6, PostFacts, Zenon DEF SelectExisting, IntakeInv, Decided, OneIntake
    <2>2. Promised!Replay(r) BY <1>6, <2>1, FoundReplays, Zenon DEF SelectExisting, tableVars
    <2>3. QED BY <2>2, ZenonT(30) DEF Promised!RegisterNext
  <1>7. ASSUME NEW r \in Requests, Deliver(r) PROVE Goal
    <2>1. Promised!Hear(r)
      BY <1>7, Zenon DEF Deliver, Goto, tableVars, Promised!Hear, IntakeInv, IntakeTypeOK, Decided
    <2>2. QED BY <2>1, Zenon DEF Promised!RegisterNext
  <1>8. ASSUME NEW r \in Requests, Fail(r) PROVE Goal
    <2>1. Promised!Lose(r)
      BY <1>8, Zenon DEF Fail, Goto, Promised!Lose, IntakeInv, IntakeTypeOK
    <2>2. QED BY <2>1, Zenon DEF Promised!RegisterNext
  <1>9. ASSUME NEW i \in Ids, Drive(i) PROVE Goal
    <2>1. Promised!Advance(i) BY <1>9, SameStates, Zenon DEF Drive, Promised!Advance
    <2>2. QED BY <2>1, Zenon DEF Promised!RegisterNext
  <1>10. CASE UNCHANGED intakeVars
    BY <1>10, Zenon DEF intakeVars, tableVars, Promised!registerVars
  <1>11. QED
    BY <1>1, <1>2, <1>3, <1>5, <1>6, <1>7, <1>8, <1>9, <1>10, ZenonT(30)
    DEF IntakeNext, Serve, Fault, Commit, CommitUnheard

(* Any number of racing, failing and repeated requests are answered as if   *)
(* each had been served at one instant by a register that is written once   *)
(* per id: the claim of service.py about the primary key.                   *)
THEOREM SpecImplementsRegister == IntakeSpec => ImplementsRegister
  <1>1. IntakeInit => Promised!RegisterInit
    BY Zenon DEF IntakeInit, Promised!RegisterInit
  <1>2. QED
    BY <1>1, InitIntake, NextIntake, StepImplements, PTL
    DEF IntakeSpec, ImplementsRegister, Promised!RegisterSpec

-----------------------------------------------------------------------------
(*                                Numerals                                 *)

(* Induction over the natural numbers, for a set. *)
LEMMA SetInduction ==
  ASSUME NEW S, 0 \in S, \A n \in Nat : n \in S => n + 1 \in S
  PROVE  \A n \in Nat : n \in S
<1> SUFFICES ASSUME NEW k \in Nat, k \notin S PROVE FALSE
  OBVIOUS
<1> DEFINE T == {n \in Nat : n \notin S}
<1>1. T \subseteq Nat /\ T # {}
  OBVIOUS
<1>2. PICK m \in T : \A y \in T : ~(<<y, m>> \in OpToRel(<, Nat))
  <2> HIDE DEF T
  <2>1. QED BY <1>1, NatLessThanWellFounded, WFMin, Zenon
<1>3. \A y \in T : ~(y < m)
  BY <1>1, <1>2, Zenon DEF OpToRel
<1>4. QED BY <1>3

(* The same with all smaller numbers as the hypothesis. *)
LEMMA StrongInduction ==
  ASSUME NEW S, \A n \in Nat : (\A m \in 0..n-1 : m \in S) => n \in S
  PROVE  \A n \in Nat : n \in S
<1> DEFINE T == {n \in Nat : \A m \in 0..n : m \in S}
<1>1. 0 \in T
  OBVIOUS
<1>2. \A n \in Nat : n \in T => n + 1 \in T
  OBVIOUS
<1>3. \A n \in Nat : n \in T
  <2> HIDE DEF T
  <2>1. QED BY <1>1, <1>2, SetInduction
<1>4. QED BY <1>3

(* Induction over sequences that grow at the end. *)
LEMMA SeqInduction ==
  ASSUME NEW A, NEW S, <<>> \in S,
         \A s \in Seq(A), a \in A : s \in S => Append(s, a) \in S
  PROVE  \A s \in Seq(A) : s \in S
<1> DEFINE T == {n \in Nat : \A s \in Seq(A) : Len(s) = n => s \in S}
<1>1. 0 \in T
  BY EmptySeq
<1>2. ASSUME NEW n \in Nat, n \in T PROVE n + 1 \in T
  <2> SUFFICES ASSUME NEW s \in Seq(A), Len(s) = n + 1 PROVE s \in S
    OBVIOUS
  <2>1. s # <<>>
    OBVIOUS
  <2>2. PICK r \in Seq(A), a \in A : s = Append(r, a)
    BY <2>1, SequenceEmptyOrAppend
  <2>3. Len(r) = n
    BY <2>2
  <2>4. QED BY <2>2, <2>3, <1>2
<1>3. \A n \in Nat : n \in T
  <2> HIDE DEF T
  <2>1. QED BY <1>1, <1>2, SetInduction
<1>4. QED BY <1>3

(* The function of Value's definition. *)
Runs(v, ds, base) ==
  v = [n \in 0..Len(ds) |-> IF n = 0 THEN 0 ELSE base * v[n - 1] + ds[n]]

LEMMA ValueRuns ==
  ASSUME NEW base, NEW ds
  PROVE  Value(ds, base) = (CHOOSE v : Runs(v, ds, base))[Len(ds)]
  BY Zenon DEF Value, Runs

LEMMA NatProduct == \A a, b \in Nat : a * b \in Nat
  OBVIOUS

(* Any two of them agree. *)
LEMMA RunsUnique ==
  ASSUME NEW base \in Nat, NEW ds \in Seq(Nat), NEW v, NEW u, Runs(v, ds, base), Runs(u, ds, base)
  PROVE  v[Len(ds)] = u[Len(ds)]
<1> DEFINE S == {n \in Nat : n <= Len(ds) => v[n] = u[n]}
<1>1. 0 \in S
  <2>1. 0 \in 0..Len(ds)
    OBVIOUS
  <2>2. v[0] = 0 /\ u[0] = 0
    BY <2>1 DEF Runs
  <2>3. QED BY <2>2
<1>2. ASSUME NEW n \in Nat, n \in S PROVE n + 1 \in S
  <2>1. CASE n + 1 <= Len(ds)
    <3>1. n + 1 \in 0..Len(ds) /\ n + 1 # 0 /\ n <= Len(ds) /\ (n + 1) - 1 = n
      BY <2>1
    <3>2. v[n + 1] = base * v[n] + ds[n + 1] /\ u[n + 1] = base * u[n] + ds[n + 1]
      BY <3>1 DEF Runs
    <3>3. QED BY <3>1, <3>2, <1>2
  <2>2. QED BY <2>1
<1>3. \A n \in Nat : n \in S
  <2> HIDE DEF S
  <2>1. QED BY <1>1, <1>2, SetInduction
<1>4. QED BY <1>3

LEMMA RunsEmpty ==
  ASSUME NEW base \in Nat
  PROVE  Runs([n \in {0} |-> 0], <<>>, base)
  BY DEF Runs

LEMMA RunsAppend ==
  ASSUME NEW base \in Nat, NEW ds \in Seq(Nat), NEW d \in Nat, NEW v, Runs(v, ds, base)
  PROVE  Runs([n \in 0..Len(ds) + 1 |-> IF n <= Len(ds) THEN v[n] ELSE base * v[Len(ds)] + d],
              Append(ds, d), base)
<1> DEFINE u == [n \in 0..Len(ds) + 1 |-> IF n <= Len(ds) THEN v[n] ELSE base * v[Len(ds)] + d]
<1>1. Len(Append(ds, d)) = Len(ds) + 1
  OBVIOUS
<1>2. ASSUME NEW n \in 0..Len(ds) + 1
      PROVE  u[n] = IF n = 0 THEN 0 ELSE base * u[n - 1] + Append(ds, d)[n]
  <2>1. CASE n = 0
    BY <2>1 DEF Runs
  <2>2. CASE n # 0 /\ n <= Len(ds)
    <3>0. n \in 0..Len(ds)
      BY <2>2
    <3>1. v[n] = base * v[n - 1] + ds[n]
      BY <2>2, <3>0, Zenon DEF Runs
    <3>2. u[n] = v[n] /\ u[n - 1] = v[n - 1] /\ Append(ds, d)[n] = ds[n]
      BY <2>2
    <3>3. QED BY <2>2, <3>1, <3>2
  <2>3. CASE n = Len(ds) + 1
    <3>1. u[n] = base * v[Len(ds)] + d /\ u[n - 1] = v[Len(ds)] /\ Append(ds, d)[n] = d
      BY <2>3
    <3>2. QED BY <2>3, <3>1
  <2>4. QED BY <2>1, <2>2, <2>3
<1>3. u = [n \in 0..Len(Append(ds, d)) |-> IF n = 0 THEN 0 ELSE base * u[n - 1] + Append(ds, d)[n]]
  BY <1>1, <1>2, Zenon
<1>4. QED BY <1>3, Zenon DEF Runs

LEMMA RunsExist ==
  ASSUME NEW base \in Nat
  PROVE  \A ds \in Seq(Nat) : \E v : Runs(v, ds, base)
<1> DEFINE S == {ds \in Seq(Nat) : \E v : Runs(v, ds, base)}
<1>1. <<>> \in S
  BY RunsEmpty, EmptySeq, Zenon
<1>2. ASSUME NEW ds \in Seq(Nat), NEW d \in Nat, ds \in S PROVE Append(ds, d) \in S
  <2>1. PICK v : Runs(v, ds, base)
    BY <1>2
  <2>2. Append(ds, d) \in Seq(Nat)
    OBVIOUS
  <2>3. QED BY <2>1, <2>2, RunsAppend, Zenon
<1>3. \A ds \in Seq(Nat) : ds \in S
  <2> HIDE DEF S
  <2>1. QED BY <1>1, <1>2, SeqInduction, Zenon
<1>4. QED BY <1>3

LEMMA ValueOfRun ==
  ASSUME NEW base \in Nat, NEW ds \in Seq(Nat), NEW v, Runs(v, ds, base)
  PROVE  Value(ds, base) = v[Len(ds)]
<1>1. Runs(CHOOSE u : Runs(u, ds, base), ds, base)
  BY Zenon
<1>2. QED BY <1>1, RunsUnique, ValueRuns, Zenon

(* int("") is 0, ... *)
LEMMA ValueEmpty == ASSUME NEW base \in Nat PROVE Value(<<>>, base) = 0
<1>1. Value(<<>>, base) = [n \in {0} |-> 0][Len(<<>>)]
  BY RunsEmpty, ValueOfRun, EmptySeq, Zenon
<1>2. QED BY <1>1

(* ... and a digit at the end counts once and the rest base times. *)
LEMMA ValueAppend ==
  ASSUME NEW base \in Nat, NEW ds \in Seq(Nat), NEW d \in Nat
  PROVE  Value(Append(ds, d), base) = base * Value(ds, base) + d
<1>1. PICK v : Runs(v, ds, base)
  BY RunsExist, Zenon
<1> DEFINE u == [n \in 0..Len(ds) + 1 |-> IF n <= Len(ds) THEN v[n] ELSE base * v[Len(ds)] + d]
<1>2. Append(ds, d) \in Seq(Nat) /\ Len(Append(ds, d)) = Len(ds) + 1 /\ Len(ds) \in Nat
  OBVIOUS
<1>3. Value(Append(ds, d), base) = u[Len(ds) + 1]
  <2>1. Runs(u, Append(ds, d), base) BY <1>1, RunsAppend, Zenon
  <2>2. HIDE DEF u
  <2>3. QED BY <2>1, <1>2, ValueOfRun, Zenon
<1>4. u[Len(ds) + 1] = base * v[Len(ds)] + d
  BY <1>2
<1>5. QED BY <1>1, <1>3, <1>4, ValueOfRun, Zenon

LEMMA ValueNat ==
  ASSUME NEW base \in Nat
  PROVE  \A ds \in Seq(Nat) : Value(ds, base) \in Nat
<1> DEFINE S == {ds \in Seq(Nat) : Value(ds, base) \in Nat}
<1>1. <<>> \in S
  BY ValueEmpty, EmptySeq
<1>2. ASSUME NEW ds \in Seq(Nat), NEW d \in Nat, ds \in S PROVE Append(ds, d) \in S
  <2>1. Value(Append(ds, d), base) = base * Value(ds, base) + d
    BY ValueAppend, Zenon
  <2>2. Append(ds, d) \in Seq(Nat)
    OBVIOUS
  <2>3. QED BY <1>2, <2>1, <2>2
<1>3. \A ds \in Seq(Nat) : ds \in S
  <2> HIDE DEF S
  <2>1. QED BY <1>1, <1>2, SeqInduction, Zenon
<1>4. QED BY <1>3

LEMMA ZerosAre ==
  ASSUME NEW n \in Nat
  PROVE  /\ zeros(n) \in Seq({0}) /\ zeros(n) \in Seq(Nat) /\ Len(zeros(n)) = n
         /\ zeros(0) = <<>>
         /\ zeros(n + 1) = Append(zeros(n), 0)
<1>1. zeros(n) \in Seq({0}) /\ zeros(n) \in Seq(Nat) /\ Len(zeros(n)) = n
  BY DEF zeros
<1>2. zeros(0) = <<>>
  BY DEF zeros
<1>3. zeros(n + 1) = Append(zeros(n), 0)
  BY DEF zeros
<1>4. QED BY <1>1, <1>2, <1>3

LEMMA PowerZero == ASSUME NEW base \in Nat PROVE Power(base, 0) = 1
<1>1. <<1>> \o zeros(0) = Append(<<>>, 1)
  <2>1. zeros(0) = <<>>
    BY ZerosAre, 0 \in Nat, Zenon
  <2>2. <<1>> \o <<>> = Append(<<>>, 1)
    OBVIOUS
  <2>3. QED BY <2>1, <2>2, Zenon
<1>2. Value(Append(<<>>, 1), base) = base * Value(<<>>, base) + 1
  BY ValueAppend, EmptySeq, 1 \in Nat, Zenon
<1>3. Value(<<>>, base) = 0
  BY ValueEmpty, Zenon
<1>4. base * 0 + 1 = 1
  OBVIOUS
<1>5. QED BY <1>1, <1>2, <1>3, <1>4, Zenon DEF Power

LEMMA PowerStep ==
  ASSUME NEW base \in Nat, NEW n \in Nat
  PROVE  Power(base, n + 1) = base * Power(base, n)
<1>1. <<1>> \o zeros(n) \in Seq(Nat)
  BY ZerosAre
<1>2. <<1>> \o zeros(n + 1) = Append(<<1>> \o zeros(n), 0)
  <2>1. PICK z \in Seq(Nat) : z = zeros(n) /\ zeros(n + 1) = Append(z, 0)
    BY ZerosAre, Zenon
  <2>2. <<1>> \o Append(z, 0) = Append(<<1>> \o z, 0)
    OBVIOUS
  <2>3. QED BY <2>1, <2>2, Zenon
<1>3. Value(<<1>> \o zeros(n + 1), base) = base * Value(<<1>> \o zeros(n), base) + 0
  BY <1>1, <1>2, ValueAppend, 0 \in Nat, Zenon
<1>4. Value(<<1>> \o zeros(n), base) \in Nat
  BY <1>1, ValueNat, Zenon
<1>5. QED BY <1>3, <1>4 DEF Power

LEMMA PowerNat ==
  ASSUME NEW base \in Nat, base > 0
  PROVE  \A n \in Nat : Power(base, n) \in Nat /\ Power(base, n) > 0
<1> DEFINE S == {n \in Nat : Power(base, n) \in Nat /\ Power(base, n) > 0}
<1>1. 0 \in S
  BY PowerZero
<1>2. ASSUME NEW n \in Nat, n \in S PROVE n + 1 \in S
  <2>1. Power(base, n + 1) = base * Power(base, n)
    BY PowerStep
  <2>2. PICK p \in Nat : p = Power(base, n) /\ p > 0
    BY <1>2
  <2>3. base * p \in Nat /\ base * p > 0
    BY <2>2
  <2>4. QED BY <2>1, <2>2, <2>3
<1>3. \A n \in Nat : n \in S
  <2> HIDE DEF S
  <2>1. QED BY <1>1, <1>2, SetInduction
<1>4. QED BY <1>3

(* The product of two powers. *)
LEMMA PowerSum ==
  ASSUME NEW base \in Nat, base > 0, NEW m \in Nat
  PROVE  \A n \in Nat : Power(base, m + n) = Power(base, m) * Power(base, n)
<1> DEFINE S == {n \in Nat : Power(base, m + n) = Power(base, m) * Power(base, n)}
<1>0. Power(base, m) \in Nat
  BY PowerNat
<1>1. 0 \in S
  BY <1>0, PowerZero
<1>2. ASSUME NEW n \in Nat, n \in S PROVE n + 1 \in S
  <2>1. Power(base, n + 1) = base * Power(base, n) /\ Power(base, (m + n) + 1) = base * Power(base, m + n)
    BY PowerStep
  <2>2. PICK p \in Nat, q \in Nat : p = Power(base, m) /\ q = Power(base, n)
    BY PowerNat, Zenon
  <2>3. base * (p * q) = p * (base * q)
    OBVIOUS
  <2>4. (m + n) + 1 = m + (n + 1)
    OBVIOUS
  <2>5. QED BY <1>2, <2>1, <2>2, <2>3, <2>4
<1>3. \A n \in Nat : n \in S
  <2> HIDE DEF S
  <2>1. QED BY <1>1, <1>2, SetInduction
<1>4. QED BY <1>3

(* What a prefix counts for. *)
LEMMA ValueConcat ==
  ASSUME NEW base \in Nat, base > 0, NEW a \in Seq(Nat)
  PROVE  \A b \in Seq(Nat) : Value(a \o b, base) = Value(a, base) * Power(base, Len(b)) + Value(b, base)
<1> DEFINE S == {b \in Seq(Nat) : Value(a \o b, base) = Value(a, base) * Power(base, Len(b)) + Value(b, base)}
<1>0. PICK x \in Nat : x = Value(a, base)
  BY ValueNat, Zenon
<1>1. <<>> \in S
  <2>1. a \o <<>> = a /\ Len(<<>>) = 0 /\ <<>> \in Seq(Nat)
    OBVIOUS
  <2>2. QED BY <1>0, <2>1, PowerZero, ValueEmpty
<1>2. ASSUME NEW b \in Seq(Nat), NEW d \in Nat, b \in S PROVE Append(b, d) \in S
  <2>1. /\ a \o Append(b, d) = Append(a \o b, d) /\ a \o b \in Seq(Nat)
        /\ Len(Append(b, d)) = Len(b) + 1 /\ Append(b, d) \in Seq(Nat) /\ Len(b) \in Nat
    OBVIOUS
  <2>2. Value(Append(a \o b, d), base) = base * Value(a \o b, base) + d
    BY <2>1, ValueAppend, Zenon
  <2>3. Value(Append(b, d), base) = base * Value(b, base) + d
    BY ValueAppend, Zenon
  <2>4. PICK y \in Nat, p \in Nat : y = Value(b, base) /\ p = Power(base, Len(b))
    BY <2>1, ValueNat, PowerNat, Zenon
  <2>5. Power(base, Len(b) + 1) = base * p
    BY <2>1, <2>4, PowerStep
  <2>6. base * (x * p + y) + d = x * (base * p) + (base * y + d)
    OBVIOUS
  <2>7. QED BY <1>0, <1>2, <2>1, <2>2, <2>3, <2>4, <2>5, <2>6, Zenon
<1>3. \A b \in Seq(Nat) : b \in S
  <2> HIDE DEF S
  <2>1. QED BY <1>1, <1>2, SeqInduction, Zenon
<1>4. QED BY <1>3

(* Leading zeros count for nothing. *)
LEMMA ValueZeros ==
  ASSUME NEW base \in Nat
  PROVE  \A n \in Nat : Value(zeros(n), base) = 0
<1> DEFINE S == {n \in Nat : Value(zeros(n), base) = 0}
<1>1. 0 \in S
  BY ZerosAre, ValueEmpty, Zenon
<1>2. ASSUME NEW n \in Nat, n \in S PROVE n + 1 \in S
  <2>1. Value(zeros(n + 1), base) = base * Value(zeros(n), base) + 0
    <3>1. zeros(n) \in Seq(Nat) /\ zeros(n + 1) = Append(zeros(n), 0)
      BY ZerosAre, Zenon
    <3>2. QED BY <3>1, ValueAppend, 0 \in Nat, Zenon
  <2>2. base * 0 + 0 = 0
    OBVIOUS
  <2>3. QED BY <1>2, <2>1, <2>2
<1>3. \A n \in Nat : n \in S
  <2> HIDE DEF S
  <2>1. QED BY <1>1, <1>2, SetInduction
<1>4. QED BY <1>3

LEMMA ValuePadLeft ==
  ASSUME NEW base \in Nat, base > 0, NEW n \in Nat, NEW ds \in Seq(Nat)
  PROVE  Value(zeros(n) \o ds, base) = Value(ds, base)
<1>1. Value(zeros(n) \o ds, base) = Value(zeros(n), base) * Power(base, Len(ds)) + Value(ds, base)
  BY ZerosAre, ValueConcat, Zenon
<1>2. Value(ds, base) \in Nat /\ Power(base, Len(ds)) \in Nat
  BY ValueNat, PowerNat, LenProperties, Zenon
<1>3. Value(zeros(n), base) = 0
  BY ValueZeros, Zenon
<1>4. QED BY <1>1, <1>2, <1>3

LEMMA ValuePadRight ==
  ASSUME NEW base \in Nat, base > 0, NEW n \in Nat, NEW ds \in Seq(Nat)
  PROVE  Value(ds \o zeros(n), base) = Value(ds, base) * Power(base, n)
<1>1. Value(ds \o zeros(n), base) = Value(ds, base) * Power(base, n) + Value(zeros(n), base)
  BY ZerosAre, ValueConcat, Zenon
<1>2. Value(ds, base) * Power(base, n) \in Nat
  BY ValueNat, PowerNat, NatProduct, Zenon
<1>3. Value(zeros(n), base) = 0
  BY ValueZeros, Zenon
<1>4. QED BY <1>1, <1>2, <1>3

LEMMA DigitsAreNat ==
  ASSUME NEW base \in Nat
  PROVE  0..base-1 \subseteq Nat /\ Seq(0..base-1) \subseteq Seq(Nat)
<1>1. 0..base-1 \subseteq Nat
  OBVIOUS
<1>2. QED BY <1>1, SeqMonotonic

(* A numeral of n digits is less than base ** n. *)
LEMMA ValueBound ==
  ASSUME NEW base \in Nat, base > 0
  PROVE  \A ds \in Seq(0..base-1) : Value(ds, base) < Power(base, Len(ds))
<1> DEFINE S == {ds \in Seq(0..base-1) : Value(ds, base) < Power(base, Len(ds))}
<1>1. <<>> \in S
  <2>1. Len(<<>>) = 0 /\ <<>> \in Seq(0..base-1)
    OBVIOUS
  <2>2. QED BY <2>1, ValueEmpty, PowerZero
<1>2. ASSUME NEW ds \in Seq(0..base-1), NEW d \in 0..base-1, ds \in S PROVE Append(ds, d) \in S
  <2>1. ds \in Seq(Nat) /\ d \in Nat
    BY DigitsAreNat, Zenon
  <2>2. Len(Append(ds, d)) = Len(ds) + 1 /\ Append(ds, d) \in Seq(0..base-1) /\ Len(ds) \in Nat
    OBVIOUS
  <2>3. PICK x \in Nat, p \in Nat : x = Value(ds, base) /\ p = Power(base, Len(ds))
    BY <2>1, <2>2, ValueNat, PowerNat, Zenon
  <2>4. Value(Append(ds, d), base) = base * x + d
    BY <2>1, <2>3, ValueAppend, Zenon
  <2>5. Power(base, Len(ds) + 1) = base * p
    BY <2>2, <2>3, PowerStep, Zenon
  <2>6. x < p
    BY <1>2, <2>3
  <2>7. base * x + base <= base * p
    <3>1. x + 1 <= p
      BY <2>6
    <3>2. base * (x + 1) <= base * p
      BY <3>1
    <3>3. QED BY <3>2
  <2>8. base * x + d < base * p
    BY <2>7
  <2>9. QED BY <2>2, <2>4, <2>5, <2>8
<1>3. \A ds \in Seq(0..base-1) : ds \in S
  <2> HIDE DEF S
  <2>1. QED BY <1>1, <1>2, SeqInduction, Zenon
<1>4. QED BY <1>3

(* Division by the base takes the last digit off. *)
LEMMA DivMod ==
  ASSUME NEW b \in Nat, b > 0, NEW m \in Nat
  PROVE  \E q \in Nat, r \in 0..b-1 : q = m \div b /\ r = m % b /\ m = b * q + r
<1>1. m \div b \in Nat /\ m % b \in 0..b-1
  OBVIOUS
<1>2. PICK q \in Nat, r \in 0..b-1 : q = m \div b /\ r = m % b
  BY <1>1
<1>3. m = b * q + r
  BY <1>2
<1>4. QED BY <1>2, <1>3, Zenon

LEMMA DivLess ==
  ASSUME NEW b \in Nat, b > 1, NEW m \in Nat, m > 0
  PROVE  m \div b < m
<1>1. PICK q \in Nat, r \in Nat : q = m \div b /\ m = b * q + r
  BY DivMod
<1>2. CASE q = 0
  BY <1>1, <1>2
<1>3. CASE q > 0
  <2>1. b * q >= 2 * q
    BY <1>3
  <2>2. QED BY <1>1, <1>3, <2>1
<1>4. QED BY <1>1, <1>2, <1>3

LEMMA DivUnique ==
  ASSUME NEW b \in Nat, b > 0, NEW q \in Nat, NEW r \in 0..b-1,
         NEW x \in Nat, NEW y \in 0..b-1, b * q + r = b * x + y
  PROVE  q = x /\ r = y
<1>1. CASE q < x
  <2>1. b * (q + 1) <= b * x
    BY <1>1
  <2>2. b * (q + 1) = b * q + b
    OBVIOUS
  <2>3. QED BY <2>1, <2>2
<1>2. CASE x < q
  <2>1. b * (x + 1) <= b * q
    BY <1>2
  <2>2. b * (x + 1) = b * x + b
    OBVIOUS
  <2>3. QED BY <2>1, <2>2
<1>3. QED BY <1>1, <1>2

LEMMA DivOfSum ==
  ASSUME NEW b \in Nat, b > 0, NEW q \in Nat, NEW r \in 0..b-1
  PROVE  (b * q + r) \div b = q /\ (b * q + r) % b = r
<1>1. PICK m \in Nat : m = b * q + r
  OBVIOUS
<1>2. PICK x \in Nat, y \in 0..b-1 : x = m \div b /\ y = m % b /\ m = b * x + y
  BY DivMod, Zenon
<1>3. b * q + r = b * x + y
  BY <1>1, <1>2, Zenon
<1>4. q = x /\ r = y
  BY <1>3, DivUnique
<1>5. QED BY <1>1, <1>2, <1>4, Zenon

-----------------------------------------------------------------------------
(*                                 Digits                                  *)

(* The function of Digits' definition, and a function that is like it up to k. *)
Writes(d, base) ==
  d = [m \in Nat |-> IF m = 0 THEN <<>> ELSE Append(d[m \div base], m % base)]

WritesTo(d, k, base) ==
  \A m \in 0..k : d[m] = IF m = 0 THEN <<>> ELSE Append(d[m \div base], m % base)

LEMMA DigitsWrites ==
  ASSUME NEW base, NEW n
  PROVE  Digits(n, base) = (CHOOSE d : Writes(d, base))[n]
  BY Zenon DEF Digits, Writes

LEMMA WritesToUnique ==
  ASSUME NEW base \in Nat, base > 1, NEW k \in Nat, NEW d, NEW e,
         WritesTo(d, k, base), WritesTo(e, k, base)
  PROVE  d[k] = e[k]
<1> DEFINE S == {m \in Nat : m <= k => d[m] = e[m]}
<1>1. ASSUME NEW m \in Nat, \A i \in 0..m-1 : i \in S PROVE m \in S
  <2>1. CASE m <= k /\ m # 0
    <3>1. PICK q \in Nat, r \in 0..base-1 : q = m \div base /\ r = m % base
      BY DivMod
    <3>2. q < m
      BY <2>1, <3>1, DivLess
    <3>3. m \in 0..k
      BY <2>1
    <3>4. d[m] = Append(d[q], r) /\ e[m] = Append(e[q], r)
      BY <2>1, <3>1, <3>3, Zenon DEF WritesTo
    <3>5. q \in 0..m-1 /\ q <= k
      BY <2>1, <3>2
    <3>6. d[q] = e[q]
      BY <3>5, <1>1
    <3>7. QED BY <3>4, <3>6, Zenon
  <2>2. CASE m = 0
    <3>1. 0 \in 0..k
      OBVIOUS
    <3>2. QED BY <2>2, <3>1, Zenon DEF WritesTo
  <2>3. QED BY <2>1, <2>2
<1>2. \A m \in Nat : m \in S
  <2> HIDE DEF S
  <2>1. QED BY <1>1, StrongInduction, Zenon
<1>3. QED BY <1>2

LEMMA WritesToExist ==
  ASSUME NEW base \in Nat, base > 1
  PROVE  \A k \in Nat : \E d \in [Nat -> Seq(Nat)] : WritesTo(d, k, base)
<1> DEFINE S == {k \in Nat : \E d \in [Nat -> Seq(Nat)] : WritesTo(d, k, base)}
<1>1. 0 \in S
  <2>1. [m \in Nat |-> <<>>] \in [Nat -> Seq(Nat)]
    BY EmptySeq
  <2>2. WritesTo([m \in Nat |-> <<>>], 0, base)
    BY DEF WritesTo
  <2>3. QED BY <2>1, <2>2, 0 \in Nat, Zenon
<1>2. ASSUME NEW k \in Nat, k \in S PROVE k + 1 \in S
  <2>1. PICK d \in [Nat -> Seq(Nat)] : WritesTo(d, k, base)
    BY <1>2
  <2>2. PICK j \in Nat : j = k + 1 /\ j > 0
    OBVIOUS
  <2>3. PICK q \in Nat, r \in 0..base-1 : q = j \div base /\ r = j % base /\ q # j
    <3>1. base > 0
      OBVIOUS
    <3>2. PICK q \in Nat, r \in 0..base-1 : q = j \div base /\ r = j % base
      BY <3>1, DivMod, Zenon
    <3>3. q < j
      BY <2>2, <3>2, DivLess, Zenon
    <3>4. q # j
      BY <3>3
    <3>5. QED BY <3>2, <3>4, Zenon
  <2> DEFINE e == [d EXCEPT ![j] = Append(d[q], r)]
  <2>4. e \in [Nat -> Seq(Nat)]
    <3>1. Append(d[q], r) \in Seq(Nat)
      OBVIOUS
    <3>2. QED BY <3>1, Zenon
  <2>5. ASSUME NEW m \in 0..j
        PROVE  e[m] = IF m = 0 THEN <<>> ELSE Append(e[m \div base], m % base)
    <3>1. CASE m = j
      <4>0. j # 0
        BY <2>2
      <4>1. e[j] = Append(d[q], r) /\ e[q] = d[q]
        BY <2>3, Zenon
      <4>2. QED BY <3>1, <4>0, <4>1, <2>3, Zenon
    <3>2. CASE m # j
      <4>1. m \in 0..k /\ m \in Nat
        BY <3>2, <2>2
      <4>2. d[m] = IF m = 0 THEN <<>> ELSE Append(d[m \div base], m % base)
        BY <2>1, <4>1, Zenon DEF WritesTo
      <4>3. e[m] = d[m]
        BY <3>2, <4>1
      <4>4. CASE m # 0
        <5>1. PICK i \in Nat : i = m \div base /\ i < m
          <6>1. m \in Nat /\ m > 0 /\ base > 0
            BY <4>1, <4>4
          <6>2. m \div base \in Nat
            BY <6>1, DivMod, Zenon
          <6>3. m \div base < m
            BY <6>1, DivLess, Zenon
          <6>4. QED BY <6>2, <6>3, Zenon
        <5>2. i # j
          BY <4>1, <5>1, <2>2
        <5>3. e[i] = d[i]
          BY <5>2
        <5>4. QED BY <4>2, <4>3, <4>4, <5>1, <5>3, Zenon
      <4>5. QED BY <4>2, <4>3, <4>4, Zenon
    <3>3. QED BY <3>1, <3>2, Zenon
  <2>6. WritesTo(e, j, base)
    <3> HIDE DEF e
    <3>1. QED BY <2>5, Zenon DEF WritesTo
  <2>7. j \in S
    <3> HIDE DEF e
    <3>1. QED BY <2>4, <2>6, Zenon
  <2>8. QED BY <2>2, <2>7
<1>3. \A k \in Nat : k \in S
  <2> HIDE DEF S
  <2>1. QED BY <1>1, <1>2, SetInduction
<1>4. QED BY <1>3, Zenon

LEMMA WritesExist ==
  ASSUME NEW base \in Nat, base > 1
  PROVE  \E d \in [Nat -> Seq(Nat)] : Writes(d, base)
<1> DEFINE w(k) == CHOOSE d \in [Nat -> Seq(Nat)] : WritesTo(d, k, base)
           D == [k \in Nat |-> w(k)[k]]
<1>1. ASSUME NEW k \in Nat PROVE w(k) \in [Nat -> Seq(Nat)] /\ WritesTo(w(k), k, base)
  BY WritesToExist, Zenon
<1> HIDE DEF w
<1>2. D \in [Nat -> Seq(Nat)]
  BY <1>1
<1>3. ASSUME NEW m \in Nat PROVE D[m] = IF m = 0 THEN <<>> ELSE Append(D[m \div base], m % base)
  <2>1. m \in 0..m /\ D[m] = w(m)[m]
    OBVIOUS
  <2>2. w(m)[m] = IF m = 0 THEN <<>> ELSE Append(w(m)[m \div base], m % base)
    BY <1>1, <2>1, Zenon DEF WritesTo
  <2>3. CASE m # 0
    <3>1. PICK q \in Nat : q = m \div base /\ q < m
      BY <2>3, DivMod, DivLess
    <3>2. WritesTo(w(m), q, base)
      <4>1. 0..q \subseteq 0..m
        BY <3>1
      <4>2. QED BY <1>1, <4>1, Zenon DEF WritesTo
    <3>3. w(m)[q] = w(q)[q]
      BY <1>1, <3>2, WritesToUnique
    <3>4. D[q] = w(q)[q]
      OBVIOUS
    <3>5. QED BY <2>1, <2>2, <2>3, <3>1, <3>3, <3>4
  <2>4. QED BY <2>1, <2>2, <2>3, Zenon
<1>4. Writes(D, base)
  <2>1. D = [m \in Nat |-> D[m]]
    OBVIOUS
  <2> HIDE DEF D
  <2>2. QED BY <1>3, <2>1, Zenon DEF Writes
<1>5. QED BY <1>2, <1>4, Zenon

LEMMA DigitsZero ==
  ASSUME NEW base \in Nat, base > 1
  PROVE  Digits(0, base) = <<>>
<1> DEFINE d == CHOOSE d : Writes(d, base)
<1>1. Writes(d, base)
  BY WritesExist, Zenon
<1>2. Digits(0, base) = d[0]
  BY DigitsWrites, Zenon
<1> HIDE DEF d
<1>3. QED BY <1>1, <1>2 DEF Writes

(* The last digit is the remainder. *)
LEMMA DigitsStep ==
  ASSUME NEW base \in Nat, base > 1, NEW q \in Nat, NEW r \in 0..base-1, base * q + r > 0
  PROVE  Digits(base * q + r, base) = Append(Digits(q, base), r)
<1> DEFINE d == CHOOSE d : Writes(d, base)
<1>1. Writes(d, base)
  BY WritesExist, Zenon
<1>2. Digits(base * q + r, base) = d[base * q + r] /\ Digits(q, base) = d[q]
  BY DigitsWrites, Zenon
<1> HIDE DEF d
<1>3. PICK m \in Nat : m = base * q + r
  OBVIOUS
<1>4. m \div base = q /\ m % base = r
  BY <1>3, DivOfSum
<1>5. d[m] = IF m = 0 THEN <<>> ELSE Append(d[m \div base], m % base)
  BY <1>1, Zenon DEF Writes
<1>6. m # 0
  BY <1>3
<1>7. d[m] = Append(d[q], r)
  BY <1>4, <1>5, <1>6, Zenon
<1>8. QED BY <1>2, <1>3, <1>7, Zenon

(* No leading zero. *)
Tidy(ds) == ds = <<>> \/ ds[1] # 0

LEMMA TidyAppend ==
  ASSUME NEW A, NEW s \in Seq(A), NEW a \in A
  PROVE  Tidy(Append(s, a)) <=> IF s = <<>> THEN a # 0 ELSE Tidy(s)
<1>1. Append(s, a) # <<>>
  BY AppendProperties, Zenon
<1>2. CASE s = <<>>
  <2>1. Append(s, a)[1] = a
    BY <1>2
  <2>2. QED BY <1>1, <1>2, <2>1, Zenon DEF Tidy
<1>3. CASE s # <<>>
  <2>1. Append(s, a)[1] = s[1]
    BY <1>3
  <2>2. QED BY <1>1, <1>3, <2>1, Zenon DEF Tidy
<1>4. QED BY <1>2, <1>3

(* Digits writes a numeral of n. *)
LEMMA DigitsSpell ==
  ASSUME NEW base \in Nat, base > 1
  PROVE  \A n \in Nat : /\ Digits(n, base) \in Seq(0..base-1)
                        /\ Value(Digits(n, base), base) = n
                        /\ Tidy(Digits(n, base))
                        /\ Digits(n, base) = <<>> => n = 0
<1> DEFINE S == {n \in Nat : /\ Digits(n, base) \in Seq(0..base-1)
                             /\ Value(Digits(n, base), base) = n
                             /\ Tidy(Digits(n, base))
                             /\ Digits(n, base) = <<>> => n = 0}
<1>1. ASSUME NEW n \in Nat, \A m \in 0..n-1 : m \in S PROVE n \in S
  <2>1. CASE n = 0
    BY <2>1, DigitsZero, ValueEmpty, EmptySeq, Zenon DEF Tidy
  <2>2. CASE n # 0
    <3>1. n > 0 /\ base > 0
      BY <2>2
    <3>2. PICK q \in Nat, r \in 0..base-1 : q = n \div base /\ n = base * q + r
      BY <3>1, DivMod, Zenon
    <3>3. q < n
      BY <3>1, <3>2, DivLess, Zenon
    <3>4. q \in 0..n-1
      BY <3>3
    <3>5. q \in S
      BY <3>4, <1>1
    <3>6. PICK s \in Seq(0..base-1) : s = Digits(q, base) /\ Value(s, base) = q /\ Tidy(s) /\ (s = <<>> => q = 0)
      BY <3>5, Zenon
    <3>7. base * q + r > 0
      BY <3>1, <3>2, Zenon
    <3>8. Digits(n, base) = Append(s, r)
      <4>1. Digits(base * q + r, base) = Append(Digits(q, base), r)
        BY <3>7, DigitsStep, Zenon
      <4>2. Digits(q, base) = s
        BY <3>6, Zenon
      <4>3. Digits(base * q + r, base) = Append(s, r)
        BY <4>1, <4>2
      <4>4. QED BY <3>2, <4>3
    <3>9. Append(s, r) \in Seq(0..base-1) /\ Append(s, r) # <<>>
      OBVIOUS
    <3>10. s \in Seq(Nat) /\ r \in Nat
      BY DigitsAreNat, Zenon
    <3>11. Value(Append(s, r), base) = base * q + r
      <4>1. Value(Append(s, r), base) = base * Value(s, base) + r
        BY <3>10, ValueAppend
      <4>2. QED BY <3>6, <4>1
    <3>12. s = <<>> => r # 0
      <4>1. base * 0 + 0 = 0
        OBVIOUS
      <4>2. QED BY <2>2, <3>2, <3>6, <4>1
    <3>13. Tidy(Append(s, r))
      <4>1. IF s = <<>> THEN r # 0 ELSE Tidy(s)
        BY <3>6, <3>12
      <4>2. QED BY <4>1, TidyAppend
    <3>14. QED BY <3>2, <3>8, <3>9, <3>11, <3>13, Zenon
  <2>3. QED BY <2>1, <2>2
<1>2. \A n \in Nat : n \in S
  <2> HIDE DEF S
  <2>1. QED BY <1>1, StrongInduction, Zenon
<1>3. QED BY <1>2, Zenon

(* A numeral without a leading zero is the one that Digits writes. *)
LEMMA DigitsOfValue ==
  ASSUME NEW base \in Nat, base > 1
  PROVE  \A s \in Seq(0..base-1) : Tidy(s) => Digits(Value(s, base), base) = s /\ (s # <<>> => Value(s, base) > 0)
<1> DEFINE S == {s \in Seq(0..base-1) :
                   Tidy(s) => Digits(Value(s, base), base) = s /\ (s # <<>> => Value(s, base) > 0)}
<1>1. <<>> \in S
  BY DigitsZero, ValueEmpty, EmptySeq, Zenon
<1>2. ASSUME NEW s \in Seq(0..base-1), NEW d \in 0..base-1, s \in S PROVE Append(s, d) \in S
  <2>0. Append(s, d) \in Seq(0..base-1)
    OBVIOUS
  <2> SUFFICES ASSUME Tidy(Append(s, d))
               PROVE  /\ Digits(Value(Append(s, d), base), base) = Append(s, d)
                      /\ Value(Append(s, d), base) > 0
    BY <2>0, Zenon
  <2>1. IF s = <<>> THEN d # 0 ELSE Tidy(s)
    BY TidyAppend, Zenon
  <2>2. s \in Seq(Nat) /\ d \in Nat
    BY DigitsAreNat, Zenon
  <2>3. PICK x \in Nat : x = Value(s, base)
    BY <2>2, ValueNat, Zenon
  <2>4. Value(Append(s, d), base) = base * x + d
    BY <2>2, <2>3, ValueAppend, Zenon
  <2>5. Digits(x, base) = s /\ (s = <<>> => x = 0) /\ (s # <<>> => x > 0)
    BY <1>2, <2>1, <2>3, DigitsZero, ValueEmpty, Zenon
  <2>6. base * x + d > 0
    <3>1. CASE s = <<>>
      <4>1. d > 0 /\ base * x \in Nat
        BY <2>1, <2>2, <3>1
      <4>2. QED BY <4>1
    <3>2. CASE s # <<>>
      <4>1. base * x > 0
        BY <2>5, <3>2
      <4>2. QED BY <4>1, <2>2
    <3>3. QED BY <3>1, <3>2
  <2>7. Digits(base * x + d, base) = Append(s, d)
    BY <2>5, <2>6, DigitsStep, Zenon
  <2>8. QED BY <2>4, <2>6, <2>7, Zenon
<1>3. \A s \in Seq(0..base-1) : s \in S
  <2> HIDE DEF S
  <2>1. QED BY <1>1, <1>2, SeqInduction, Zenon
<1>4. QED BY <1>3, Zenon

LEMMA PowerMonotone ==
  ASSUME NEW base \in Nat, base > 0, NEW m \in Nat, NEW n \in Nat, m <= n
  PROVE  Power(base, m) <= Power(base, n)
<1>1. PICK k \in Nat : n = m + k
  <2>1. n - m \in Nat /\ n = m + (n - m)
    OBVIOUS
  <2>2. QED BY <2>1, Zenon
<1>2. PICK p \in Nat, q \in Nat : p = Power(base, m) /\ q = Power(base, k) /\ q > 0
  BY PowerNat, Zenon
<1>3. Power(base, n) = p * q
  <2>1. Power(base, m + k) = Power(base, m) * Power(base, k)
    BY PowerSum, Zenon
  <2>2. QED BY <1>1, <1>2, <2>1
<1>4. p * q >= p
  BY <1>2
<1>5. QED BY <1>2, <1>3, <1>4

LEMMA ValueOne ==
  ASSUME NEW base \in Nat, NEW a \in Nat
  PROVE  Value(<<a>>, base) = a
<1>1. <<a>> = Append(<<>>, a) /\ <<>> \in Seq(Nat)
  OBVIOUS
<1>2. Value(Append(<<>>, a), base) = base * Value(<<>>, base) + a
  BY <1>1, ValueAppend, Zenon
<1>3. Value(<<>>, base) = 0
  BY ValueEmpty
<1>4. base * 0 + a = a
  OBVIOUS
<1>5. QED BY <1>1, <1>2, <1>3, <1>4

(* A numeral with a digit in front. *)
LEMMA ValueFirst ==
  ASSUME NEW base \in Nat, base > 0, NEW a \in Nat, NEW ds \in Seq(Nat)
  PROVE  Value(<<a>> \o ds, base) = a * Power(base, Len(ds)) + Value(ds, base)
<1>1. <<a>> \in Seq(Nat)
  OBVIOUS
<1>2. Value(<<a>> \o ds, base) = Value(<<a>>, base) * Power(base, Len(ds)) + Value(ds, base)
  BY <1>1, ValueConcat, Zenon
<1>3. QED BY <1>2, ValueOne, Zenon

(* Without a leading zero it is at least base ** (n - 1). *)
LEMMA ValueAtLeast ==
  ASSUME NEW base \in Nat, base > 0, NEW s \in Seq(Nat), s # <<>>, s[1] # 0
  PROVE  Value(s, base) >= Power(base, Len(s) - 1)
<1>1. PICK a \in Nat, ds \in Seq(Nat) : s = <<a>> \o ds /\ a > 0 /\ Len(ds) = Len(s) - 1
  <2>1. s = <<s[1]>> \o Tail(s) /\ s[1] \in Nat /\ Tail(s) \in Seq(Nat) /\ Len(Tail(s)) = Len(s) - 1
    OBVIOUS
  <2>2. s[1] > 0
    BY <2>1
  <2>3. QED BY <2>1, <2>2, Zenon
<1>2. PICK p \in Nat, x \in Nat : p = Power(base, Len(ds)) /\ x = Value(ds, base)
  BY PowerNat, ValueNat, LenProperties, Zenon
<1>3. Value(s, base) = a * p + x
  BY <1>1, <1>2, ValueFirst, Zenon
<1>4. a * p >= p
  BY <1>1
<1>5. a * p + x >= p
  BY <1>4
<1>6. QED BY <1>1, <1>2, <1>3, <1>5

(* How long str(n) is. *)
LEMMA DigitsLen ==
  ASSUME NEW base \in Nat, base > 1, NEW n \in Nat, NEW k \in Nat
  PROVE  /\ n < Power(base, k) => Len(Digits(n, base)) <= k
         /\ n >= Power(base, k) => Len(Digits(n, base)) > k
<1>0. base > 0
  OBVIOUS
<1>1. PICK s \in Seq(0..base-1) : s = Digits(n, base) /\ Value(s, base) = n /\ Tidy(s)
  BY DigitsSpell, Zenon
<1>2. s \in Seq(Nat) /\ Len(s) \in Nat
  BY DigitsAreNat, LenProperties, Zenon
<1>3. PICK p \in Nat : p = Power(base, k)
  BY <1>0, PowerNat, Zenon
<1>4. ASSUME n < p PROVE Len(s) <= k
  <2>1. CASE s = <<>>
    BY <2>1
  <2>2. CASE s # <<>> /\ Len(s) > k
    <3>1. s[1] # 0
      BY <2>2, <1>1, Zenon DEF Tidy
    <3>2. Value(s, base) >= Power(base, Len(s) - 1)
      BY <1>0, <1>2, <2>2, <3>1, ValueAtLeast, Zenon
    <3>3. PICK j \in Nat : j = Len(s) - 1 /\ k <= j
      BY <1>2, <2>2
    <3>4. Power(base, k) <= Power(base, j)
      BY <1>0, <3>3, PowerMonotone, Zenon
    <3>5. PICK q \in Nat : q = Power(base, j)
      BY <1>0, PowerNat, Zenon
    <3>6. n >= q /\ p <= q
      BY <1>1, <1>3, <3>2, <3>3, <3>4, <3>5, Zenon
    <3>7. QED BY <3>6, <1>4
  <2>3. QED BY <2>1, <2>2, <1>2
<1>5. ASSUME n >= p PROVE Len(s) > k
  <2>1. CASE Len(s) <= k
    <3>1. Value(s, base) < Power(base, Len(s))
      BY <1>0, ValueBound, Zenon
    <3>2. PICK q \in Nat : q = Power(base, Len(s))
      BY <1>0, <1>2, PowerNat, Zenon
    <3>3. Power(base, Len(s)) <= Power(base, k)
      BY <1>0, <1>2, <2>1, PowerMonotone, Zenon
    <3>4. n < q /\ q <= p
      BY <1>1, <1>3, <3>1, <3>2, <3>3, Zenon
    <3>5. QED BY <3>4, <1>5
  <2>2. QED BY <2>1, <1>2
<1>6. QED BY <1>1, <1>3, <1>4, <1>5, Zenon

(* Two numerals of one length and value are the same. *)
LEMMA ValueUnique ==
  ASSUME NEW base \in Nat, base > 0
  PROVE  \A s \in Seq(0..base-1) : \A t \in Seq(0..base-1) :
           Len(s) = Len(t) /\ Value(s, base) = Value(t, base) => s = t
<1> DEFINE S == {s \in Seq(0..base-1) : \A t \in Seq(0..base-1) :
                   Len(s) = Len(t) /\ Value(s, base) = Value(t, base) => s = t}
<1>1. <<>> \in S
  <2>1. ASSUME NEW t \in Seq(0..base-1), Len(<<>>) = Len(t) PROVE <<>> = t
    BY <2>1
  <2>2. QED BY <2>1, EmptySeq, Zenon
<1>2. ASSUME NEW s \in Seq(0..base-1), NEW d \in 0..base-1, s \in S PROVE Append(s, d) \in S
  <2>0. Append(s, d) \in Seq(0..base-1)
    OBVIOUS
  <2> SUFFICES ASSUME NEW t \in Seq(0..base-1), Len(Append(s, d)) = Len(t),
                      Value(Append(s, d), base) = Value(t, base)
               PROVE  Append(s, d) = t
    BY <2>0, Zenon
  <2>1. t # <<>>
    OBVIOUS
  <2>2. PICK r \in Seq(0..base-1), c \in 0..base-1 : t = Append(r, c)
    BY <2>1, SequenceEmptyOrAppend, Zenon
  <2>3. Len(s) = Len(r)
    BY <2>2
  <2>4. s \in Seq(Nat) /\ d \in Nat /\ r \in Seq(Nat) /\ c \in Nat
    BY DigitsAreNat, Zenon
  <2>5. PICK x \in Nat, y \in Nat : x = Value(s, base) /\ y = Value(r, base)
    BY <2>4, ValueNat, Zenon
  <2>6. Value(Append(s, d), base) = base * x + d /\ Value(Append(r, c), base) = base * y + c
    BY <2>4, <2>5, ValueAppend
  <2>7. base * x + d = base * y + c
    BY <2>2, <2>6
  <2>8. x = y /\ d = c
    BY <2>7, DivUnique, Zenon
  <2>9. s = r
    BY <1>2, <2>3, <2>5, <2>8, ZenonT(30)
  <2>10. QED BY <2>2, <2>8, <2>9, Zenon
<1>3. \A s \in Seq(0..base-1) : s \in S
  <2> HIDE DEF S
  <2>1. QED BY <1>1, <1>2, SeqInduction, Zenon
<1>4. QED BY <1>3, Zenon

-----------------------------------------------------------------------------
(*                                 Amounts                                 *)

Texts == Seq(Digit \cup {Dot, Other})

LEMMA TenDigits == 10 \in Nat /\ 10 > 1 /\ 10 > 0 /\ Digit = 0..10-1
  BY DEF Digit

LEMMA AllDigitsSeq ==
  ASSUME NEW s \in Texts, AllDigits(s)
  PROVE  s \in Seq(0..10-1) /\ s # <<>>
<1>1. \A i \in 1..Len(s) : s[i] \in Digit
  BY DEF AllDigits, Texts
<1>2. s \in Seq(Digit)
  BY <1>1 DEF Texts
<1>3. QED BY <1>2, TenDigits, Zenon DEF AllDigits

(* What the regular expression lets through. *)
LEMMA Parts ==
  ASSUME NEW text \in Texts, AMOUNT_RE(text)
  PROVE  /\ whole(text) \in Seq(0..10-1) /\ whole(text) # <<>>
         /\ frac(text) \in Seq(0..10-1)
         /\ Len(text) = Len(whole(text)) + (IF frac(text) = <<>> THEN 0 ELSE 1 + Len(frac(text)))
<1>1. CASE Dots(text) = {}
  <2>1. whole(text) = text
    BY <1>1, Zenon DEF whole
  <2>2. frac(text) = <<>>
    BY <2>1 DEF frac, Texts
  <2>3. text \in Seq(0..10-1) /\ text # <<>>
    BY <2>1, AllDigitsSeq DEF AMOUNT_RE
  <2>4. Len(text) \in Nat
    BY DEF Texts
  <2>5. QED BY <2>1, <2>2, <2>3, <2>4, EmptySeq
<1>2. CASE Dots(text) # {}
  <2>1. PICK i \in 1..Len(text) : whole(text) = SubSeq(text, 1, i - 1)
    <3>1. (CHOOSE i \in Dots(text) : TRUE) \in Dots(text)
      BY <1>2, Zenon
    <3>2. Dots(text) \subseteq 1..Len(text)
      BY DEF Dots, Texts
    <3>3. QED BY <1>2, <3>1, <3>2, Zenon DEF whole
  <2>2. whole(text) \in Texts /\ Len(whole(text)) = i - 1
    BY <2>1 DEF Texts
  <2>3. frac(text) = SubSeq(text, i + 1, Len(text))
    BY <2>2 DEF frac
  <2>4. frac(text) \in Texts /\ Len(frac(text)) = Len(text) - i
    BY <2>3 DEF Texts
  <2>5. AllDigits(whole(text)) /\ AllDigits(frac(text))
    BY <2>2 DEF AMOUNT_RE, Texts
  <2>6. /\ whole(text) \in Seq(0..10-1) /\ whole(text) # <<>>
        /\ frac(text) \in Seq(0..10-1) /\ frac(text) # <<>>
    BY <2>2, <2>4, <2>5, AllDigitsSeq, Zenon
  <2>7. Len(text) = Len(whole(text)) + (1 + Len(frac(text)))
    BY <2>2, <2>4 DEF Texts
  <2>8. QED BY <2>6, <2>7, Zenon
<1>3. QED BY <1>1, <1>2, Zenon

(* to_units of an accepted text: the whole part and the padded fraction. *)
LEMMA Units ==
  ASSUME NEW text \in Texts, NEW decimals \in Nat, ~Refused(text, decimals)
  PROVE  \E w \in Nat, f \in Nat, k \in Nat :
           /\ w = int(whole(text)) /\ f = int(frac(text)) /\ decimals = Len(frac(text)) + k
           /\ to_units(text, decimals) = w * Power(10, decimals) + f * Power(10, k)
<1>1. AMOUNT_RE(text) /\ ~(Len(frac(text)) > decimals)
  BY Zenon DEF Refused
<1>2. whole(text) \in Seq(Nat) /\ frac(text) \in Seq(Nat) /\ Len(frac(text)) \in Nat
  BY <1>1, Parts, TenDigits, DigitsAreNat, LenProperties, Zenon
<1>3. PICK k \in Nat : k = decimals - Len(frac(text)) /\ decimals = Len(frac(text)) + k
  <2>1. PICK l \in Nat : l = Len(frac(text)) /\ ~(l > decimals)
    BY <1>1, <1>2, Zenon
  <2>2. PICK k \in Nat : k = decimals - l /\ decimals = l + k
    BY <2>1
  <2>3. QED BY <2>1, <2>2, Zenon
<1>4. int(whole(text)) \in Nat /\ int(frac(text)) \in Nat
  BY <1>2, TenDigits, ValueNat, Zenon DEF int
<1>5. int(frac(text) \o zeros(k)) = int(frac(text)) * Power(10, k)
  BY <1>2, TenDigits, ValuePadRight, Zenon DEF int
<1>6. to_units(text, decimals) = int(whole(text)) * Power(10, decimals) + int(frac(text)) * Power(10, k)
  BY <1>3, <1>5, Zenon DEF to_units
<1>7. QED BY <1>3, <1>4, <1>6, Zenon

LEMMA Exact ==
  ASSUME NEW text \in Texts, NEW decimals \in Nat, ~Refused(text, decimals)
  PROVE  to_units(text, decimals) * Power(10, Len(frac(text))) =
           int(whole(text) \o frac(text)) * Power(10, decimals)
<1>1. PICK w \in Nat, f \in Nat, k \in Nat :
        /\ w = int(whole(text)) /\ f = int(frac(text)) /\ decimals = Len(frac(text)) + k
        /\ to_units(text, decimals) = w * Power(10, decimals) + f * Power(10, k)
  BY Units, Zenon
<1>2. whole(text) \in Seq(Nat) /\ frac(text) \in Seq(Nat) /\ Len(frac(text)) \in Nat
  BY Parts, TenDigits, DigitsAreNat, LenProperties, Zenon DEF Refused
<1>3. PICK p \in Nat, q \in Nat, r \in Nat :
        p = Power(10, decimals) /\ q = Power(10, Len(frac(text))) /\ r = Power(10, k)
  BY <1>2, TenDigits, PowerNat, Zenon
<1>4. p = q * r
  <2>1. Power(10, Len(frac(text)) + k) = Power(10, Len(frac(text))) * Power(10, k)
    BY <1>2, TenDigits, PowerSum, ZenonT(30)
  <2>2. QED BY <1>1, <1>3, <2>1
<1>5. int(whole(text) \o frac(text)) = w * q + f
  BY <1>1, <1>2, <1>3, TenDigits, ValueConcat, Zenon DEF int
<1>6. (w * (q * r) + f * r) * q = (w * q + f) * (q * r)
  OBVIOUS
<1>7. QED BY <1>1, <1>3, <1>4, <1>5, <1>6

(* str(n). *)
LEMMA StrIs ==
  ASSUME NEW n \in Nat
  PROVE  /\ str(n) \in Seq(0..10-1) /\ str(n) # <<>> /\ int(str(n)) = n
         /\ \A k \in Nat : k > 0 /\ n < Power(10, k) => Len(str(n)) <= k
<1>1. CASE n = 0
  <2>1. str(n) = <<0>>
    BY <1>1, Zenon DEF str
  <2>2. <<0>> \in Seq(0..10-1) /\ <<0>> # <<>> /\ Len(<<0>>) = 1
    OBVIOUS
  <2>3. int(<<0>>) = 0
    BY TenDigits, ValueOne, 0 \in Nat, Zenon DEF int
  <2>4. \A k \in Nat : k > 0 => 1 <= k
    OBVIOUS
  <2>5. QED BY <1>1, <2>1, <2>2, <2>3, <2>4, Zenon
<1>2. CASE n # 0
  <2>1. str(n) = Digits(n, 10)
    BY <1>2, Zenon DEF str
  <2>2. Digits(n, 10) \in Seq(0..10-1) /\ Digits(n, 10) # <<>> /\ Value(Digits(n, 10), 10) = n
    BY <1>2, TenDigits, DigitsSpell, Zenon
  <2>3. \A k \in Nat : n < Power(10, k) => Len(Digits(n, 10)) <= k
    BY TenDigits, DigitsLen, Zenon
  <2>4. QED BY <2>1, <2>2, <2>3, Zenon DEF int
<1>3. QED BY <1>1, <1>2, Zenon

(* A text of digits only has no fraction. *)
LEMMA NoDot ==
  ASSUME NEW s \in Seq(0..10-1), s # <<>>
  PROVE  AMOUNT_RE(s) /\ whole(s) = s /\ frac(s) = <<>>
<1>1. \A i \in DOMAIN s : s[i] \in Digit
  BY DEF Digit
<1>2. Dots(s) = {}
  BY <1>1 DEF Dots, Digit, Dot
<1>3. whole(s) = s
  BY <1>2, Zenon DEF whole
<1>4. frac(s) = <<>>
  BY <1>3 DEF frac
<1>5. ~(Len(s) < Len(s))
  OBVIOUS
<1>6. AMOUNT_RE(s)
  BY <1>1, <1>3, <1>5, Zenon DEF AMOUNT_RE, AllDigits
<1>7. QED BY <1>3, <1>4, <1>6

(* A text with one dot between digits falls into the two parts. *)
LEMMA OneDot ==
  ASSUME NEW w \in Seq(0..10-1), w # <<>>, NEW g \in Seq(0..10-1), g # <<>>,
         NEW t, t = w \o <<Dot>> \o g
  PROVE  /\ AMOUNT_RE(t) /\ whole(t) = w /\ frac(t) = g
         /\ Len(t) = Len(w) + 1 + Len(g)
<1>1. t \in Seq(0..11) /\ Len(t) = Len(w) + 1 + Len(g)
  BY DEF Dot
<1>2. /\ \A i \in 1..Len(w) : t[i] = w[i]
      /\ t[Len(w) + 1] = Dot
      /\ \A i \in 1..Len(g) : t[Len(w) + 1 + i] = g[i]
  OBVIOUS
<1>3. /\ \A i \in 1..Len(w) : w[i] \in Digit
      /\ \A i \in 1..Len(g) : g[i] \in Digit
  BY DEF Digit
<1>4. Dots(t) = {Len(w) + 1}
  <2>1. ASSUME NEW i \in 1..Len(t), t[i] = Dot PROVE i = Len(w) + 1
    <3>0. Dot \notin Digit
      BY DEF Dot, Digit
    <3>1. CASE i <= Len(w)
      <4>1. i \in 1..Len(w)
        BY <3>1
      <4>2. QED BY <1>2, <1>3, <2>1, <3>0, <4>1, Zenon
    <3>2. CASE i > Len(w) + 1
      <4>1. PICK j \in 1..Len(g) : i = Len(w) + 1 + j
        <5>1. i - (Len(w) + 1) \in 1..Len(g) /\ i = Len(w) + 1 + (i - (Len(w) + 1))
          BY <1>1, <3>2
        <5>2. QED BY <5>1, Zenon
      <4>2. QED BY <1>2, <1>3, <2>1, <3>0, <4>1, Zenon
    <3>3. QED BY <3>1, <3>2
  <2>2. DOMAIN t = 1..Len(t) /\ Len(w) + 1 \in 1..Len(t)
    BY <1>1
  <2>3. QED BY <1>2, <2>1, <2>2, Zenon DEF Dots
<1>5. (CHOOSE i \in Dots(t) : TRUE) = Len(w) + 1
  BY <1>4, Zenon
<1>6. whole(t) = w
  <2>1. whole(t) = SubSeq(t, 1, (Len(w) + 1) - 1)
    BY <1>4, <1>5, Zenon DEF whole
  <2>2. SubSeq(t, 1, (Len(w) + 1) - 1) = w
    BY <1>1, <1>2
  <2>3. QED BY <2>1, <2>2
<1>7. frac(t) = g
  <2>1. frac(t) = SubSeq(t, Len(w) + 2, Len(t))
    BY <1>6, Zenon DEF frac
  <2>2. SubSeq(t, Len(w) + 2, Len(t)) = g
    BY <1>1, <1>2
  <2>3. QED BY <2>1, <2>2, Zenon
<1>8. AllDigits(w) /\ AllDigits(g)
  BY <1>3 DEF AllDigits
<1>9. QED BY <1>1, <1>6, <1>7, <1>8, Zenon DEF AMOUNT_RE

(* A set of numbers up to n has a greatest one. *)
LEMMA Greatest ==
  \A n \in Nat : \A T \in SUBSET (0..n) : T # {} => \E m \in T : \A y \in T : m >= y
<1> DEFINE S == {n \in Nat : \A T \in SUBSET (0..n) : T # {} => \E m \in T : \A y \in T : m >= y}
<1>1. 0 \in S
  <2> SUFFICES ASSUME NEW T \in SUBSET (0..0), T # {} PROVE \E m \in T : \A y \in T : m >= y
    BY 0 \in Nat, Zenon
  <2>1. \A y \in T : y = 0
    OBVIOUS
  <2>2. PICK m \in T : TRUE
    BY Zenon
  <2>3. QED BY <2>1, <2>2
<1>2. ASSUME NEW n \in Nat, n \in S PROVE n + 1 \in S
  <2> SUFFICES ASSUME NEW T \in SUBSET (0..n + 1), T # {} PROVE \E m \in T : \A y \in T : m >= y
    OBVIOUS
  <2>1. CASE n + 1 \in T
    BY <2>1
  <2>2. CASE n + 1 \notin T
    <3>1. T \in SUBSET (0..n)
      BY <2>2
    <3>2. QED BY <3>1, <1>2, Zenon
  <2>3. QED BY <2>1, <2>2
<1>3. \A n \in Nat : n \in S
  <2> HIDE DEF S
  <2>1. QED BY <1>1, <1>2, SetInduction
<1>4. QED BY <1>3, Zenon

(* rstrip("0"): only zeros are taken off, and all of those at the end. *)
LEMMA Stripped ==
  ASSUME NEW ds \in Seq(0..10-1)
  PROVE  \E m \in 0..Len(ds) :
           /\ rstrip(ds) \in Seq(0..10-1) /\ Len(rstrip(ds)) = m
           /\ m # 0 => ds[m] # 0
           /\ ds = rstrip(ds) \o zeros(Len(ds) - m)
<1> DEFINE T == {0} \cup {i \in DOMAIN ds : ds[i] # 0}
<1>1. T \in SUBSET (0..Len(ds)) /\ T # {} /\ Len(ds) \in Nat
  OBVIOUS
<1>2. PICK m \in T : m = Max(T) /\ \A y \in T : m >= y
  <2> HIDE DEF T
  <2>1. \E m \in T : \A y \in T : m >= y
    BY <1>1, Greatest, Zenon
  <2>2. QED BY <2>1, Zenon DEF Max
<1>3. m \in 0..Len(ds)
  BY <1>1, <1>2, Zenon
<1>4. rstrip(ds) = SubSeq(ds, 1, m)
  BY <1>2, Zenon DEF rstrip
<1>5. SubSeq(ds, 1, m) \in Seq(0..10-1) /\ Len(SubSeq(ds, 1, m)) = m
  BY <1>3
<1>6. m # 0 => ds[m] # 0
  BY <1>2
<1>7. \A i \in m + 1..Len(ds) : ds[i] = 0
  BY <1>2, <1>3
<1>8. ds = SubSeq(ds, 1, m) \o zeros(Len(ds) - m)
  BY <1>3, <1>7 DEF zeros
<1>9. QED BY <1>3, <1>4, <1>5, <1>6, <1>8, Zenon

(* The two parts of an accepted amount: the whole part, and the fraction    *)
(* padded to the decimals.                                                  *)
LEMMA Split ==
  ASSUME NEW text \in Texts, NEW decimals \in Nat, ~Refused(text, decimals)
  PROVE  \E w \in Nat, z \in Seq(0..10-1) :
           /\ w = int(whole(text)) /\ Len(z) = decimals
           /\ int(z) \in Nat /\ int(z) < Power(10, decimals)
           /\ to_units(text, decimals) = Power(10, decimals) * w + int(z)
           /\ \A i \in DOMAIN z : z[i] # 0 => i <= Len(frac(text))
<1>1. AMOUNT_RE(text) /\ ~(Len(frac(text)) > decimals)
  BY Zenon DEF Refused
<1>2. PICK v \in Seq(0..10-1), f \in Seq(0..10-1) : v = whole(text) /\ f = frac(text)
  BY <1>1, Parts, Zenon
<1>3. PICK k \in Nat : k = decimals - Len(f) /\ Len(f) + k = decimals
  <2>1. Len(f) \in Nat /\ ~(Len(f) > decimals)
    BY <1>1, <1>2, LenProperties, Zenon
  <2>2. QED BY <2>1
<1> DEFINE z == f \o zeros(k)
<1>4. z \in Seq(0..10-1) /\ Len(z) = decimals /\ \A i \in DOMAIN z : z[i] # 0 => i <= Len(f)
  BY <1>3 DEF zeros
<1> HIDE DEF z
<1>5. int(v) \in Nat /\ int(z) \in Nat
  BY <1>4, TenDigits, DigitsAreNat, ValueNat, Zenon DEF int
<1>6. int(z) < Power(10, decimals)
  BY <1>4, TenDigits, ValueBound, Zenon DEF int
<1>7. to_units(text, decimals) = int(v) * Power(10, decimals) + int(z)
  BY <1>2, <1>3, Zenon DEF to_units, z
<1>8. PICK p \in Nat, w \in Nat : p = Power(10, decimals) /\ w = int(v)
  BY <1>5, TenDigits, PowerNat, Zenon
<1>9. w * p = p * w
  OBVIOUS
<1>10. to_units(text, decimals) = Power(10, decimals) * w + int(z)
  BY <1>7, <1>8, <1>9, Zenon
<1>11. QED BY <1>2, <1>4, <1>5, <1>6, <1>8, <1>10, Zenon

(* What to_human writes of them. *)
LEMMA Written ==
  ASSUME NEW decimals \in Nat, NEW w \in Nat, NEW z \in Seq(0..10-1), Len(z) = decimals
  PROVE  to_human(Power(10, decimals) * w + int(z), decimals) =
           IF int(z) = 0 THEN str(w) ELSE str(w) \o <<Dot>> \o rstrip(z)
<1>0. PICK units : units = Power(10, decimals) * w + int(z)
  BY Zenon
<1>1. PICK p \in Nat : p = Power(10, decimals) /\ p > 0
  BY TenDigits, PowerNat, Zenon
<1>2. PICK f \in Nat : f = int(z)
  BY TenDigits, DigitsAreNat, ValueNat, Zenon DEF int
<1>3. f < p
  BY <1>1, <1>2, TenDigits, ValueBound, Zenon DEF int
<1>4. units \div p = w /\ units % p = f
  <2>1. f \in 0..p-1
    BY <1>3
  <2>2. units = p * w + f
    BY <1>0, <1>1, <1>2, Zenon
  <2>3. (p * w + f) \div p = w /\ (p * w + f) % p = f
    BY <1>1, <2>1, DivOfSum, Zenon
  <2>4. QED BY <2>2, <2>3
<1>5. to_human(units, decimals) =
        IF f = 0 THEN str(w) ELSE str(w) \o <<Dot>> \o rstrip(zeros(decimals - Len(str(f))) \o str(f))
  BY <1>1, <1>4, Zenon DEF to_human
<1>6. CASE f # 0
  <2>1. str(f) \in Seq(0..10-1) /\ int(str(f)) = f /\ Len(str(f)) \in Nat
    BY StrIs, LenProperties, Zenon
  <2>2. Len(str(f)) <= decimals
    <3>1. str(f) = Digits(f, 10)
      BY <1>6, Zenon DEF str
    <3>2. Len(Digits(f, 10)) <= decimals
      BY <1>1, <1>3, TenDigits, DigitsLen, Zenon
    <3>3. QED BY <3>1, <3>2, Zenon
  <2>3. PICK k \in Nat : k = decimals - Len(str(f)) /\ k + Len(str(f)) = decimals
    BY <2>1, <2>2
  <2> DEFINE y == zeros(k) \o str(f)
  <2>4. y \in Seq(0..10-1) /\ Len(y) = decimals
    BY <2>1, <2>3 DEF zeros
  <2>5. int(y) = f
    BY <2>1, TenDigits, DigitsAreNat, ValuePadLeft, Zenon DEF int
  <2>6. y = z
    <3> HIDE DEF y
    <3>1. QED BY <1>2, <2>4, <2>5, TenDigits, ValueUnique, Zenon DEF int
  <2>7. QED BY <1>0, <1>2, <1>5, <1>6, <2>3, <2>6, Zenon
<1>7. QED BY <1>0, <1>2, <1>5, <1>6, Zenon

(* What to_human writes is accepted, means the same and is not longer. *)
LEMMA Shortest ==
  ASSUME NEW text \in Texts, NEW decimals \in Nat, ~Refused(text, decimals),
         NEW units, units = to_units(text, decimals),
         NEW shown, shown = to_human(units, decimals)
  PROVE  /\ ~Refused(shown, decimals)
         /\ to_units(shown, decimals) = units
         /\ Len(shown) <= Len(text)
         /\ whole(shown) \in Seq(0..10-1) /\ Len(whole(shown)) <= Len(whole(text))
<1>1. PICK w \in Nat, z \in Seq(0..10-1) :
           /\ w = int(whole(text)) /\ Len(z) = decimals
           /\ int(z) \in Nat /\ int(z) < Power(10, decimals)
           /\ to_units(text, decimals) = Power(10, decimals) * w + int(z)
           /\ \A i \in DOMAIN z : z[i] # 0 => i <= Len(frac(text))
  BY Split, Zenon
<1>2. shown = IF int(z) = 0 THEN str(w) ELSE str(w) \o <<Dot>> \o rstrip(z)
  <2>1. units = Power(10, decimals) * w + int(z) /\ Len(z) = decimals
    BY <1>1, Zenon
  <2>2. to_human(Power(10, decimals) * w + int(z), decimals) =
          IF int(z) = 0 THEN str(w) ELSE str(w) \o <<Dot>> \o rstrip(z)
    BY <1>1, Written, Zenon
  <2>3. QED BY <2>1, <2>2
<1>3. PICK u \in Seq(0..10-1) : u = str(w) /\ u # <<>> /\ int(u) = w
  BY StrIs, Zenon
<1>4. /\ Len(whole(text)) \in Nat /\ Len(frac(text)) \in Nat /\ Len(u) <= Len(whole(text))
      /\ Len(text) = Len(whole(text)) + (IF frac(text) = <<>> THEN 0 ELSE 1 + Len(frac(text)))
  <2>1. PICK v \in Seq(0..10-1), f \in Seq(0..10-1) :
          /\ v = whole(text) /\ v # <<>> /\ f = frac(text)
          /\ Len(text) = Len(v) + (IF f = <<>> THEN 0 ELSE 1 + Len(f))
    BY Parts, Zenon DEF Refused
  <2>2. Len(v) \in Nat /\ Len(f) \in Nat /\ Len(v) > 0
    BY <2>1
  <2>3. w < Power(10, Len(v))
    BY <1>1, <2>1, TenDigits, ValueBound, Zenon DEF int
  <2>4. Len(str(w)) <= Len(v)
    BY <2>2, <2>3, StrIs, Zenon
  <2>5. QED BY <1>3, <2>1, <2>2, <2>4, Zenon
<1>5. PICK p \in Nat, l \in Nat : p = Power(10, decimals) /\ p * w = w * p /\ l = Len(u)
  <2>1. PICK p \in Nat : p = Power(10, decimals)
    BY TenDigits, PowerNat, Zenon
  <2>2. p * w = w * p
    OBVIOUS
  <2>3. QED BY <2>1, <2>2, LenProperties, Zenon
<1>6. CASE int(z) = 0
  <2>1. shown = u
    BY <1>2, <1>3, <1>6, Zenon
  <2>2. AMOUNT_RE(u) /\ whole(u) = u /\ frac(u) = <<>>
    BY <1>3, NoDot, Zenon
  <2>3. Len(<<>>) = 0 /\ <<>> \in Seq(Nat) /\ ~(0 > decimals) /\ decimals - 0 = decimals
    OBVIOUS
  <2>4. ~Refused(u, decimals)
    BY <2>2, <2>3, Zenon DEF Refused
  <2>5. to_units(u, decimals) = int(u) * Power(10, decimals) + int(<<>> \o zeros(decimals))
    BY <2>2, <2>3, Zenon DEF to_units
  <2>6. int(<<>> \o zeros(decimals)) = 0
    <3>1. <<>> \o zeros(decimals) = zeros(decimals)
      BY ZerosAre
    <3>2. QED BY <3>1, TenDigits, ValueZeros, Zenon DEF int
  <2>7. to_units(u, decimals) = units
    BY <1>1, <1>3, <1>5, <1>6, <2>5, <2>6, Zenon
  <2>8. Len(u) <= Len(text)
    BY <1>4, <1>5
  <2>9. QED BY <1>4, <2>1, <2>2, <2>4, <2>7, <2>8, Zenon
<1>7. CASE int(z) # 0
  <2>1. PICK m \in 0..Len(z) :
          /\ rstrip(z) \in Seq(0..10-1) /\ Len(rstrip(z)) = m
          /\ m # 0 => z[m] # 0
          /\ z = rstrip(z) \o zeros(Len(z) - m)
    BY Stripped, Zenon
  <2>2. PICK g \in Seq(0..10-1) : g = rstrip(z) /\ Len(g) = m /\ z = g \o zeros(decimals - m)
    BY <1>1, <2>1, Zenon
  <2>3. m # 0
    <3>1. ASSUME m = 0 PROVE FALSE
      <4>1. g = <<>> /\ decimals - m = decimals
        BY <2>2, <3>1
      <4>2. z = zeros(decimals)
        BY <2>2, <4>1, ZerosAre, ConcatEmptySeq, Zenon
      <4>3. QED BY <1>7, <4>2, TenDigits, ValueZeros, Zenon DEF int
    <3>2. QED BY <3>1
  <2>4. g # <<>> /\ m \in DOMAIN z /\ m \in Nat /\ m <= decimals
    BY <1>1, <2>2, <2>3
  <2>5. m <= Len(frac(text))
    BY <1>1, <2>1, <2>3, <2>4, Zenon
  <2>6. shown = u \o <<Dot>> \o g
    BY <1>2, <1>3, <1>7, <2>2, Zenon
  <2>7. AMOUNT_RE(shown) /\ whole(shown) = u /\ frac(shown) = g /\ Len(shown) = Len(u) + 1 + Len(g)
    BY <1>3, <2>4, <2>6, OneDot, Zenon
  <2>8. ~Refused(shown, decimals)
    <3>1. ~(m > decimals)
      BY <2>4
    <3>2. QED BY <2>2, <2>7, <3>1, Zenon DEF Refused
  <2>9. to_units(shown, decimals) = units
    <3>1. to_units(shown, decimals) = int(u) * Power(10, decimals) + int(z)
      BY <2>2, <2>7, Zenon DEF to_units
    <3>2. QED BY <1>1, <1>3, <1>5, <3>1, Zenon
  <2>10. Len(shown) <= Len(text)
    <3>1. frac(text) # <<>>
      BY <2>3, <2>4, <2>5
    <3>2. PICK a \in Nat, b \in Nat :
            /\ a = Len(whole(text)) /\ b = Len(frac(text)) /\ Len(text) = a + (1 + b)
            /\ l <= a /\ m <= b
      BY <1>4, <1>5, <2>5, <3>1, Zenon
    <3>3. Len(shown) = l + 1 + m
      BY <1>5, <2>2, <2>7, Zenon
    <3>4. l + 1 + m <= a + (1 + b)
      BY <2>4, <3>2
    <3>5. QED BY <3>2, <3>3, <3>4, Zenon
  <2>11. QED BY <1>4, <2>7, <2>8, <2>9, <2>10, Zenon
<1>8. QED BY <1>6, <1>7

-----------------------------------------------------------------------------
(*                                Addresses                                *)

(* Every numeral is some zeros and a numeral without a leading zero, ...    *)
LEMMA Peeled ==
  ASSUME NEW base \in Nat, base > 0
  PROVE  \A ds \in Seq(0..base-1) : \E k \in Nat, r \in Seq(0..base-1) : Tidy(r) /\ ds = zeros(k) \o r
<1> DEFINE S == {ds \in Seq(0..base-1) : \E k \in Nat, r \in Seq(0..base-1) : Tidy(r) /\ ds = zeros(k) \o r}
<1>1. <<>> \in S
  <2>1. zeros(0) \o <<>> = <<>> /\ <<>> \in Seq(0..base-1) /\ 0 \in Nat
    BY DEF zeros
  <2>2. QED BY <2>1, Zenon DEF Tidy
<1>2. ASSUME NEW ds \in Seq(0..base-1), NEW d \in 0..base-1, ds \in S PROVE Append(ds, d) \in S
  <2>0. Append(ds, d) \in Seq(0..base-1)
    OBVIOUS
  <2>1. PICK k \in Nat, r \in Seq(0..base-1) : Tidy(r) /\ ds = zeros(k) \o r
    BY <1>2, Zenon
  <2>2. CASE r = <<>> /\ d = 0
    <3>1. Append(ds, d) = zeros(k + 1) \o <<>> /\ <<>> \in Seq(0..base-1) /\ k + 1 \in Nat
      BY <2>1, <2>2 DEF zeros
    <3>2. QED BY <2>0, <3>1, Zenon DEF Tidy
  <2>3. CASE ~(r = <<>> /\ d = 0)
    <3>1. zeros(k) \in Seq(Nat)
      BY ZerosAre, Zenon
    <3>2. Append(ds, d) = zeros(k) \o Append(r, d) /\ Append(r, d) \in Seq(0..base-1)
      BY <2>1, <3>1
    <3>3. Tidy(Append(r, d))
      BY <2>1, <2>3, TidyAppend, Zenon
    <3>4. QED BY <2>0, <3>2, <3>3, Zenon
  <2>4. QED BY <2>2, <2>3, Zenon
<1>3. \A ds \in Seq(0..base-1) : ds \in S
  <2> HIDE DEF S
  <2>1. QED BY <1>1, <1>2, SeqInduction, Zenon
<1>4. QED BY <1>3, Zenon

(* ... and those zeros are what lstrip takes away. *)
LEMMA LeadingIs ==
  ASSUME NEW k \in Nat, NEW r \in Seq(Nat), Tidy(r), NEW ds, ds = zeros(k) \o r
  PROVE  Leading(ds) = zeros(k)
<1> DEFINE P(n) == (\A i \in 1..n : ds[i] = 0) /\ (n < Len(ds) => ds[n + 1] # 0)
<1>1. /\ Len(ds) = k + Len(r) /\ Len(r) \in Nat
      /\ \A i \in 1..k : ds[i] = 0
      /\ \A i \in 1..Len(r) : ds[k + i] = r[i]
  BY DEF zeros
<1>2. Len(r) > 0 => ds[k + 1] # 0
  <2>1. ASSUME Len(r) > 0 PROVE r # <<>> /\ 1 \in 1..Len(r)
    BY <2>1
  <2>2. QED BY <1>1, <2>1, Zenon DEF Tidy
<1>3. k \in 0..Len(ds) /\ P(k)
  BY <1>1, <1>2
<1>4. ASSUME NEW n \in 0..Len(ds), P(n) PROVE n = k
  <2>1. CASE n < k
    <3>1. n + 1 \in 1..k /\ n < Len(ds)
      BY <1>1, <2>1
    <3>2. QED BY <1>1, <1>4, <3>1
  <2>2. CASE n > k
    <3>1. k + 1 \in 1..n /\ Len(r) > 0
      BY <1>1, <2>2
    <3>2. QED BY <1>2, <1>4, <3>1
  <2>3. QED BY <2>1, <2>2
<1>5. (CHOOSE n \in 0..Len(ds) : P(n)) = k
  <2> HIDE DEF P
  <2>1. QED BY <1>3, <1>4, Zenon
<1>6. QED BY <1>5, Zenon DEF Leading

(* The numeral ds of base a in base b, with as many leading zeros. *)
Recode(ds, a, b) == Leading(ds) \o Digits(Value(ds, a), b)

LEMMA ThereAndBack ==
  ASSUME NEW a \in Nat, a > 1, NEW b \in Nat, b > 1, NEW ds \in Seq(0..a-1)
  PROVE  Recode(ds, a, b) \in Seq(0..b-1) /\ Recode(Recode(ds, a, b), b, a) = ds
<1>0. PICK t : t = Recode(ds, a, b)
  BY Zenon
<1>1. a > 0 /\ b > 0
  OBVIOUS
<1>2. PICK k \in Nat, r \in Seq(0..a-1) : Tidy(r) /\ ds = zeros(k) \o r
  BY <1>1, Peeled, Zenon
<1>3. r \in Seq(Nat)
  BY DigitsAreNat, Zenon
<1>4. PICK x \in Nat : x = Value(ds, a) /\ x = Value(r, a)
  BY <1>1, <1>2, <1>3, ValuePadLeft, ValueNat, Zenon
<1>5. PICK e \in Seq(0..b-1) : e = Digits(x, b) /\ Value(e, b) = x /\ Tidy(e)
  BY DigitsSpell, Zenon
<1>6. e \in Seq(Nat)
  BY DigitsAreNat, Zenon
<1>7. Leading(ds) = zeros(k)
  BY <1>2, <1>3, LeadingIs, Zenon
<1>8. t = zeros(k) \o e
  BY <1>0, <1>4, <1>5, <1>7, Zenon DEF Recode
<1>9. t \in Seq(0..b-1)
  BY <1>1, <1>8 DEF zeros
<1>10. Leading(t) = zeros(k)
  BY <1>5, <1>6, <1>8, LeadingIs, Zenon
<1>11. Value(t, b) = x
  <2>1. Value(zeros(k) \o e, b) = Value(e, b)
    BY <1>1, <1>6, ValuePadLeft, Zenon
  <2>2. QED BY <1>5, <1>8, <2>1
<1>12. Digits(x, a) = r
  BY <1>2, <1>4, DigitsOfValue, Zenon
<1>13. Recode(t, b, a) = ds
  BY <1>2, <1>10, <1>11, <1>12, Zenon DEF Recode
<1>14. QED BY <1>0, <1>9, <1>13, Zenon

LEMMA Bases == 256 \in Nat /\ 256 > 1 /\ 256 > 0 /\ 58 \in Nat /\ 58 > 1 /\ 58 > 0
  OBVIOUS

LEMMA BaseDigits == 0..255 = 0..256-1 /\ 0..57 = 0..58-1
  OBVIOUS

(* Base58 loses nothing, in either direction. *)
LEMMA EncodeDecode ==
  ASSUME NEW raw \in Seq(0..255)
  PROVE  b58encode(raw) \in Seq(0..57) /\ b58decode(b58encode(raw)) = raw
<1>1. PICK a \in Nat, b \in Nat : a = 256 /\ b = 58 /\ a > 1 /\ b > 1
  OBVIOUS
<1>2. Recode(raw, a, b) \in Seq(0..b-1) /\ Recode(Recode(raw, a, b), b, a) = raw
  <2>1. a > 1 /\ b > 1 /\ raw \in Seq(0..a-1)
    BY <1>1
  <2>2. QED BY <2>1, ThereAndBack, Zenon
<1>3. b58encode(raw) = Recode(raw, 256, 58) /\ b58decode(b58encode(raw)) = Recode(b58encode(raw), 58, 256)
  BY Zenon DEF b58encode, b58decode, digits58, to_bytes, Recode
<1>4. QED BY <1>1, <1>2, <1>3

LEMMA DecodeEncode ==
  ASSUME NEW s \in Seq(0..57)
  PROVE  b58decode(s) \in Seq(0..255) /\ b58encode(b58decode(s)) = s
<1>1. PICK a \in Nat, b \in Nat : a = 58 /\ b = 256 /\ a > 1 /\ b > 1
  OBVIOUS
<1>2. Recode(s, a, b) \in Seq(0..b-1) /\ Recode(Recode(s, a, b), b, a) = s
  <2>1. a > 1 /\ b > 1 /\ s \in Seq(0..a-1)
    BY <1>1
  <2>2. QED BY <2>1, ThereAndBack, Zenon
<1>3. b58decode(s) = Recode(s, 58, 256) /\ b58encode(b58decode(s)) = Recode(b58decode(s), 256, 58)
  BY Zenon DEF b58encode, b58decode, digits58, to_bytes, Recode
<1>4. QED BY <1>1, <1>2, <1>3

(* Taking three pieces apart, and putting them together. *)
Pieces(raw, v, who, c, B) ==
  /\ raw \in Seq(B) /\ raw # <<>> /\ raw[1] = v
  /\ Len(raw) = 1 + Len(who) + Len(c)
  /\ SubSeq(raw, 1, Len(who) + 1) = <<v>> \o who
  /\ SubSeq(raw, Len(who) + 2, Len(raw)) = c
  /\ raw = <<v>> \o (who \o c) /\ who \o c \in Seq(B) /\ Len(who \o c) = Len(who) + Len(c)

LEMMA Cut ==
  ASSUME NEW B, NEW v \in B, NEW who \in Seq(B), NEW c \in Seq(B)
  PROVE  Pieces((<<v>> \o who) \o c, v, who, c, B)
<1>0. PICK raw : raw = (<<v>> \o who) \o c
  BY Zenon
<1>1. /\ raw \in Seq(B) /\ raw # <<>> /\ raw[1] = v
      /\ Len(raw) = 1 + Len(who) + Len(c)
  BY <1>0
<1>2. SubSeq(raw, 1, Len(who) + 1) = <<v>> \o who
  BY <1>0
<1>3. SubSeq(raw, Len(who) + 2, Len(raw)) = c
  BY <1>0
<1>4. raw = <<v>> \o (who \o c) /\ who \o c \in Seq(B) /\ Len(who \o c) = Len(who) + Len(c)
  BY <1>0
<1>5. Pieces(raw, v, who, c, B)
  BY <1>1, <1>2, <1>3, <1>4, Zenon DEF Pieces
<1>6. QED BY <1>0, <1>5, Zenon

LEMMA Paste ==
  ASSUME NEW B, NEW raw \in Seq(B), NEW n \in Nat, n + 1 <= Len(raw)
  PROVE  /\ SubSeq(raw, 1, n + 1) = <<raw[1]>> \o SubSeq(raw, 2, n + 1)
         /\ raw = SubSeq(raw, 1, n + 1) \o SubSeq(raw, n + 2, Len(raw))
<1>1. SubSeq(raw, 1, n + 1) = <<raw[1]>> \o SubSeq(raw, 2, n + 1)
  OBVIOUS
<1>2. raw = SubSeq(raw, 1, n + 1) \o SubSeq(raw, n + 2, Len(raw))
  <2>1. PICK k \in 0..Len(raw) : k = n + 1 /\ k + 1 = n + 2
    OBVIOUS
  <2>2. 1 \in 1..Len(raw) + 1 /\ k \in 1 - 1..Len(raw) /\ Len(raw) \in k..Len(raw)
    BY <2>1
  <2>3. SubSeq(raw, 1, k) \o SubSeq(raw, k + 1, Len(raw)) = SubSeq(raw, 1, Len(raw))
    BY <2>2, ConcatAdjacentSubSeq, Zenon
  <2>4. QED BY <2>1, <2>3, SubSeqFull, Zenon
<1>3. QED BY <1>1, <1>2, Zenon

LEMMA Bytes ==
  ASSUME NEW n \in Nat, NEW f \in [1..n -> 0..255]
  PROVE  f \in Seq(0..255) /\ Len(f) = n
  OBVIOUS

(* What from_payload hashes and encodes. *)
payloadOf(who) == <<Version>> \o who
rawOf(who)     == payloadOf(who) \o checksum(payloadOf(who))

LEMMA RawBytes ==
  ASSUME NEW who \in Accounts
  PROVE  /\ rawOf(who) \in Seq(0..255) /\ rawOf(who) # <<>> /\ rawOf(who)[1] = Version
         /\ Len(rawOf(who)) = 1 + BodyLen + CheckLen
         /\ payload_of(rawOf(who)) = payloadOf(who)
         /\ SubSeq(rawOf(who), BodyLen + 2, Len(rawOf(who))) = checksum(payloadOf(who))
         /\ \E ds \in Seq(0..255) : rawOf(who) = <<Version>> \o ds /\ Len(ds) = BodyLen + CheckLen
<1>1. BodyLen \in Nat /\ CheckLen \in Nat
  BY AddressAssumption, Zenon
<1>2. Version \in 0..255
  <2>1. Version \in 1..255
    BY AddressAssumption, Zenon
  <2>2. QED BY <2>1
<1>3. who \in Seq(0..255) /\ Len(who) = BodyLen
  BY <1>1, Bytes, Zenon DEF Accounts
<1>4. PICK c \in Seq(0..255) : c = checksum(payloadOf(who)) /\ Len(c) = CheckLen
  <2>1. checksum(payloadOf(who)) \in [1..CheckLen -> 0..255]
    BY AddressAssumption, Zenon DEF payloadOf
  <2>2. QED BY <1>1, <2>1, Bytes, Zenon
<1>5. Pieces(rawOf(who), Version, who, c, 0..255)
  <2>1. Pieces((<<Version>> \o who) \o c, Version, who, c, 0..255)
    BY <1>2, <1>3, Cut, Zenon
  <2>2. QED BY <1>4, <2>1, Zenon DEF payloadOf, rawOf
<1>6. QED BY <1>3, <1>4, <1>5, Zenon DEF Pieces, payload_of, payloadOf

(* How many characters it takes. *)
LEMMA AddressLen ==
  ASSUME AddressesFit, NEW ds \in Seq(0..255), Len(ds) = BodyLen + CheckLen,
         NEW raw, raw = <<Version>> \o ds
  PROVE  Len(b58encode(raw)) \in MinChars..MaxChars
<1>1. Version \in Nat /\ Version > 0 /\ MinChars \in Nat /\ MaxChars \in Nat /\ Len(ds) \in Nat
  BY AddressAssumption
<1>2. ds \in Seq(Nat) /\ ds \in Seq(0..256-1)
  <2>1. 0..255 \subseteq Nat
    OBVIOUS
  <2>2. ds \in Seq(Nat)
    BY <2>1, SeqMonotonic, Zenon
  <2>3. QED BY <2>2, BaseDigits
<1>3. PICK p \in Nat, x \in Nat : p = Power(256, Len(ds)) /\ x = Value(ds, 256)
  BY <1>1, <1>2, Bases, PowerNat, ValueNat, Zenon
<1>4. x < p
  <2>1. Value(ds, 256) < Power(256, Len(ds))
    BY <1>2, Bases, ValueBound, Zenon
  <2>2. QED BY <1>3, <2>1
<1>5. PICK n \in Nat : n = Value(raw, 256) /\ n = Version * p + x
  <2>1. Value(<<Version>> \o ds, 256) = Version * Power(256, Len(ds)) + Value(ds, 256)
    BY <1>1, <1>2, ValueFirst
  <2>2. Version * p + x \in Nat
    BY <1>1
  <2>3. QED BY <1>3, <2>1, <2>2
<1>6. Version * p <= n /\ n < (Version + 1) * p
  <2>1. (Version + 1) * p = Version * p + p
    BY <1>1
  <2>2. PICK y \in Nat : y = Version * p
    BY <1>1
  <2>3. QED BY <1>4, <1>5, <2>1, <2>2
<1>7. b58encode(raw) = Digits(n, 58)
  <2>1. raw \in Seq(Nat) /\ raw # <<>> /\ raw[1] # 0 /\ raw = zeros(0) \o raw
    BY <1>1, <1>2 DEF zeros
  <2>2. Leading(raw) = zeros(0)
    BY <2>1, LeadingIs, 0 \in Nat, Zenon DEF Tidy
  <2>3. Digits(n, 58) \in Seq(0..58-1)
    BY Bases, DigitsSpell, Zenon
  <2>4. zeros(0) \o Digits(n, 58) = Digits(n, 58)
    BY <2>3 DEF zeros
  <2>5. QED BY <1>5, <2>2, <2>4, Zenon DEF b58encode, digits58
<1>8. PICK l \in Nat : l = Len(Digits(n, 58))
  BY Bases, DigitsSpell, LenProperties, Zenon
<1>9. l <= MaxChars
  <2>1. PICK q \in Nat : q = Power(58, MaxChars)
    BY <1>1, Bases, PowerNat, Zenon
  <2>2. (Version + 1) * p <= q
    BY <1>3, <2>1, Zenon DEF AddressesFit
  <2>3. PICK y \in Nat : y = (Version + 1) * p
    BY <1>1
  <2>4. n < q
    BY <1>6, <2>2, <2>3
  <2>5. QED BY <1>1, <1>8, <2>1, <2>4, Bases, DigitsLen, Zenon
<1>10. MinChars <= l
  <2>1. CASE MinChars = 0
    BY <2>1
  <2>2. CASE MinChars # 0
    <3>1. PICK k \in Nat : k = MinChars - 1 /\ MinChars = k + 1
      BY <1>1, <2>2
    <3>2. PICK q \in Nat : q = Power(58, k)
      BY Bases, PowerNat, Zenon
    <3>3. q <= Version * p
      BY <1>3, <3>1, <3>2, Zenon DEF AddressesFit
    <3>4. PICK y \in Nat : y = Version * p
      BY <1>1
    <3>5. n >= q
      BY <1>6, <3>3, <3>4
    <3>6. l > k
      BY <1>8, <3>2, <3>5, Bases, DigitsLen, Zenon
    <3>7. QED BY <3>1, <3>6
  <2>3. QED BY <2>1, <2>2
<1>11. QED BY <1>1, <1>7, <1>8, <1>9, <1>10

LEMMA Base58Chars ==
  ASSUME NEW s \in Seq(0..57)
  PROVE  \A i \in DOMAIN s : s[i] # NotBase58
<1>1. \A i \in 1..Len(s) : s[i] \in 0..57
  BY ElementOfSeq
<1>2. DOMAIN s = 1..Len(s) /\ NotBase58 \notin 0..57
  BY DEF NotBase58
<1>3. QED BY <1>1, <1>2, Zenon

(* Every account has an address that is_valid accepts. *)
LEMMA AddressIsValid ==
  ASSUME AddressesFit, NEW who \in Accounts
  PROVE  from_payload(who) \in Seq(0..57) /\ is_valid(from_payload(who))
<1>1. PICK payload, raw : payload = payloadOf(who) /\ raw = rawOf(who)
  BY Zenon
<1>3. /\ raw \in Seq(0..255) /\ raw # <<>> /\ raw[1] = Version
      /\ Len(raw) = 1 + BodyLen + CheckLen
      /\ payload_of(raw) = payload
      /\ SubSeq(raw, BodyLen + 2, Len(raw)) = checksum(payload)
      /\ \E ds \in Seq(0..255) : raw = <<Version>> \o ds /\ Len(ds) = BodyLen + CheckLen
  BY <1>1, RawBytes, ZenonT(30)
<1>4. PICK s \in Seq(0..57) : s = b58encode(raw) /\ b58decode(s) = raw
  BY <1>3, EncodeDecode, Zenon
<1>5. from_payload(who) = s
  BY <1>1, <1>4, Zenon DEF from_payload, rawOf, payloadOf
<1>6. Len(s) \in MinChars..MaxChars
  BY <1>3, <1>4, AddressLen, Zenon
<1>7. \A i \in DOMAIN s : s[i] # NotBase58
  BY Base58Chars, Zenon
<1>8. is_valid(s)
  BY <1>3, <1>4, <1>6, <1>7, Zenon DEF is_valid
<1>9. QED BY <1>5, <1>8, Zenon

(* A sequence is one over any set that holds its elements. *)
LEMMA SeqInto ==
  ASSUME NEW S, NEW T, NEW s \in Seq(S), \A i \in 1..Len(s) : s[i] \in T
  PROVE  s \in Seq(T)
  OBVIOUS

(* A text that is_valid accepts is the address of the account in it. *)
THEOREM OneText ==
  ASSUME NEW s \in Seq(0..NotBase58), is_valid(s)
  PROVE  s = from_payload(SubSeq(b58decode(s), 2, BodyLen + 1))
<1>1. s \in Seq(0..57)
  <2>1. \A i \in 1..Len(s) : s[i] \in 0..58 /\ s[i] # 58
    <3>1. \A i \in 1..Len(s) : s[i] \in 0..58
      BY ElementOfSeq DEF NotBase58
    <3>2. \A i \in DOMAIN s : s[i] # 58
      BY Zenon DEF is_valid, NotBase58
    <3>3. DOMAIN s = 1..Len(s)
      OBVIOUS
    <3>4. QED BY <3>1, <3>2, <3>3, Zenon
  <2>2. \A i \in 1..Len(s) : s[i] \in 0..57
    BY <2>1
  <2>3. QED BY <2>2, SeqInto, Zenon
<1>2. PICK raw \in Seq(0..255) : raw = b58decode(s) /\ b58encode(raw) = s
  BY <1>1, DecodeEncode, Zenon
<1>3. /\ Len(raw) = 1 + BodyLen + CheckLen /\ raw[1] = Version
      /\ checksum(payload_of(raw)) = SubSeq(raw, BodyLen + 2, Len(raw))
  BY <1>2, Zenon DEF is_valid
<1>4. BodyLen \in Nat /\ CheckLen \in Nat
  BY AddressAssumption, Zenon
<1>5. BodyLen + 1 <= Len(raw)
  BY <1>3, <1>4
<1>6. /\ SubSeq(raw, 1, BodyLen + 1) = <<raw[1]>> \o SubSeq(raw, 2, BodyLen + 1)
      /\ raw = SubSeq(raw, 1, BodyLen + 1) \o SubSeq(raw, BodyLen + 2, Len(raw))
  BY <1>4, <1>5, Paste, Zenon
<1>7. PICK who : who = SubSeq(raw, 2, BodyLen + 1)
  BY Zenon
<1>8. payload_of(raw) = payloadOf(who)
  BY <1>3, <1>6, <1>7, Zenon DEF payload_of, payloadOf
<1>9. raw = payload_of(raw) \o checksum(payload_of(raw))
  BY <1>3, <1>6, Zenon DEF payload_of
<1>10. from_payload(who) = b58encode(raw)
  BY <1>8, <1>9, Zenon DEF from_payload, payloadOf
<1>11. QED BY <1>2, <1>7, <1>10, Zenon

LEMMA PowerSteps ==
  ASSUME NEW base \in Nat, NEW n \in Nat
  PROVE  /\ Power(base, n + 2) = base * (base * Power(base, n))
         /\ Power(base, n + 3) = base * (base * (base * Power(base, n)))
         /\ Power(base, n + 4) = base * (base * (base * (base * Power(base, n))))
<1>1. /\ n + 1 \in Nat /\ n + 2 \in Nat /\ n + 3 \in Nat
      /\ (n + 1) + 1 = n + 2 /\ (n + 2) + 1 = n + 3 /\ (n + 3) + 1 = n + 4
  OBVIOUS
<1>2. Power(base, n + 2) = base * (base * Power(base, n))
  BY <1>1, PowerStep, Zenon
<1>3. Power(base, n + 3) = base * Power(base, n + 2)
  BY <1>1, PowerStep, Zenon
<1>4. Power(base, n + 4) = base * Power(base, n + 3)
  BY <1>1, PowerStep, Zenon
<1>5. QED BY <1>2, <1>3, <1>4, Zenon

(* 58 ** 4 < 256 ** 3 and 256 ** 2 < 58 ** 3, and so for multiples. *)
LEMMA PowersCompared ==
  \A k \in Nat : Power(58, 4 * k) <= Power(256, 3 * k) /\ Power(256, 2 * k) <= Power(58, 3 * k)
<1>1. PICK p \in Nat, q \in Nat : p = 58 /\ q = 256
  OBVIOUS
<1>2. p > 0 /\ q > 0
  BY <1>1
<1> DEFINE S == {k \in Nat : Power(p, 4 * k) <= Power(q, 3 * k) /\ Power(q, 2 * k) <= Power(p, 3 * k)}
<1>3. 0 \in S
  <2>1. 4 * 0 = 0 /\ 3 * 0 = 0 /\ 2 * 0 = 0 /\ 1 <= 1
    OBVIOUS
  <2>2. Power(p, 0) = 1 /\ Power(q, 0) = 1
    BY PowerZero, Zenon
  <2>3. QED BY <2>1, <2>2
<1>4. ASSUME NEW k \in Nat, k \in S PROVE k + 1 \in S
  <2>1. PICK x \in Nat, y \in Nat, z \in Nat : x = 4 * k /\ y = 3 * k /\ z = 2 * k
    OBVIOUS
  <2>2. PICK a \in Nat, b \in Nat, c \in Nat, d \in Nat :
          a = Power(p, x) /\ b = Power(q, y) /\ c = Power(q, z) /\ d = Power(p, y)
    BY <1>2, PowerNat, Zenon
  <2>3. a <= b /\ c <= d
    BY <1>4, <2>1, <2>2
  <2>4. Power(p, x + 4) = p * (p * (p * (p * Power(p, x))))
    BY PowerSteps, Zenon
  <2>5. Power(q, y + 3) = q * (q * (q * Power(q, y)))
    BY PowerSteps, Zenon
  <2>6. Power(q, z + 2) = q * (q * Power(q, z))
    BY PowerSteps, Zenon
  <2>7. Power(p, y + 3) = p * (p * (p * Power(p, y)))
    BY PowerSteps, Zenon
  <2>8. 4 * (k + 1) = x + 4 /\ 3 * (k + 1) = y + 3 /\ 2 * (k + 1) = z + 2
    BY <2>1
  <2>9. p * (p * (p * (p * a))) <= q * (q * (q * b)) /\ q * (q * c) <= p * (p * (p * d))
    BY <1>1, <2>3
  <2>10. Power(p, x + 4) <= Power(q, y + 3) /\ Power(q, z + 2) <= Power(p, y + 3)
    BY <2>2, <2>4, <2>5, <2>6, <2>7, <2>9
  <2>11. QED BY <2>8, <2>10
<1>5. \A k \in Nat : k \in S
  <2> HIDE DEF S
  <2>1. QED BY <1>3, <1>4, SetInduction
<1>6. QED BY <1>1, <1>5

(* The lengths in the code: 20 and 4 bytes after 0x41, in 30 to 40          *)
(* characters.                                                              *)
THEOREM CodeLengthsFit ==
  ASSUME BodyLen = 20, CheckLen = 4, Version = 65, MinChars = 30, MaxChars = 40
  PROVE  AddressesFit
<1>1. Power(58, 4 * 7) <= Power(256, 3 * 7) /\ Power(256, 2 * 12) <= Power(58, 3 * 12)
  BY PowersCompared, 7 \in Nat, 12 \in Nat, Zenon
<1>2. PICK a \in Nat, b \in Nat, c \in Nat, d \in Nat :
        a = Power(58, 28) /\ b = Power(256, 21) /\ c = Power(256, 24) /\ d = Power(58, 36)
  BY Bases, PowerNat, 28 \in Nat, 21 \in Nat, 24 \in Nat, 36 \in Nat, ZenonT(30)
<1>3. a <= b /\ c <= d
  BY <1>1, <1>2
<1>4. Power(58, 29) = 58 * a
  <2>1. Power(58, 28 + 1) = 58 * Power(58, 28)
    BY Bases, PowerStep, 28 \in Nat, Zenon
  <2>2. QED BY <1>2, <2>1
<1>5. b <= c
  <2>1. Power(256, 21) <= Power(256, 24)
    BY PowerMonotone
  <2>2. QED BY <1>2, <2>1, Zenon
<1>6. Power(58, 38) = 3364 * d
  <2>1. Power(58, 36 + 1) = 58 * Power(58, 36) /\ Power(58, 37 + 1) = 58 * Power(58, 37)
    BY Bases, PowerStep, 36 \in Nat, 37 \in Nat, Zenon
  <2>2. QED BY <1>2, <2>1
<1>7. Power(58, 38) <= Power(58, 40)
  BY PowerMonotone
<1>8. PICK e \in Nat : e = Power(58, 40)
  BY Bases, PowerNat, 40 \in Nat, Zenon
<1>9. 58 * a <= 65 * c /\ (65 + 1) * c <= e
  BY <1>3, <1>5, <1>6, <1>7, <1>8
<1>10. MinChars - 1 = 29 /\ BodyLen + CheckLen = 24
  OBVIOUS
<1>11. QED BY <1>2, <1>4, <1>8, <1>9, <1>10, ZenonT(30) DEF AddressesFit

-----------------------------------------------------------------------------
(*                                 The form                                *)

(* A text with one character changed, added or dropped is a text. *)
LEMMA EditsAreTexts ==
  ASSUME NEW s \in Seq(0..NotBase58), NEW t \in Edits(s)
  PROVE  t \in Seq(0..NotBase58)
<1>1. PICK C : C = 0..NotBase58
  BY Zenon
<1>2. s \in Seq(C)
  BY <1>1, Zenon
<1>3. Len(s) \in Nat /\ DOMAIN s = 1..Len(s)
  BY <1>2, LenProperties, Zenon
<1>4. ASSUME NEW m \in Nat, NEW n \in Nat, m > 0, n <= Len(s)
      PROVE  SubSeq(s, m, n) \in Seq(C)
  BY <1>2, <1>3, <1>4
<1>5. ASSUME NEW i \in 1..Len(s), NEW c \in C PROVE Replaced(s, i, c) \in Seq(C)
  BY <1>2, ExceptSeq, Zenon DEF Replaced
<1>6. ASSUME NEW i \in 0..Len(s), NEW c \in C PROVE Added(s, i, c) \in Seq(C)
  <2>1. i \in Nat /\ i <= Len(s) /\ i + 1 \in Nat /\ i + 1 > 0 /\ 1 \in Nat /\ 1 > 0 /\ Len(s) <= Len(s)
    BY <1>3
  <2>2. SubSeq(s, 1, i) \in Seq(C) /\ SubSeq(s, i + 1, Len(s)) \in Seq(C)
    BY <1>3, <1>4, <2>1, Zenon
  <2>3. <<c>> \in Seq(C)
    OBVIOUS
  <2>4. QED BY <2>2, <2>3, ConcatProperties, Zenon DEF Added
<1>7. ASSUME NEW i \in 1..Len(s) PROVE Dropped(s, i) \in Seq(C)
  <2>1. i + 1 \in Nat /\ i + 1 > 0 /\ i - 1 \in Nat /\ i - 1 <= Len(s) /\ 1 \in Nat /\ 1 > 0 /\ Len(s) <= Len(s)
    BY <1>3
  <2>2. SubSeq(s, 1, i - 1) \in Seq(C) /\ SubSeq(s, i + 1, Len(s)) \in Seq(C)
    BY <1>3, <1>4, <2>1, Zenon
  <2>3. QED BY <2>2, ConcatProperties, Zenon DEF Dropped
<1>8. \/ \E i \in 1..Len(s), c \in C : t = Replaced(s, i, c)
      \/ \E i \in 0..Len(s), c \in C : t = Added(s, i, c)
      \/ \E i \in 1..Len(s) : t = Dropped(s, i)
  BY <1>1 DEF Edits
<1>9. t \in Seq(C)
  BY <1>5, <1>6, <1>7, <1>8, Zenon
<1>10. QED BY <1>1, <1>9, Zenon

(* The draft is a text of the form's characters. *)
LEMMA SpecDraft == FormSpec => [](draft \in Texts)
<1>1. Chars \subseteq Digit \cup {Dot, Other}
  BY ConversionsAssumption, Zenon
<1>2. FormInit => draft \in Texts
  BY DEF FormInit, Texts
<1>3. draft \in Texts /\ [FormNext]_formVars => (draft \in Texts)'
  <2> SUFFICES ASSUME draft \in Texts, [FormNext]_formVars PROVE draft' \in Texts
    BY Zenon
  <2>1. ASSUME NEW c \in Chars, Type(c) PROVE draft' \in Texts
    BY <1>1, <2>1 DEF Type, Texts
  <2>2. ASSUME NEW who \in Accounts, Choose(who) PROVE draft' \in Texts
    BY <2>2, Zenon DEF Choose
  <2>3. CASE Clear
    BY <2>3 DEF Clear, Texts
  <2>4. CASE UNCHANGED formVars
    BY <2>4, Zenon DEF formVars
  <2>5. QED
    BY <2>1, <2>2, <2>3, <2>4, Zenon DEF FormNext
<1>4. QED BY <1>2, <1>3, PTL DEF FormSpec

(* to_units rounds nothing: every accepted text, of any length and with any *)
(* number of decimals, is worth exactly what its digits spell.              *)
THEOREM SpecParsesExactly == FormSpec => []ParsesExactly
<1>1. draft \in Texts => ParsesExactly
  BY ConversionsAssumption, Exact DEF ParsesExactly, Parses
<1>2. QED BY <1>1, SpecDraft, PTL

(* to_human undoes to_units, in as few characters as any text for the same  *)
(* amount has, whatever the amount and the decimals; nor does it make a     *)
(* text that is too long for int() of one that is not.                      *)
THEOREM SpecShortestForm == FormSpec => []ShortestForm
<1>1. ASSUME draft \in Texts, NEW decimals \in 0..MaxDecimals, Parses(draft, decimals),
             NEW units, units = to_units(draft, decimals),
             NEW shown, shown = to_human(units, decimals)
      PROVE  /\ Parses(shown, decimals) /\ to_units(shown, decimals) = units
             /\ Len(shown) <= Len(draft)
  <2>1. decimals \in Nat /\ ~Refused(draft, decimals) /\ ~TooLong(draft, decimals)
    BY <1>1, ConversionsAssumption DEF Parses
  <2>2. /\ ~Refused(shown, decimals) /\ to_units(shown, decimals) = units
        /\ Len(shown) <= Len(draft)
        /\ whole(shown) \in Seq(0..10-1) /\ Len(whole(shown)) <= Len(whole(draft))
    BY <1>1, <2>1, Shortest
  <2>3. Len(whole(draft)) \in Nat /\ Len(whole(shown)) \in Nat
    BY <1>1, <2>1, <2>2, Parts, LenProperties, Zenon DEF Refused
  <2>4. ~TooLong(shown, decimals)
    <3>1. ASSUME NEW a \in Nat, NEW b \in Nat, b <= a, ~(a > MaxStrDigits)
          PROVE  ~(b > MaxStrDigits)
      BY <3>1, MoneyAssumption
    <3>2. QED BY <2>1, <2>2, <2>3, <3>1, Zenon DEF TooLong
  <2>5. QED BY <2>2, <2>4, Zenon DEF Parses
<1>2. draft \in Texts => ShortestForm
  BY <1>1, Zenon DEF ShortestForm
<1>3. QED BY <1>2, SpecDraft, PTL

(* Where the bounds on the length leave room for every account, is_valid    *)
(* accepts every account's address; CodeLengthsFit: the code's bounds do.   *)
THEOREM SpecAccountsHaveAddresses ==
  ASSUME AddressesFit
  PROVE  FormSpec => []AccountsHaveAddresses
<1>1. AccountsHaveAddresses
  BY AddressIsValid, Zenon DEF AccountsHaveAddresses
<1>2. QED BY <1>1, PTL

(* No edit of an account's address is a second text for the same account:   *)
(* by OneText, no text at all is.                                           *)
THEOREM SpecOneAddress == FormSpec => []OneAddress
<1>1. OneAddress
  <2> SUFFICES ASSUME account \in Accounts, NEW address \in Edits(from_payload(account)),
                      is_valid(address)
               PROVE  address = from_payload(SubSeq(b58decode(address), 2, BodyLen + 1))
    BY Zenon DEF OneAddress
  <2>1. from_payload(account) \in Seq(0..57)
    <3>1. from_payload(account) = b58encode(rawOf(account))
      BY Zenon DEF from_payload, rawOf, payloadOf
    <3>2. PICK raw \in Seq(0..255) : raw = rawOf(account)
      BY RawBytes, Zenon
    <3>3. b58encode(raw) \in Seq(0..57)
      BY EncodeDecode, Zenon
    <3>4. QED BY <3>1, <3>2, <3>3, Zenon
  <2>2. from_payload(account) \in Seq(0..NotBase58)
    <3>1. 0..57 \subseteq 0..NotBase58
      BY DEF NotBase58
    <3>2. QED BY <2>1, <3>1, SeqMonotonic, Zenon
  <2>3. QED BY <2>2, EditsAreTexts, OneText, Zenon
<1>2. QED BY <1>1, PTL
=============================================================================
