------------------------------ MODULE OpStates ------------------------------
(***************************************************************************)
(* The operation lifecycle: the table the workers use (sluice/states.py)   *)
(* and the pairs the database trigger accepts (migrations/001_schema.sql). *)
(* "absent" is not a value of the enum: it marks an id with no row yet.    *)
(***************************************************************************)

OpState ==
  {"requested", "validated", "signing", "signed", "broadcasting", "broadcast",
   "confirmed", "failed", "rejected"}

TRANSITIONS ==
  [s \in OpState |->
     CASE s = "requested"    -> {"validated", "rejected"}
       [] s = "validated"    -> {"signing", "rejected"}
       [] s = "signing"      -> {"signed", "failed"}
       [] s = "signed"       -> {"broadcasting", "signing"}
       [] s = "broadcasting" -> {"broadcast", "signing", "failed"}
       [] s = "broadcast"    -> {"confirmed", "signing", "failed"}
       [] OTHER              -> {}]

TERMINAL == {s \in OpState : TRANSITIONS[s] = {}}

CLAIMABLE == OpState \ TERMINAL

(* A rewrite of the same state is always legal. *)
can_transition(src, dst) == src = dst \/ dst \in TRANSITIONS[src]

(* The pairs the SQL trigger lets through; a terminal row admits no UPDATE. *)
op_transition_guard(old, new) ==
  /\ old \notin {"confirmed", "failed", "rejected"}
  /\ \/ old = new
     \/ <<old, new>> \in
          {<<"requested", "validated">>,    <<"requested", "rejected">>,
           <<"validated", "signing">>,      <<"validated", "rejected">>,
           <<"signing", "signed">>,         <<"signing", "failed">>,
           <<"signed", "broadcasting">>,    <<"signed", "signing">>,
           <<"broadcasting", "broadcast">>, <<"broadcasting", "signing">>,
           <<"broadcasting", "failed">>,    <<"broadcast", "confirmed">>,
           <<"broadcast", "signing">>,      <<"broadcast", "failed">>}
=============================================================================
