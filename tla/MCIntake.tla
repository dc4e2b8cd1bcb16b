------------------------------ MODULE MCIntake ------------------------------
(* Intake and Conversions for TLC: a client fills in the form, and then the *)
(* requests are sent.                                                      *)
EXTENDS Intake, Conversions

CONSTANTS p1, p2, n1, g1, i1

Sum(payload) == [i \in 1..CheckLen |-> (Value(payload, 31) + i) % 256]

Payload(to, asset_, amount) == [to |-> to, asset |-> asset_, amount |-> amount]
Of(i, b) == [id |-> i, body |-> b]

Good == from_payload(<<0>>)

OneId == {i1}

(* Two requests that differ, one with an amount that is too long, and a    *)
(* query, all for one id.                                                  *)
Mixed == {p1, p2, n1, g1}
MixedRequest ==
  [r \in Mixed |->
     CASE r = p1 -> Of(i1, Payload(Good, NoAsset, <<1, Dot, 5, 0>>))
       [] r = p2 -> Of(i1, Payload(Good, Asset, <<1, 5>>))
       [] r = n1 -> Of(i1, Payload(Good, Asset, <<0, 0, 0, 1, 5>>))
       [] r = g1 -> Of(i1, GET)]

VARIABLE sent

mcVars == <<intakeVars, formVars, sent>>

MCInit == IntakeInit /\ FormInit /\ sent = FALSE

(* The form is cleared. *)
Send ==
  /\ ~sent /\ sent' = TRUE
  /\ Clear
  /\ UNCHANGED intakeVars

MCNext ==
  \/ ~sent /\ FormNext /\ UNCHANGED <<intakeVars, sent>>
  \/ Send
  \/ sent /\ IntakeNext /\ UNCHANGED <<formVars, sent>>

(* Forms are sent; for the rest, IntakeSpec's fairness. *)
MCSpec ==
  /\ MCInit /\ [][MCNext]_mcVars
  /\ WF_mcVars(Send)
  /\ \A r \in Requests : WF_intakeVars(Serve(r) \/ Retry(r))
=============================================================================
