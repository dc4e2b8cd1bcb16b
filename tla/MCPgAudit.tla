----------------------------- MODULE MCPgAudit ------------------------------
(* PgAudit for TLC. *)
EXTENDS PgAudit, TLC

CONSTANTS o1, w1, w2

OneOp      == {o1}
TwoWorkers == {w1, w2}
Null       == -1
TwoStates  == {"requested", "validated"}
Alone      == (o1 :> 1)
=============================================================================
