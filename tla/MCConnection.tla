---------------------------- MODULE MCConnection ----------------------------
(* Constants of the runs of Connection. *)
EXTENDS Connection, TLC

CONSTANTS renewal, job, switch

\* A lease renewal and a call without timeout, beside a move to another interpreter.
MCOp == renewal :> "light" @@ job :> "job" @@ switch :> "reexec"
=============================================================================
