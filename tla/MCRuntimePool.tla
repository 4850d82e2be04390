--------------------------- MODULE MCRuntimePool ---------------------------
(* Small instances of RuntimePool for TLC. *)
EXTENDS RuntimePool, TLC

CONSTANTS c1, c2, c3, b1, narrow, wide

\* On two devices, "wide" needs both and "narrow" one of them.
MCWidth == (narrow :> 1) @@ (wide :> 2)

OneKey == [c \in Calls |-> narrow]
TwoKeys == (c1 :> narrow) @@ (c2 :> wide)
MoverKeys == (c1 :> narrow) @@ (c2 :> narrow) @@ (c3 :> wide)

TopLevel == [c \in Calls |-> None]

\* The body of c1 runs in this process and calls c2.
Nested == (c1 :> None) @@ (c2 :> c1)
=============================================================================
