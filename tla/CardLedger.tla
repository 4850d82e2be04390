----------------------------- MODULE CardLedger -----------------------------
(***************************************************************************)
(* What reserving devices promises (Provider.reserve, letify/providers/    *)
(* base.py): a session is given all the cards it asks for at once, from    *)
(* cards nobody has, and gives them back at once. Half the cards a run     *)
(* asked for is not a smaller version of the run.                          *)
(***************************************************************************)
CONSTANTS
  Cards,     \* registered device indices
  Sessions,
  NoOne,
  Requests   \* the sets of cards that are what a session asks for

VARIABLE owner

OwnedBy(s) == {i \in Cards : owner[i] = s}

Init == owner = [i \in Cards |-> NoOne]

Grant(s) ==
  /\ OwnedBy(s) = {}
  /\ \E S \in Requests[s] :
       /\ S \subseteq OwnedBy(NoOne)
       /\ owner' = [i \in Cards |-> IF i \in S THEN s ELSE owner[i]]

Return(s) ==
  /\ OwnedBy(s) # {}
  /\ owner' = [i \in Cards |-> IF owner[i] = s THEN NoOne ELSE owner[i]]

Next == \E s \in Sessions : Grant(s) \/ Return(s)

Spec == Init /\ [][Next]_owner
=============================================================================
