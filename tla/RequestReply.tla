---------------------------- MODULE RequestReply ----------------------------
(***************************************************************************)
(* What a connection promises its callers: the worker executes a request   *)
(* at most once and never one nobody made, a request returns a value only  *)
(* if the worker executed that very request, and it ends once.  A request  *)
(* that failed may have been executed or may still be executed.            *)
(***************************************************************************)
CONSTANT Requests

VARIABLES
  call,      \* "unmade", "open", "value" or "failed"
  executed   \* how often the worker has executed each request

Init == call = [r \in Requests |-> "unmade"] /\ executed = [r \in Requests |-> 0]

Make(r) ==
  /\ call[r] = "unmade"
  /\ call' = [call EXCEPT ![r] = "open"]
  /\ UNCHANGED executed

Execute(r) ==
  /\ call[r] # "unmade" /\ executed[r] = 0
  /\ executed' = [executed EXCEPT ![r] = 1]
  /\ UNCHANGED call

Answer(r) ==
  /\ call[r] = "open" /\ executed[r] = 1
  /\ call' = [call EXCEPT ![r] = "value"]
  /\ UNCHANGED executed

Fail(r) ==
  /\ call[r] \in {"unmade", "open"}
  /\ call' = [call EXCEPT ![r] = "failed"]
  /\ UNCHANGED executed

Next == \E r \in Requests : Make(r) \/ Execute(r) \/ Answer(r) \/ Fail(r)

Spec == Init /\ [][Next]_<<call, executed>>

=============================================================================
