----------------------------- MODULE MCPermissions -----------------------------
(***************************************************************************)
(* Permissions on a small instance.                                        *)
(***************************************************************************)
EXTENDS Permissions, TLC

\* Dispatched requests are interchangeable.
RequestSymmetry == Permutations(Requests \ DirectRequests)

Used == {r \in Requests : stage[r] # "unsent"}

\* Any one request, or any two well-formed ones whose responders do not fail; in
\* a second turn only dispatched ones whose responder selects or is cut off,
\* with the gate free of client methods.
TwoRequests ==
  /\ Cardinality(Used) <= 2
  /\ Cardinality(Used) = 2 => \A r \in Requests : kind[r] = "valid" /\ answer[r] # "error"
  /\ generation > 1 =>
       /\ Used \cap DirectRequests = {} /\ gate \notin LifecycleCalls
       /\ \A r \in Requests : kind[r] = "valid" /\ answer[r] \in {"none", "offered", "context"}
================================================================================
