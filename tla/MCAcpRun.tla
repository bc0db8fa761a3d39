-------------------------------- MODULE MCAcpRun --------------------------------
(***************************************************************************)
(* AcpRun on a small instance: one input, and the first prompt where Run   *)
(* fires it.                                                               *)
(***************************************************************************)
EXTENDS AcpRun

\* An auto-fired first prompt meets the Manager, and the context or an input;
\* without one, Stop and CancelTurn come in as well, one of them before the
\* session ends.
AutoFireOrStop ==
  /\ autoFire /\ ctxDone => \A i \in Inputs : input[i] \in {"idle", "refused"}
  /\ autoFire => interrupt["user_stop"] = "idle" /\ interrupt["turn_cancel"] = "idle"
  /\ interrupt["turn_cancel"] # "idle" => interrupt["user_stop"] = "idle"
================================================================================
