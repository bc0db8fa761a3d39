------------------------------ MODULE MCAcpClient ------------------------------
(***************************************************************************)
(* AcpClient on small instances: one permission request, one or two turns. *)
(* The .cfg files differ in what the host and the agent do.                *)
(***************************************************************************)
EXTENDS AcpClient

\* The client methods that hold promptCloseMu.
GateHolders == {"prompt", "cancel", "close"}

HostCalls == closing # "idle" \/ canceling # "idle" \/ \E g \in Turns : <<"session/cancel", g>> \in wire

\* Two turns meet each other, one of them an agent that misbehaves, or one turn
\* meets Cancel and Close, which meet each other while the child lives.
TwoTurnsOrCalls ==
  /\ HostCalls => /\ generation <= 1 /\ readLoop # "malformed"
                  /\ \A r \in Requests : answer[r] # "empty" /\ kind[r] = "valid"
  /\ readLoop = "malformed" => generation <= 1
  /\ canceling # "idle" /\ closing # "idle" => process = "live"
================================================================================
