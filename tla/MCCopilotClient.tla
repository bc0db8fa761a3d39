---------------------------- MODULE MCCopilotClient ----------------------------
(***************************************************************************)
(* CopilotClient on small instances: one permission request, one or two    *)
(* turns, all three transports.                                            *)
(***************************************************************************)
EXTENDS CopilotClient

\* The client methods that hold promptCloseMu.
GateHolders == {"prompt", "cancel", "close"}

CancelCalled == canceling # "idle" \/ \E g \in Turns : <<"session/cancel", g>> \in wire

\* Two turns meet each other, or one meets Cancel and Close.  Two turns, and the
\* two calls, meet over the pipes of a child; the calls while the child lives.
TwoTurnsOrCalls ==
  /\ generation <= 1 \/ (transport = "stdio" /\ closing = "idle" /\ ~CancelCalled)
  /\ transport = "stdio" \/ closing = "idle" \/ ~CancelCalled
  /\ canceling # "idle" /\ closing # "idle" => process = "live"
================================================================================
