------------------------------ MODULE MCAcpSession ------------------------------
(***************************************************************************)
(* AcpSession on a small instance: the first launch of an id, and another  *)
(* that tries to take the id.                                              *)
(***************************************************************************)
EXTENDS AcpSession, FiniteSets

CONSTANTS First, Second

\* What may happen beyond one prompt.
Extras ==
  {x \in {"prompt", "close", "diagnostic", "cancel", "launch"} :
     CASE x = "prompt" -> prompts[First] > 1
       [] x = "close" -> prompts[First] > 0 /\ hostClose[First] # "idle"
       [] x = "diagnostic" -> diagnosing[First] # "idle"
       [] x = "cancel" -> canceling[First] # "idle"
       [] x = "launch" -> launching[Second] # "idle"}

\* One of them in each behaviour (a session without prompts is closed in any
\* case).  The second launch finds a first session
\* without prompts, and is followed until it has the id or is refused.  Only the
\* host's and the agent's own choices are cut off, and what follows the second
\* launch: every fair action of the first session stays within the bound.
OneExtra ==
  /\ Cardinality(Extras) <= 1
  /\ launching[Second] # "idle" => launching[First] # "idle" /\ prompts[First] = 0
  /\ launching[Second] \in {"idle", "duplicate", "calling"}
  /\ hostClose[Second] = "idle" /\ canceling[Second] = "idle"
  /\ diagnosing[Second] = "idle" /\ chan[Second] = <<>>
  /\ client[Second].child \in {"none", "live"}
================================================================================
