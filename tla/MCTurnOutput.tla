------------------------------ MODULE MCTurnOutput ------------------------------
(***************************************************************************)
(* TurnOutput on small instances.                                          *)
(***************************************************************************)
EXTENDS TurnOutput, TLC

Interchangeable == Permutations(CallIds)

(* The sessions checked.  One turn in depth: its events of any sort until  *)
(* it ends (TLC checks the state after that and goes no further).  Many    *)
(* turns: short texts, stop reasons and terminal events.                   *)
OneTurn   == count.usage = 0 /\ count.end = 0 /\ \A i \in DOMAIN r.open : r.open[i].id = 1
ManyTurns == /\ count.call + count.fact + count.request = 0 /\ count.delta <= 2
             /\ count.delta + count.usage + count.end <= 5
Sessions  == OneTurn \/ ManyTurns
=================================================================================
