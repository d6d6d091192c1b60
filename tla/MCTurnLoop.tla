----------------------------- MODULE MCTurnLoop -----------------------------
(* Instances of TurnLoop for TLC: a Turn that can reach each of its limits   *)
(* and an update of the Agent that leaves the next Turn the smallest limits. *)
EXTENDS TurnLoop

Smallest == [steps |-> 1, attempts |-> 1, toolsPerStep |-> 1, tools |-> 1]

TwoTurns == <<[steps |-> 2, attempts |-> 2, toolsPerStep |-> 2, tools |-> 3], Smallest>>

OneTurn == <<Smallest>>
=============================================================================
