--------------------------- MODULE MCSessionLane ---------------------------
(* Instances of SessionLane for TLC; the bounds are in the cfg files.       *)
EXTENDS SessionLane
=============================================================================
