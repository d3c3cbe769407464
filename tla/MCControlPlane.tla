--------------------------- MODULE MCControlPlane ---------------------------
(* Instances of ControlPlane for TLC: limits in minutes, shortened where the *)
(* run is not about them (the code has 10 and 1).                            *)
EXTENDS ControlPlane
=============================================================================
