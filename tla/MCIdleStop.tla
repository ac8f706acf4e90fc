---------------------------- MODULE MCIdleStop ----------------------------
(* Instances of IdleStop for TLC. *)
EXTENDS IdleStopProperties
CONSTANTS p1, p2
=============================================================================
