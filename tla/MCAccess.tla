----------------------------- MODULE MCAccess -----------------------------
(* Instances of Access for TLC. *)
EXTENDS AccessProperties, TLC
CONSTANTS p1, p2, b1, b2, a1, a2
=============================================================================
