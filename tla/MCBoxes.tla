------------------------------ MODULE MCBoxes ------------------------------
(* Instances of Boxes for TLC. *)
EXTENDS BoxProperties

CONSTANTS i1, i2, r1, r2, p1, p2

OneRegion == [i \in Ids |-> r1]
TwoRegions == [i \in Ids |-> IF i = i1 THEN r1 ELSE r2]

=============================================================================
