---------------------------- MODULE MCSnapshots ----------------------------
(* Instances of Snapshots for TLC. *)
EXTENDS SnapshotProperties, TLC

CONSTANTS i1, i2, r1, r2, b1, b2, p1, p2, x, y

OneRegion == [i \in Ids |-> r1]
TwoRegions == [i \in Ids |-> IF i = i1 THEN r1 ELSE r2]
BoxesApart == [n \in BoxIds |-> IF n = b1 THEN r1 ELSE r2]

Symmetry == Permutations(Procs)

=============================================================================
