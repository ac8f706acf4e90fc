---------------------------- MODULE MCTemplates ----------------------------
(* An instance of Templates for TLC: one built-in template for two OS families, and one *)
(* more that only the second version has.                                               *)
EXTENDS TemplateProperties, TLC
CONSTANTS p1, p2, git, mine, linux, debian
OfferedIn == 1 :> {1, 2} @@ 2 :> {1, 2, 3}
NamesOf == <<git, git, mine>>
OsesOf == <<linux, debian, linux>>
Symmetry == Permutations(Procs)
=============================================================================
