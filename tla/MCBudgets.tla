----------------------------- MODULE MCBudgets -----------------------------
(* Instances of Budgets for TLC. *)
EXTENDS BudgetProperties, TLC
CONSTANTS p1, p2, x, y, e1, e2, e3
Symmetry == Permutations(Procs) \cup Permutations(Names) \cup Permutations(Emails)
=============================================================================
