------------------------------- MODULE MCHome -------------------------------
(* An instance of Home for TLC: two start-up files, one of them empty or each with a    *)
(* line of the user's own that sets the PATH to a directory outpost is installed into.  *)
EXTENDS HomeProperties, TLC
CONSTANTS p1, p2, bin, opt, sbin, k1, k2, zshrc, profile
Text == [kind |-> "other", dir |-> NoDir]
FilesAtFirst ==
  { zshrc :> <<>> @@ profile :> <<Text, Export(bin)>>,
    zshrc :> <<Export(bin)>> @@ profile :> <<Export(opt)>> }
Symmetry == Permutations(Procs) \cup Permutations(Keys)
=============================================================================
