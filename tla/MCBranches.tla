------------------------------ MODULE MCBranches ------------------------------
(* Branches on small instances.                                                 *)
EXTENDS Branches, TLC

Symmetry == Permutations(Branches) \cup Permutations(Timelines)
              \cup Permutations(Names) \cup Permutations(Ops)

=============================================================================
