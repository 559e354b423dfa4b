---------------------------- MODULE MCUpdateChecks ----------------------------
(* UpdateChecks on a small instance.                                             *)
EXTENDS UpdateChecks, TLC

CONSTANTS d1, d2, d3

Minors == [d \in Digests |-> IF d = d1 THEN 1 ELSE 2]

Symmetry == Permutations(Ids)

=============================================================================
