--------------------------- MODULE MCComputeManager ---------------------------
(* ComputeManager on small instances.  Branches, entries and the ports of a    *)
(* range are interchangeable: the module never tells two of them apart.        *)
EXTENDS ComputeManager, TLC

Symmetry == Permutations(Branches) \cup Permutations(Entries)
              \cup Permutations(Ports) \cup Permutations(AuxPorts)

=============================================================================
