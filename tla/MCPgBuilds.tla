------------------------------ MODULE MCPgBuilds ------------------------------
(* PgBuilds on small instances.  The images are told apart by their minors.     *)
EXTENDS PgBuilds, TLC

CONSTANTS d1, d2, d3

Minors == [d \in Digests |-> CASE d = d1 -> 2 [] d = d2 -> 3 [] OTHER -> 1]

Symmetry == Permutations(Ids) \cup Permutations(Clients) \cup Permutations(Starts)

=============================================================================
