------------------------ MODULE BranchQueueRefinesLanes ------------------------
(* BranchQueue's promise chains implement the queues of Lanes.                  *)
EXTENDS BranchQueue, Naturals, FiniteSets

\* The calls of a branch that have not settled, in the order of run(): each call's place
\* is how many of them were made before it.
Unsettled(b)        == {i \in Of(b) : st[i] \in Live}
Place(S, before, i) == Cardinality(before[i] \cap S)
Line(S, before) ==
  [n \in 1 .. Cardinality(S) |-> CHOOSE i \in S : Place(S, before, i) = n - 1]
Waiting(b) == Line(Unsettled(b), ahead)

Abstract == INSTANCE Lanes WITH
  queue <- [b \in Branches |-> Waiting(b)],
  turn  <- {i \in Calls : st[i] \in {"running", "returned"}}

\* Promise chaining gives each branch a queue whose turns begin and end in order,
\* and none of the promise jobs in between is visible to the callers.
ImplementsLanes == Abstract!Spec

=============================================================================
