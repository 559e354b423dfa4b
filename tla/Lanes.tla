--------------------------------- MODULE Lanes ---------------------------------
(* What BranchQueue promises its callers: the calls on one branch form a queue, *)
(* only the call at its head has the turn, and a turn that began ends.          *)
EXTENDS Sequences, Functions

CONSTANTS Calls, Branches

VARIABLES queue,  \* the calls of a branch that have not settled, oldest first
          turn    \* the calls whose work function has been invoked

lanesVars == <<queue, turn>>

Init ==
  /\ queue = [b \in Branches |-> <<>>]
  /\ turn = {}

Ask(i, b) ==
  /\ \A c \in Branches : i \notin Range(queue[c])
  /\ queue' = [queue EXCEPT ![b] = Append(@, i)]
  /\ UNCHANGED turn

Begin(b) ==
  /\ queue[b] # <<>>
  /\ Head(queue[b]) \notin turn
  /\ turn' = turn \cup {Head(queue[b])}
  /\ UNCHANGED queue

End(b) ==
  /\ queue[b] # <<>>
  /\ Head(queue[b]) \in turn
  /\ turn' = turn \ {Head(queue[b])}
  /\ queue' = [queue EXCEPT ![b] = Tail(@)]

Next ==
  \/ \E i \in Calls, b \in Branches : Ask(i, b)
  \/ \E b \in Branches : Begin(b) \/ End(b)

Safety == Init /\ [][Next]_lanesVars

Spec ==
  /\ Safety
  /\ \A b \in Branches : WF_lanesVars(Begin(b)) /\ WF_lanesVars(End(b))

=============================================================================
