------------------------------ MODULE BranchQueue ------------------------------
(* BranchQueue (state/queue.ts): one promise chain per branch.  A call is one   *)
(* BranchQueue.run(); the promise jobs it schedules (the invocation of its work *)
(* function, the .finally that revokes the lane, the clean-up of the tail) are  *)
(* separate steps, because any other job of the event loop may run in between.  *)
(* A work function that throws takes the same steps as one that returns.        *)

CONSTANTS Calls, Branches, NoCall, NoBranch

ASSUME BqAssumption == NoCall \notin Calls /\ NoBranch \notin Branches

VARIABLES
  ids,     \* ids of the branches that have been created
  st,      \* how far each call has come
  br,      \* the branch whose lane it asked for
  prev,    \* the call whose settled promise it is chained on
  tails,   \* tails: the call whose settled promise a branch maps to, if any
  lanes,   \* activeLanes: the calls whose lane assertLane accepts
  waits,   \* the run() on another branch that a work function is awaiting
  ahead    \* history: the calls on its branch made before this one

vars == <<ids, st, br, prev, tails, lanes, waits, ahead>>

\* "returned": the work function's promise has settled, its .finally has not run.
\* "settled": the caller may resume; the tail is not cleaned up yet.
Live    == {"queued", "running", "returned"}
Stages  == Live \cup {"new", "settled", "done"}
Over(i) == st[i] \in {"settled", "done"}

Of(b) == {i \in Calls : br[i] = b}

Init ==
  /\ ids = {}
  /\ st = [i \in Calls |-> "new"]
  /\ br = [i \in Calls |-> NoBranch]
  /\ prev = [i \in Calls |-> NoCall]
  /\ tails = [b \in Branches |-> NoCall]
  /\ lanes = {}
  /\ waits = [i \in Calls |-> NoCall]
  /\ ahead = [i \in Calls |-> {}]

\* Mutant: every call starts a chain of its own.
EnqueueUnchained(i, b) ==
  /\ st[i] = "new"
  /\ st' = [st EXCEPT ![i] = "queued"]
  /\ br' = [br EXCEPT ![i] = b]
  /\ prev' = [prev EXCEPT ![i] = NoCall]
  /\ tails' = [tails EXCEPT ![b] = i]
  /\ ahead' = [ahead EXCEPT ![i] = Of(b)]

\* run() itself, which is synchronous: chain on the tail and become the tail.
Enqueue(i, b) ==
  /\ st[i] = "new"
  /\ st' = [st EXCEPT ![i] = "queued"]
  /\ br' = [br EXCEPT ![i] = b]
  /\ prev' = [prev EXCEPT ![i] = tails[b]]
  /\ tails' = [tails EXCEPT ![b] = i]
  /\ ahead' = [ahead EXCEPT ![i] = Of(b)]

Run(i, b) ==
  /\ b \in ids
  /\ Enqueue(i, b)
  /\ UNCHANGED <<ids, lanes, waits>>

\* A branch row is created, in some other branch's lane or in none.
Mint(b) ==
  /\ b \notin ids
  /\ ids' = ids \cup {b}
  /\ UNCHANGED <<st, br, prev, tails, lanes, waits, ahead>>

\* Mutant: the restart goes through the queue under the id whose lane is held.
RestartUnderOwnId(i, j, b) ==
  /\ st[i] = "running" /\ waits[i] = NoCall
  /\ b = br[i] /\ b \in ids
  /\ Enqueue(j, b)
  /\ waits' = [waits EXCEPT ![i] = j]
  /\ UNCHANGED <<ids, lanes>>

\* The end of a restore or a reset, inside the lane of the old id: the row gets a
\* new id and, in the same turn, the restart is queued under that id and awaited.
RestartUnderNewId(i, j, b) ==
  /\ st[i] = "running" /\ waits[i] = NoCall
  /\ b \notin ids
  /\ ids' = ids \cup {b}
  /\ Enqueue(j, b)
  /\ waits' = [waits EXCEPT ![i] = j]
  /\ UNCHANGED lanes

\* Mutant: waits for the caller's promise only, not for the settled one.
InvokeUnordered(i) ==
  /\ st[i] = "queued"
  /\ prev[i] # NoCall => st[prev[i]] # "queued"
  /\ st' = [st EXCEPT ![i] = "running"]
  /\ lanes' = lanes \cup {i}
  /\ UNCHANGED <<ids, br, prev, tails, waits, ahead>>

\* The job of tail.then(invoke, invoke).  The clean-up of the previous call was
\* registered on the same promise earlier, so it has run.
Invoke(i) ==
  /\ st[i] = "queued"
  /\ prev[i] # NoCall => st[prev[i]] = "done"
  /\ st' = [st EXCEPT ![i] = "running"]
  /\ lanes' = lanes \cup {i}
  /\ UNCHANGED <<ids, br, prev, tails, waits, ahead>>

\* The work function returns or throws, once what it awaits has settled.
Return(i) ==
  /\ st[i] = "running"
  /\ waits[i] # NoCall => Over(waits[i])
  /\ st' = [st EXCEPT ![i] = "returned"]
  /\ waits' = [waits EXCEPT ![i] = NoCall]
  /\ UNCHANGED <<ids, br, prev, tails, lanes, ahead>>

\* Mutant: only a brand, no activeLanes: the lane outlives the turn.
SettleKeepingLane(i) ==
  /\ st[i] = "returned"
  /\ st' = [st EXCEPT ![i] = "settled"]
  /\ UNCHANGED <<ids, br, prev, tails, lanes, waits, ahead>>

\* .finally revokes the lane; the caller's promise resolves or rejects.
Settle(i) ==
  /\ st[i] = "returned"
  /\ st' = [st EXCEPT ![i] = "settled"]
  /\ lanes' = lanes \ {i}
  /\ UNCHANGED <<ids, br, prev, tails, waits, ahead>>

\* Mutants: the clean-up deletes the tail whosever it is; it never matches.
CleanAnyTail(i) ==
  /\ st[i] = "settled"
  /\ st' = [st EXCEPT ![i] = "done"]
  /\ tails' = [tails EXCEPT ![br[i]] = NoCall]
  /\ UNCHANGED <<ids, br, prev, lanes, waits, ahead>>

CleanNoTail(i) ==
  /\ st[i] = "settled"
  /\ st' = [st EXCEPT ![i] = "done"]
  /\ UNCHANGED <<ids, br, prev, tails, lanes, waits, ahead>>

\* The clean-up deletes the tail if no later call has replaced it.
Clean(i) ==
  /\ st[i] = "settled"
  /\ st' = [st EXCEPT ![i] = "done"]
  /\ tails' = [tails EXCEPT ![br[i]] = IF @ = i THEN NoCall ELSE @]
  /\ UNCHANGED <<ids, br, prev, lanes, waits, ahead>>

\* The promises of a call are garbage, or the branch of an id is deleted and idle;
\* the model reuses the names.
ForgetCall(i) ==
  /\ st[i] = "done"
  /\ \A j \in Calls : prev[j] = i => st[j] # "queued"
  /\ \A j \in Calls : waits[j] # i
  /\ \A b \in Branches : tails[b] # i
  /\ st' = [st EXCEPT ![i] = "new"]
  /\ br' = [br EXCEPT ![i] = NoBranch]
  /\ ahead' = [j \in Calls |-> IF j = i THEN {} ELSE ahead[j] \ {i}]
  /\ prev' = [j \in Calls |-> IF j = i \/ prev[j] = i THEN NoCall ELSE prev[j]]
  /\ UNCHANGED <<ids, tails, lanes, waits>>

ForgetBranch(b) ==
  /\ b \in ids
  /\ Of(b) = {}
  /\ ids' = ids \ {b}
  /\ UNCHANGED <<st, br, prev, tails, lanes, waits, ahead>>

-----------------------------------------------------------------------------
\* assertLane(lane of i, b)
AssertLane(i, b) == i \in lanes /\ br[i] = b

Step(i) == Invoke(i) \/ Return(i) \/ Settle(i) \/ Clean(i)

Next ==
  \/ \E b \in Branches : Mint(b) \/ ForgetBranch(b)
  \/ \E i \in Calls, b \in Branches : Run(i, b)
  \/ \E i, j \in Calls, b \in Branches : RestartUnderNewId(i, j, b)
  \/ \E i \in Calls : Step(i) \/ ForgetCall(i)

Spec == Init /\ [][Next]_vars

\* Promise jobs always run, and a work function's own awaits are bounded (HTTP
\* requests by the client's timeouts, computes by ComputeManager's LaneFrees).
FairSpec == Spec /\ \A i \in Calls : WF_vars(Step(i))

-----------------------------------------------------------------------------
(* Properties.                                                               *)

TypeOK ==
  /\ ids \subseteq Branches
  /\ st \in [Calls -> Stages]
  /\ br \in [Calls -> Branches \cup {NoBranch}]
  /\ prev \in [Calls -> Calls \cup {NoCall}]
  /\ tails \in [Branches -> Calls \cup {NoCall}]
  /\ lanes \subseteq Calls
  /\ waits \in [Calls -> Calls \cup {NoCall}]
  /\ ahead \in [Calls -> SUBSET Calls]
  /\ \A i \in Calls : waits[i] # NoCall => st[i] = "running"

\* A work function starts only when every call made before it on its branch has
\* settled, succeeded or failed: turns never overlap and go in the order of run(),
\* also for a call made between a settlement and its clean-up.
Fifo ==
  \A i \in Calls :
    st[i] \notin {"new", "queued"} => \A j \in ahead[i] : Over(j)

\* What assertLane accepts is the branch's one turn in progress: the call is in its
\* turn, so that a lane kept beyond it is refused on a busy and on an idle branch,
\* and no other call of the branch is in one.
LaneIsTurn ==
  \A i \in Calls, b \in Branches :
    AssertLane(i, b) =>
      /\ st[i] \in {"running", "returned"}
      /\ \A j \in Of(b) \ {i} : st[j] \in {"queued", "settled", "done"}

\* pendingCount() counts the branches with a call that is not finished, no more (an
\* idle branch leaks no tail) and no fewer (a busy one never loses its tail).
TailsExact ==
  \A b \in Branches :
    tails[b] = NoCall <=> \A i \in Of(b) : st[i] = "done"

\* No deadlock through the awaited restart: every call gets its turn and settles.
EveryCallSettles == \A i \in Calls : st[i] = "queued" ~> Over(i)

=============================================================================
