------------------------------- MODULE Branches -------------------------------
(* The branch tree of one project: ProjectsService, BranchesService and         *)
(* TimeTravelService over the SQLite rows, the pageserver's timelines and the   *)
(* computes.  An op is one request in flight; every await of its handler is a   *)
(* control state, and what happens between two awaits is one step.              *)
(*                                                                             *)
(* A branch's lane (module Lanes) is an owner here; waiters take it in any      *)
(* order, which allows more than BranchQueue does.  A compute is its status     *)
(* (module ComputeManager).  Every engine call may fail, before or after it     *)
(* took effect, and so may a database write.  A timeline orphaned by such a      *)
(* failure or by a crash is one no code looks at again: it leaves the model.     *)
EXTENDS Naturals, FiniteSets

CONSTANTS Branches, Timelines, Names, Ops,
          NoBranch, NoTimeline, NoOp, NoRow,
          Archived,     \* the name <name>_pitr_archived_<stamp>, which is never taken
          Requests,     \* the kinds of requests that clients send
          MaxRows,      \* bound on the rows there are and will be
          Crashes       \* may the daemon die and restart?

Swaps  == {"restore", "reset"}
Kinds  == {"newProject", "drain", "create", "rename", "delete", "start", "stop"} \cup Swaps
Places == {"ask", "stop", "fork", "detach", "undo", "launch",
           "deletePs", "deleteSk", "sweep", "tenant", "project"}
RowType == [parent : Branches \cup {NoBranch}, tl : Timelines, name : Names \cup {Archived}]

ASSUME BrAssumption ==
  /\ NoBranch \notin Branches /\ NoTimeline \notin Timelines /\ NoOp \notin Ops
  /\ Archived \notin Names /\ NoRow \notin RowType
  /\ Requests \subseteq Kinds
  /\ MaxRows \in Nat
  /\ Crashes \in BOOLEAN

VARIABLES
  project,   \* the project's row exists
  row,       \* table branches: id -> parent_branch_id, timeline_id, name
  ps,        \* the timelines the pageserver has, less those orphans
  anc,       \* their ancestor_timeline_id
  status,    \* computes.statusOf
  lane,      \* the op whose turn it is on a branch
  op,        \* the requests: where each is suspended, and its locals
  doomed     \* history: rows whose timeline a delete has begun to remove

dbVars  == <<project, row>>
psVars  == <<ps, anc>>
vars == <<dbVars, psVars, status, lane, op, doomed>>

\* pc: the await; on: the branch whose lane it takes; want: the name given;
\* from: ancestorTimelineId; new: newTimelineId; was: wasRunning;
\* todo: the leaves of this round of drainBranches still to visit.
Idle == [pc |-> "idle", kind |-> "none", on |-> NoBranch, want |-> Archived,
         from |-> NoTimeline, new |-> NoTimeline, was |-> FALSE, todo |-> {}]

rows          == {b \in Branches : row[b] # NoRow}
Row(p, t, n)  == [parent |-> p, tl |-> t, name |-> n]
Children(b)   == {c \in rows : row[c].parent = b}
Leaves        == {b \in rows : Children(b) = {}}
Taken(n)      == \E b \in rows : row[b].name = n
RowTimelines  == {row[b].tl : b \in rows}
InFlight      == {op[o].new : o \in Ops}
Sources       == {op[o].from : o \in Ops}
FreshTl       == Timelines \ (ps \cup RowTimelines \cup InFlight \cup Sources)
Known         == rows \cup {op[o].on : o \in Ops} \cup UNION {op[o].todo : o \in Ops}
Growing       == {o \in Ops : op[o].kind \in {"newProject", "create"} \cup Swaps}
FreshIds      == {b \in Branches \ Known : lane[b] = NoOp}

Init ==
  /\ project = FALSE
  /\ row = [b \in Branches |-> NoRow]
  /\ ps = {}
  /\ anc = [t \in Timelines |-> NoTimeline]
  /\ status = [b \in Branches |-> "stopped"]
  /\ lane = [b \in Branches |-> NoOp]
  /\ op = [o \in Ops |-> Idle]
  /\ doomed = {}

-----------------------------------------------------------------------------
(* What the handlers share.                                                  *)

At(o, place) == op[o].pc = place
Go(o, place) == op' = [op EXCEPT ![o].pc = place]

\* Timelines leave the engine.
Drop(ts) ==
  /\ ps' = ps \ ts
  /\ anc' = [t \in Timelines |-> IF anc[t] \in ts THEN NoTimeline ELSE anc[t]]

\* The handler returns or throws.
End(o) ==
  /\ op' = [op EXCEPT ![o] = Idle]
  /\ lane' = [b \in Branches |-> IF lane[b] = o THEN NoOp ELSE lane[b]]

\* A turn of a request ends; drainBranches goes on to its next leaf.
EndTurn(o) ==
  IF op[o].kind = "drain"
  THEN /\ op' = [op EXCEPT ![o].pc = "sweep", ![o].on = NoBranch]
       /\ lane' = [lane EXCEPT ![op[o].on] = NoOp]
  ELSE End(o)

\* Mutant: the work runs outside the lane.
MyTurnAnyway(o) == At(o, "ask")

\* The op is at the head of its branch's lane.
MyTurn(o) == At(o, "ask") /\ lane[op[o].on] = NoOp

\* ... and goes on to its first await.
TakeTurn(o, next) ==
  /\ lane' = [lane EXCEPT ![op[o].on] = o]
  /\ op' = [op EXCEPT ![o] = next]

-----------------------------------------------------------------------------
(* Requests: what the handlers check before they queue.                      *)

\* ProjectsService.create, tenantCreate answered.  The model follows one project,
\* and then the next.
CreateProject(o) ==
  /\ At(o, "idle")
  /\ ~project
  /\ \A p \in Ops : op[p].kind \notin {"newProject", "drain"}
  /\ \E t \in FreshTl :
       op' = [op EXCEPT ![o] = [Idle EXCEPT !.pc = "fork", !.kind = "newProject",
                                            !.new = t]]
  /\ UNCHANGED <<dbVars, psVars, status, lane, doomed>>

\* ProjectsService.delete, up to the first round of drainBranches.
DeleteProject(o) ==
  /\ At(o, "idle")
  /\ project
  /\ op' = [op EXCEPT ![o] = [Idle EXCEPT !.pc = "sweep", !.kind = "drain"]]
  /\ UNCHANGED <<dbVars, psVars, status, lane, doomed>>

\* Everything else names a branch and waits for its lane.  create() captures the
\* parent's timeline before it queues; rename() refuses the root.  (MaxRows leaves
\* every request in flight an id and a timeline.)
Ask(o, k, b, n) ==
  /\ At(o, "idle")
  /\ b \in rows
  /\ k \in {"create"} \cup Swaps => Cardinality(rows) + Cardinality(Growing) < MaxRows
  /\ k = "create" => ~Taken(n)
  /\ k = "rename" => row[b].parent # NoBranch
  /\ op' = [op EXCEPT ![o] =
              [Idle EXCEPT !.pc = "ask", !.kind = k, !.on = b,
                           !.want = IF k \in {"create", "rename"} THEN n ELSE Archived,
                           !.from = IF k = "create" THEN row[b].tl ELSE NoTimeline]]
  /\ UNCHANGED <<dbVars, psVars, status, lane, doomed>>

-----------------------------------------------------------------------------
(* Turns: the re-checks in the lane, up to the first await.                  *)

\* The branch is gone, the name is taken, there are children, or nothing to do.
Refuse(o) ==
  LET b == op[o].on  k == op[o].kind IN
  /\ MyTurn(o)
  /\ \/ b \notin rows
     \/ k \in {"create", "rename"} /\ Taken(op[o].want)
     \/ k \in {"delete", "drain", "reset"} /\ Children(b) # {}
     \/ k = "reset" /\ b \in rows /\ row[b].parent = NoBranch
     \/ k = "start" /\ status[b] = "running"
  /\ EndTurn(o)
  /\ UNCHANGED <<dbVars, psVars, status, doomed>>

Create(o) ==
  /\ MyTurn(o)
  /\ op[o].kind = "create"
  /\ op[o].on \in rows
  /\ ~Taken(op[o].want)
  /\ \E t \in FreshTl : TakeTurn(o, [op[o] EXCEPT !.pc = "fork", !.new = t])
  /\ UNCHANGED <<dbVars, psVars, status, doomed>>

Rename(o) ==
  /\ MyTurn(o)
  /\ op[o].kind = "rename"
  /\ op[o].on \in rows
  /\ ~Taken(op[o].want)
  /\ row' = [row EXCEPT ![op[o].on].name = op[o].want]
  /\ End(o)
  /\ UNCHANGED <<project, psVars, status, doomed>>

\* BranchesService.delete and one leaf of drainBranches, up to computes.stop.
Delete(o) ==
  /\ MyTurn(o)
  /\ op[o].kind \in {"delete", "drain"}
  /\ op[o].on \in Leaves
  /\ TakeTurn(o, [op[o] EXCEPT !.pc = "stop"])
  /\ UNCHANGED <<dbVars, psVars, status, doomed>>

\* swapOntoNewTimeline: the preflight, and wasRunning.
Swap(o) ==
  LET b == op[o].on IN
  /\ MyTurn(o)
  /\ op[o].kind \in Swaps
  /\ b \in rows
  /\ op[o].kind = "reset" => row[b].parent # NoBranch /\ Children(b) = {}
  /\ \E t \in FreshTl :
       TakeTurn(o, [op[o] EXCEPT
         !.new = t,
         !.from = row[IF op[o].kind = "reset" THEN row[b].parent ELSE b].tl,
         !.was = status[b] = "running",
         !.pc = IF status[b] = "running" THEN "stop" ELSE "fork"])
  /\ UNCHANGED <<dbVars, psVars, status, doomed>>

\* startLocked: a failed compute is stopped first.
Start(o) ==
  LET b == op[o].on IN
  /\ MyTurn(o)
  /\ op[o].kind = "start"
  /\ b \in rows
  /\ \/ /\ status[b] = "failed"
        /\ TakeTurn(o, [op[o] EXCEPT !.pc = "stop"])
        /\ UNCHANGED status
     \/ /\ status[b] = "stopped"
        /\ TakeTurn(o, [op[o] EXCEPT !.pc = "launch"])
        /\ status' = [status EXCEPT ![b] = "starting"]
  /\ UNCHANGED <<dbVars, psVars, doomed>>

\* stopLocked
Stop(o) ==
  /\ MyTurn(o)
  /\ op[o].kind = "stop"
  /\ op[o].on \in rows
  /\ TakeTurn(o, [op[o] EXCEPT !.pc = "stop"])
  /\ UNCHANGED <<dbVars, psVars, status, doomed>>

-----------------------------------------------------------------------------
(* Computes.                                                                 *)

\* A swap that gives up restarts the endpoint it had stopped, then rethrows.
GiveUpSwap(o) ==
  IF op[o].was
  THEN /\ Go(o, "launch")
       /\ status' = [status EXCEPT ![op[o].on] = "starting"]
       /\ UNCHANGED lane
  ELSE End(o) /\ UNCHANGED status

\* computes.stop resolves.
Stopped(o) ==
  LET k == op[o].kind IN
  /\ At(o, "stop")
  /\ status' = [status EXCEPT ![op[o].on] = IF k = "start" THEN "starting" ELSE "stopped"]
  /\ IF k = "stop" THEN End(o)
     ELSE /\ Go(o, CASE k = "start" -> "launch"
                     [] k \in Swaps -> "fork"
                     [] OTHER       -> "deletePs")
          /\ UNCHANGED lane
  /\ UNCHANGED <<dbVars, psVars, doomed>>

\* Mutant: a stop that fails leaves its entry behind.
StopFailsHalfway(o) ==
  /\ At(o, "stop")
  /\ End(o)
  /\ status' = [status EXCEPT ![op[o].on] = "stopping"]
  /\ UNCHANGED <<dbVars, psVars, doomed>>

\* ... or rejects, with the entry torn down all the same.
StopFails(o) ==
  /\ At(o, "stop")
  /\ IF op[o].kind \in Swaps
     THEN GiveUpSwap(o)
     ELSE End(o) /\ status' = [status EXCEPT ![op[o].on] = "stopped"]
  /\ UNCHANGED <<dbVars, psVars, doomed>>

\* computes.start resolves, which needs the branch's timeline, or rejects.
Launched(o) ==
  LET b == op[o].on IN
  /\ At(o, "launch")
  /\ \/ row[b].tl \in ps /\ status' = [status EXCEPT ![b] = "running"]
     \/ status' = [status EXCEPT ![b] = "stopped"]
  /\ End(o)
  /\ UNCHANGED <<dbVars, psVars, doomed>>

Crash(b) ==
  /\ status[b] = "running"
  /\ status' = [status EXCEPT ![b] = "failed"]
  /\ UNCHANGED <<dbVars, psVars, lane, op, doomed>>

-----------------------------------------------------------------------------
(* Rows and timelines.                                                       *)

\* Mutants: the new row is inserted as a child of the archived one, and caught by
\* the update that moves that one's children; the branch keeps its id and the
\* archive gets the new one.
SwapRowsInserted(b, c, t, moved) ==
  row' = [d \in Branches |->
            IF d = b      THEN [row[b] EXCEPT !.name = Archived]
            ELSE IF d = c THEN Row(c, t, row[b].name)
            ELSE IF d \in rows /\ (row[d].tl \in moved \/ row[d].parent = b)
                          THEN [row[d] EXCEPT !.parent = c]
            ELSE row[d]]

SwapRowsInPlace(b, c, t, moved) ==
  row' = [row EXCEPT ![b].tl = t, ![c] = [row[b] EXCEPT !.name = Archived]]

\* restoreSwap, one transaction: row b is archived, row c takes its place on
\* timeline t, and the children of b, and those the engine moved, become c's.
SwapRows(b, c, t, moved) ==
  row' = [d \in Branches |->
            IF d = b      THEN [row[b] EXCEPT !.name = Archived]
            ELSE IF d = c THEN [row[b] EXCEPT !.tl = t]
            ELSE IF d \in rows /\ (row[d].tl \in moved \/ row[d].parent = b)
                          THEN [row[d] EXCEPT !.parent = c]
            ELSE row[d]]

\* The swap commits; the restart is queued under the new id in the same turn, so
\* it has that id's lane, and is awaited inside the old id's turn.
CommitSwap(o, moved) ==
  \E c \in FreshIds :
    /\ SwapRows(op[o].on, c, op[o].new, moved)
    /\ UNCHANGED project
    /\ IF op[o].was
       THEN /\ op' = [op EXCEPT ![o] = [@ EXCEPT !.pc = "launch", !.on = c,
                                                 !.new = NoTimeline]]
            /\ lane' = [lane EXCEPT ![c] = o]
            /\ status' = [status EXCEPT ![c] = "starting"]
       ELSE End(o) /\ UNCHANGED status

\* The rows of an op's outcome.
Commit(o) ==
  LET k == op[o].kind IN
  \/ /\ k = "newProject"
     /\ project' = TRUE
     /\ \E b \in FreshIds, n \in Names :
          row' = [row EXCEPT ![b] = Row(NoBranch, op[o].new, n)]
     /\ End(o)
     /\ UNCHANGED status
  \/ /\ k = "create"
     /\ ~Taken(op[o].want)   \* UNIQUE(project_id, name)
     /\ \E b \in FreshIds :
          row' = [row EXCEPT ![b] = Row(op[o].on, op[o].new, op[o].want)]
     /\ End(o)
     /\ UNCHANGED <<project, status>>
  \/ /\ k = "reset"
     /\ CommitSwap(o, {})

\* timelineCreate answers, which needs the ancestor: the rows follow in the same turn,
\* except that restore has the ancestor to detach first.  A constraint or another
\* database error leads to the compensation.
Forked(o) ==
  /\ At(o, "fork")
  /\ op[o].from \in ps \cup {NoTimeline}
  /\ ps' = ps \cup {op[o].new}
  /\ anc' = [anc EXCEPT ![op[o].new] = op[o].from]
  /\ UNCHANGED doomed
  /\ \/ Commit(o)
     \/ /\ Go(o, IF op[o].kind = "restore" THEN "detach" ELSE "undo")
        /\ UNCHANGED <<dbVars, lane, status>>

\* timelineCreate fails; only project creation compensates if it took effect.
ForkFails(o) ==
  LET k == op[o].kind IN
  /\ At(o, "fork")
  /\ CASE k = "newProject" -> Go(o, "undo") /\ UNCHANGED <<lane, status>>
       [] k = "create"     -> End(o) /\ UNCHANGED status
       [] OTHER            -> GiveUpSwap(o)
  /\ UNCHANGED <<dbVars, psVars, doomed>>

\* detach_ancestor moves those children of the old timeline that branch off before
\* the restore point.
Detached(o) ==
  \E moved \in SUBSET {t \in ps \ {op[o].new} : anc[t] = op[o].from} :
    /\ At(o, "detach")
    /\ anc' = [t \in Timelines |-> IF t \in moved THEN op[o].new
                                   ELSE IF t = op[o].new THEN NoTimeline ELSE anc[t]]
    /\ UNCHANGED <<ps, doomed>>
    /\ \/ CommitSwap(o, moved)
       \/ Go(o, "undo") /\ UNCHANGED <<dbVars, lane, status>>

DetachFails(o) ==
  /\ At(o, "detach")
  /\ Go(o, "undo")
  /\ UNCHANGED <<dbVars, psVars, lane, status, doomed>>

\* Mutants: the compensation forgets; it deletes the branch's own timeline.
UndoNothing(o) ==
  /\ At(o, "undo")
  /\ IF op[o].kind \in Swaps THEN GiveUpSwap(o) ELSE End(o) /\ UNCHANGED status
  /\ UNCHANGED <<dbVars, psVars, doomed>>

UndoOldTimeline(o) ==
  /\ At(o, "undo")
  /\ Drop({op[o].new, op[o].from})
  /\ IF op[o].kind \in Swaps THEN GiveUpSwap(o) ELSE End(o) /\ UNCHANGED status
  /\ UNCHANGED <<dbVars, doomed>>

\* The compensation: timelineDelete (tenantDelete for a project), best effort.
Undo(o) ==
  /\ At(o, "undo")
  /\ Drop({op[o].new})
  /\ IF op[o].kind \in Swaps THEN GiveUpSwap(o) ELSE End(o) /\ UNCHANGED status
  /\ UNCHANGED <<dbVars, doomed>>

\* pageserver.timelineDelete of a branch; a failure ends the request half-way.
DeletePs(o) ==
  /\ At(o, "deletePs")
  /\ doomed' = doomed \cup {op[o].on}
  /\ \/ Drop({row[op[o].on].tl}) /\ Go(o, "deleteSk") /\ UNCHANGED lane
     \/ Drop({row[op[o].on].tl}) /\ End(o)
     \/ UNCHANGED psVars /\ End(o)
  /\ UNCHANGED <<dbVars, status>>

\* safekeeper.timelineDelete, then the row.  (The row's delete cannot violate the
\* foreign key of a child: ForeignKeys.)
DeleteSk(o) ==
  /\ At(o, "deleteSk")
  /\ \/ /\ row' = [row EXCEPT ![op[o].on] = NoRow]
        /\ doomed' = doomed \ {op[o].on}
        /\ EndTurn(o)
     \/ End(o) /\ UNCHANGED <<row, doomed>>
  /\ UNCHANGED <<project, psVars, status>>

-----------------------------------------------------------------------------
(* ProjectsService.delete.                                                   *)

\* The next leaf of the round, or the first of a new round's snapshot.  (Rows
\* without a leaf, the code's 500, do not happen: NoCycle.)
Visit(o) ==
  LET round == IF op[o].todo = {} THEN Leaves ELSE op[o].todo IN
  /\ At(o, "sweep")
  /\ \E b \in round :
       op' = [op EXCEPT ![o] = [@ EXCEPT !.pc = "ask", !.on = b, !.todo = round \ {b}]]
  /\ UNCHANGED <<dbVars, psVars, status, lane, doomed>>

\* Mutant: one snapshot at the start of the delete, no further round.
DrainedAfterOneRound(o) ==
  /\ At(o, "sweep")
  /\ op[o].todo = {}
  /\ Go(o, "tenant")
  /\ UNCHANGED <<dbVars, psVars, status, lane, doomed>>

Drained(o) ==
  /\ At(o, "sweep")
  /\ op[o].todo = {} /\ rows = {}
  /\ Go(o, "tenant")
  /\ UNCHANGED <<dbVars, psVars, status, lane, doomed>>

\* The pageserver's tenantDelete takes every timeline along.
DeleteTenant(o) ==
  /\ At(o, "tenant")
  /\ \/ Drop(ps) /\ Go(o, "project") /\ UNCHANGED lane
     \/ Drop(ps) /\ End(o)
     \/ UNCHANGED psVars /\ End(o)
  /\ UNCHANGED <<dbVars, status, doomed>>

\* The safekeeper's, then the project's row.  (The retry on a foreign key violation
\* is not modelled: ForeignKeys shows that there is none.)
DeleteProjectRow(o) ==
  /\ At(o, "project")
  /\ project' = FALSE \/ UNCHANGED project
  /\ End(o)
  /\ UNCHANGED <<row, psVars, status, doomed>>

\* The container dies: requests, lanes and computes with it.  Boot resets the rows'
\* endpoint state and nothing else.
Restart ==
  /\ Crashes
  /\ \E o \in Ops : ~At(o, "idle")
  /\ op' = [o \in Ops |-> Idle]
  /\ lane' = [b \in Branches |-> NoOp]
  /\ status' = [b \in Branches |-> "stopped"]
  /\ Drop(ps \ RowTimelines)
  /\ UNCHANGED <<dbVars, doomed>>

-----------------------------------------------------------------------------
BranchRequests == Requests \ {"newProject", "drain"}

Turn(o) == Refuse(o) \/ Create(o) \/ Rename(o) \/ Delete(o) \/ Swap(o) \/ Start(o) \/ Stop(o)

Resume(o) ==
  \/ Stopped(o) \/ StopFails(o) \/ Launched(o)
  \/ Forked(o) \/ ForkFails(o) \/ Detached(o) \/ DetachFails(o) \/ Undo(o)
  \/ DeletePs(o) \/ DeleteSk(o)
  \/ Visit(o) \/ Drained(o) \/ DeleteTenant(o) \/ DeleteProjectRow(o)

Next ==
  \/ \E o \in Ops : CreateProject(o) \/ ("drain" \in Requests /\ DeleteProject(o))
  \/ \E o \in Ops, k \in BranchRequests, b \in Branches, n \in Names : Ask(o, k, b, n)
  \/ \E o \in Ops : Turn(o) \/ Resume(o)
  \/ \E b \in Branches : Crash(b)
  \/ Restart

Spec == Init /\ [][Next]_vars

-----------------------------------------------------------------------------
(* Properties.                                                               *)

OpType ==
  [pc : Places \cup {"idle"}, kind : Kinds \cup {"none"},
   on : Branches \cup {NoBranch}, want : Names \cup {Archived},
   from : Timelines \cup {NoTimeline}, new : Timelines \cup {NoTimeline},
   was : BOOLEAN, todo : SUBSET Branches]

TypeOK ==
  /\ project \in BOOLEAN
  /\ row \in [Branches -> RowType \cup {NoRow}]
  /\ ps \subseteq Timelines
  /\ anc \in [Timelines -> Timelines \cup {NoTimeline}]
  /\ status \in [Branches -> {"stopped", "starting", "running", "failed"}]
  /\ lane \in [Branches -> Ops \cup {NoOp}]
  /\ op \in [Ops -> OpType]
  /\ doomed \subseteq Branches

\* Every branch has its timeline, unless a delete of that branch has begun.
RowsBacked == \A b \in rows : row[b].tl \in ps \/ b \in doomed

\* No timeline is left on the engine that neither a row nor a request in flight
\* accounts for (where no engine call failed and the daemon did not die).
NoOrphans == ps \subseteq RowTimelines \cup InFlight

\* The checks made in the lanes are still true when the rows are written: a branch
\* is never deleted under a child, nor the project under a branch.
ForeignKeys ==
  /\ \A b \in rows : row[b].parent \in rows \cup {NoBranch}
  /\ rows # {} => project

\* Parents form a forest, whatever restores move: drainBranches always has a leaf.
NoCycle ==
  \A S \in SUBSET rows : S # {} => \E b \in S : row[b].parent \notin S

\* However requests interleave, the rows are a forest below their project.
TreeWhole == ForeignKeys /\ NoCycle

\* A compute runs only for a branch that exists, on a timeline that exists.
ComputesBacked ==
  \A b \in Branches :
    /\ status[b] # "stopped" => b \in rows
    /\ status[b] = "running" => row[b].tl \in ps

\* Also when the daemon dies at any await, every branch and every compute has what it
\* stands on.
StateBacked == TreeWhole /\ RowsBacked /\ ComputesBacked

NewRows(k) == {b \in rows' \ rows : \E o \in Ops : op[o].kind = k /\ op[o].new = row'[b].tl}

\* A created branch's timeline forks off the timeline of the parent its row names.
CreateForksParent ==
  [][\A b \in NewRows("create") : anc'[row'[b].tl] = row'[row'[b].parent].tl]_vars

\* "reset = fresh fork of the PARENT's current head": so does a reset branch's.
ResetForksParent ==
  [][\A b \in NewRows("reset") : anc'[row'[b].tl] = row'[row'[b].parent].tl]_vars

=============================================================================
