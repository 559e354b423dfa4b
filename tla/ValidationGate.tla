---------------------------- MODULE ValidationGate ----------------------------
(* The gate a downloaded build passes before it may run: Provisioner's race of   *)
(* validate() against a timer, the runner of compute/builds/validate.ts, the      *)
(* project it creates, and EndpointsService, SqlService and ProjectsService.delete *)
(* on the branch of that project, which every client sees and may act on.         *)
(*                                                                             *)
(* The branch has a lane, first come first served; what is in it is a job, and    *)
(* only the job at its head is under way.  A step the runner has abandoned stays  *)
(* in the lane.  Engine calls, computes and database writes may fail.             *)
EXTENDS Naturals, Sequences, FiniteSets

CONSTANTS Clients,   \* requests on the gate's branch from outside
          Gate,      \* the runner, as the owner of jobs
          Queries,   \* the smoke queries: 1 .. Queries
          Crashes    \* may the daemon die and restart?

ASSUME GateAssumption ==
  /\ Gate \notin Clients
  /\ Queries \in Nat \ {0}
  /\ Crashes \in BOOLEAN

VARIABLES
  verdict,   \* the pipeline: not there yet, at the race, deleting the build, or done
  runner,    \* the runner: the await it is at, the query, abort and outcome
  there,     \* the rows of the gate: "project" and "branch"
  compute,   \* computes.statusOf, and the build it was launched on
  endpoint,  \* the branch's endpoint_status
  lane,      \* the jobs queued on the branch, and the await the first one is at
  deletes,   \* projects.delete calls: where each is
  build,     \* the directory of the build under test exists
  up,        \* the daemon serves; if not, it boots
  ran,       \* history: the builds that answered smoke queries
  touched,   \* history: a client's job has run on the branch
  left       \* history: the runner's delete has failed

gateVars == <<verdict, runner, there, compute, endpoint, lane, deletes, build, up, ran,
              touched, left>>

Owners == Clients \cup {Gate}
Job(o, k) == [by |-> o, kind |-> k]
Jobs   == [by : {Gate}, kind : {"try"}] \cup [by : Owners, kind : {"start", "stop", "drain"}]
Off    == [pc |-> "off", query |-> 0, aborted |-> FALSE, ok |-> FALSE]
Down   == [st |-> "stopped", on |-> "none"]
Free   == [at |-> "turn", jobs |-> <<>>]

GateInit ==
  /\ verdict = "none"
  /\ runner = Off
  /\ there = {}
  /\ compute = Down
  /\ endpoint = "stopped"
  /\ lane = Free
  /\ deletes = [o \in Owners |-> "no"]
  /\ build = FALSE
  /\ up = TRUE
  /\ ran = {}
  /\ touched = FALSE
  /\ left = FALSE

Busy(o)    == deletes[o] # "no" \/ \E n \in DOMAIN lane.jobs : lane.jobs[n].by = o
Queued(js) == [lane EXCEPT !.jobs = @ \o js]
First      == lane.jobs[1]
Await(at)  == lane' = [lane EXCEPT !.at = at]

-----------------------------------------------------------------------------
(* The runner.                                                               *)

\* The candidate has its directory and its row is "validating".
Open ==
  /\ verdict' = "open"
  /\ build' = TRUE
  /\ runner' = [Off EXCEPT !.pc = "create"]
  /\ ran' = {} /\ touched' = FALSE /\ left' = FALSE
  /\ UNCHANGED <<there, compute, endpoint, lane, deletes, up>>

\* ProjectsService.delete, up to its first await; a 404 ends it.
BeginDelete(o) ==
  deletes' = [deletes EXCEPT ![o] = CASE "project" \notin there -> "no"
                                      [] "branch" \in there     -> "drain"
                                      [] OTHER                  -> "tenant"]
DrainJob(o) == IF "branch" \in there THEN <<Job(o, "drain")>> ELSE <<>>

\* The finally block: stop the endpoint if the gate was aborted, then delete.
Finally(ok) ==
  /\ runner' = [runner EXCEPT !.ok = ok, !.pc = IF runner.aborted THEN "stop" ELSE "delete"]
  /\ lane' = Queued(IF runner.aborted THEN <<Job(Gate, "stop")>> ELSE DrainJob(Gate))
  /\ IF runner.aborted THEN UNCHANGED deletes ELSE BeginDelete(Gate)

\* projects.create answers, which no abort cuts short; the next step is entered
\* only if there was none.
Created ==
  /\ runner.pc = "create"
  /\ there' = {"project", "branch"}
  /\ endpoint' = "stopped"
  /\ IF runner.aborted
     THEN Finally(FALSE)
     ELSE /\ runner' = [runner EXCEPT !.pc = "start"]
          /\ lane' = Queued(<<Job(Gate, "try")>>)
          /\ UNCHANGED deletes
  /\ UNCHANGED <<verdict, compute, build, up, ran, touched, left>>

\* ... or throws, the tenant undone.
CreateFails ==
  /\ runner.pc = "create"
  /\ runner' = [runner EXCEPT !.pc = "end"]
  /\ UNCHANGED <<verdict, there, compute, endpoint, lane, deletes, build, up, ran, touched, left>>

StartFails ==
  /\ runner.pc = "unstarted"
  /\ Finally(FALSE)
  /\ UNCHANGED <<verdict, there, compute, endpoint, build, up, ran, touched, left>>

\* Mutant: a smoke query starts the endpoint it finds stopped or failed.
ReadOrStart ==
  /\ runner.pc = "read"
  /\ IF compute.st = "running" /\ "branch" \in there
     THEN runner' = [runner EXCEPT !.pc = "answer"] /\ UNCHANGED compute
     ELSE /\ "branch" \in there /\ lane.jobs = <<>>
          /\ compute' = [st |-> "running", on |-> "active"]
          /\ runner' = [runner EXCEPT !.pc = "answer"]
  /\ UNCHANGED <<lane, deletes>>
  /\ UNCHANGED <<verdict, there, endpoint, build, up, ran, touched, left>>

\* SqlService.run with noAutoStart: the endpoint is as it is found.
Read ==
  /\ runner.pc = "read"
  /\ IF compute.st = "running" /\ "branch" \in there
     THEN runner' = [runner EXCEPT !.pc = "answer"] /\ UNCHANGED <<lane, deletes>>
     ELSE Finally(FALSE)
  /\ UNCHANGED compute
  /\ UNCHANGED <<verdict, there, endpoint, build, up, ran, touched, left>>

\* Mutant: one query too many.
AnswerOnceMore ==
  /\ runner.pc = "answer"
  /\ compute.st = "running"
  /\ ran' = ran \cup {compute.on}
  /\ IF runner.query <= Queries
     THEN /\ runner' = [runner EXCEPT !.pc = "read", !.query = @ + 1]
          /\ UNCHANGED <<lane, deletes>>
     ELSE Finally(TRUE)
  /\ UNCHANGED <<verdict, there, compute, endpoint, build, up, touched, left>>

\* Whatever compute listens on the port answers.
Answer ==
  /\ runner.pc = "answer"
  /\ compute.st = "running"
  /\ ran' = ran \cup {compute.on}
  /\ IF runner.query < Queries
     THEN /\ runner' = [runner EXCEPT !.pc = "read", !.query = @ + 1]
          /\ UNCHANGED <<lane, deletes>>
     ELSE Finally(TRUE)
  /\ UNCHANGED <<verdict, there, compute, endpoint, build, up, touched, left>>

AnswerFails ==
  /\ runner.pc = "answer"
  /\ Finally(FALSE)
  /\ UNCHANGED <<verdict, there, compute, endpoint, build, up, ran, touched, left>>

\* The delete that follows the aborted gate's stop.
StoppedThenDelete ==
  /\ runner.pc = "stopped"
  /\ runner' = [runner EXCEPT !.pc = "delete"]
  /\ lane' = Queued(DrainJob(Gate))
  /\ BeginDelete(Gate)
  /\ UNCHANGED <<verdict, there, compute, endpoint, build, up, ran, touched, left>>

\* The delete has answered, well or not.
Deleted ==
  /\ runner.pc = "delete"
  /\ deletes[Gate] = "no"
  /\ runner' = [runner EXCEPT !.pc = "end"]
  /\ UNCHANGED <<verdict, there, compute, endpoint, lane, deletes, build, up, ran, touched, left>>

Settle ==
  /\ runner.pc = "end"
  /\ runner' = Off
  /\ verdict' = IF verdict # "open" THEN verdict ELSE IF runner.ok THEN "ready" ELSE "rm"
  /\ UNCHANGED <<there, compute, endpoint, lane, deletes, build, up, ran, touched, left>>

\* The timer: the signal aborts the step the runner waits for, at once, and the
\* pipeline goes on to delete the build.
Timeout ==
  /\ verdict = "open"
  /\ verdict' = "rm"
  /\ IF runner.pc \in {"start", "read", "answer"}
     THEN /\ runner' = [runner EXCEPT !.aborted = TRUE, !.ok = FALSE, !.pc = "stop"]
          /\ lane' = Queued(<<Job(Gate, "stop")>>)
     ELSE runner' = [runner EXCEPT !.aborted = TRUE] /\ UNCHANGED lane
  /\ UNCHANGED <<there, compute, endpoint, deletes, build, up, ran, touched, left>>

\* rm(finalDir), before the row is "failed".
Discard ==
  /\ verdict = "rm"
  /\ verdict' = "failed"
  /\ build' = FALSE
  /\ UNCHANGED <<runner, there, compute, endpoint, lane, deletes, up, ran, touched, left>>

-----------------------------------------------------------------------------
(* Jobs on the branch.                                                       *)

\* A job of the runner has settled; the runner waits for it, or has gone on.
Told(ok) ==
  IF First.by = Gate /\ First.kind = "try" /\ runner.pc = "start"
  THEN runner' = [runner EXCEPT !.pc = IF ok THEN "read" ELSE "unstarted",
                                !.query = IF ok THEN 1 ELSE 0]
  ELSE IF First.by = Gate /\ First.kind = "stop"
  THEN runner' = [runner EXCEPT !.pc = "stopped"]
  ELSE UNCHANGED runner

\* A drain is a turn of a delete: it goes on to the tenant, or has failed.
DeleteTold(ok) ==
  IF First.kind = "drain"
  THEN /\ deletes' = [deletes EXCEPT ![First.by] = IF ok THEN "tenant" ELSE "no"]
       /\ left' = (left \/ (First.by = Gate /\ ~ok))
  ELSE UNCHANGED <<deletes, left>>

\* The job at the head returns or throws.
EndJob(ok) ==
  /\ Told(ok)
  /\ DeleteTold(ok)
  /\ lane' = [at |-> "turn", jobs |-> Tail(lane.jobs)]

MyTurn(kinds) == lane.jobs # <<>> /\ lane.at = "turn" /\ First.kind \in kinds
At(await)     == lane.jobs # <<>> /\ lane.at = await
Touch         == touched' = (touched \/ First.by # Gate)

Target == IF First.kind = "try" THEN "candidate" ELSE "active"

UnchangedByJobs == UNCHANGED <<verdict, build, up, ran>>

\* byIdOr404 in the lane; drainBranches takes it for done.
Gone ==
  /\ MyTurn({"try", "start", "stop", "drain"})
  /\ "branch" \notin there
  /\ EndJob(First.kind = "drain")
  /\ UNCHANGED <<there, compute, endpoint, touched>> /\ UnchangedByJobs

\* startLocked: nothing to do, a failed compute to clear away, or a launch.
Already ==
  /\ MyTurn({"try", "start"})
  /\ "branch" \in there
  /\ compute.st = "running"
  /\ EndJob(TRUE)
  /\ UNCHANGED <<there, compute, endpoint, touched>> /\ UnchangedByJobs

Reap ==
  /\ MyTurn({"try", "start"})
  /\ "branch" \in there
  /\ compute.st = "failed"
  /\ Await("reap")
  /\ UNCHANGED <<runner, there, compute, endpoint, deletes, touched, left>> /\ UnchangedByJobs

\* ... whose stop may reject, with the compute gone all the same.
Reaped ==
  /\ At("reap")
  /\ compute' = Down
  /\ \/ Await("turn") /\ UNCHANGED <<runner, endpoint, deletes, left>>
     \/ EndJob(FALSE) /\ UNCHANGED endpoint
  /\ UNCHANGED <<there, touched>> /\ UnchangedByJobs

\* pgbinFor and the reservation, or the candidate's path: with its files gone there is
\* nothing to spawn.
Launch ==
  /\ MyTurn({"try", "start"})
  /\ "branch" \in there
  /\ compute.st = "stopped"
  /\ Await(IF Target = "candidate" /\ ~build THEN "missing" ELSE "launch")
  /\ endpoint' = "starting"
  /\ UNCHANGED <<runner, there, compute, deletes, touched, left>> /\ UnchangedByJobs

\* computes.start resolves, and the row says so.
Launched ==
  /\ At("launch")
  /\ compute' = [st |-> "running", on |-> Target]
  /\ endpoint' = "running"
  /\ Touch
  /\ EndJob(TRUE)
  /\ UNCHANGED there /\ UnchangedByJobs

\* computes.start rejects.
LaunchFails ==
  /\ At("launch") \/ At("missing")
  /\ endpoint' = "failed"
  /\ EndJob(FALSE)
  /\ UNCHANGED <<there, compute, touched>> /\ UnchangedByJobs

\* Mutant: the error is recorded, and the compute runs on.
PersistFailsOnly ==
  /\ At("launch")
  /\ compute' = [st |-> "running", on |-> Target]
  /\ Touch
  /\ endpoint' = "failed"
  /\ EndJob(FALSE)
  /\ UNCHANGED there /\ UnchangedByJobs

\* The compute runs, and the row cannot be written: it is stopped again.
PersistFails ==
  /\ At("launch")
  /\ compute' = [st |-> "running", on |-> Target]
  /\ Touch
  /\ Await("undo")
  /\ UNCHANGED <<runner, there, endpoint, deletes, left>> /\ UnchangedByJobs

Undone ==
  /\ At("undo")
  /\ compute' = Down
  /\ endpoint' = "failed"
  /\ EndJob(FALSE)
  /\ UNCHANGED <<there, touched>> /\ UnchangedByJobs

\* stopLocked, and the leaf of drainBranches.
BeginStop ==
  /\ MyTurn({"stop", "drain"})
  /\ "branch" \in there
  /\ endpoint' = IF First.kind = "stop" THEN "stopping" ELSE endpoint
  /\ Await("stop")
  /\ UNCHANGED <<runner, there, compute, deletes, touched, left>> /\ UnchangedByJobs

\* Mutant: a drain deletes the row of a branch whose compute runs.
DrainUnstopped ==
  /\ At("stop")
  /\ IF First.kind = "stop"
     THEN compute' = Down /\ Touch /\ endpoint' = "stopped" /\ EndJob(TRUE)
     ELSE UNCHANGED <<compute, touched>> /\ Await("engine") /\ UNCHANGED <<endpoint, runner, deletes, left>>
  /\ UNCHANGED there /\ UnchangedByJobs

\* computes.stop: the compute is gone, whether it resolves or rejects.
Stopped ==
  /\ At("stop")
  /\ compute' = Down
  /\ Touch
  /\ \/ First.kind = "stop" /\ endpoint' = "stopped" /\ (EndJob(TRUE) \/ EndJob(FALSE))
     \/ /\ First.kind = "drain"
        /\ UNCHANGED endpoint
        /\ \/ Await("engine") /\ UNCHANGED <<runner, deletes, left>>
           \/ EndJob(FALSE)
  /\ UNCHANGED there /\ UnchangedByJobs

\* The timeline is deleted on the engine, and then the row; or the engine fails.
Drained ==
  /\ At("engine")
  /\ \/ there' = there \ {"branch"} /\ EndJob(TRUE)
     \/ EndJob(FALSE) /\ UNCHANGED there
  /\ UNCHANGED <<compute, endpoint, touched>> /\ UnchangedByJobs

\* The end of projects.delete: the tenant, then the project's row.
DeleteEnds(o) ==
  /\ deletes[o] = "tenant"
  /\ deletes' = [deletes EXCEPT ![o] = "no"]
  /\ \/ there' = there \ {"project"} /\ UNCHANGED left
     \/ left' = (left \/ o = Gate) /\ UNCHANGED there
  /\ UNCHANGED <<verdict, runner, compute, endpoint, lane, build, up, ran, touched>>

Crash ==
  /\ compute.st = "running"
  /\ compute' = [compute EXCEPT !.st = "failed"]
  /\ UNCHANGED <<verdict, runner, there, endpoint, lane, deletes, build, up, ran, touched, left>>

-----------------------------------------------------------------------------
(* Clients, who see the project in every list.                               *)

Request(c, kind) ==
  /\ up
  /\ ~Busy(c)
  /\ "branch" \in there
  /\ lane' = Queued(<<Job(c, kind)>>)
  /\ IF kind = "drain" THEN BeginDelete(c) ELSE UNCHANGED deletes
  /\ UNCHANGED <<verdict, runner, there, compute, endpoint, build, up, ran, touched, left>>

-----------------------------------------------------------------------------
(* A restart: the pull that was in flight has failed and its directory goes       *)
(* (failInterrupted); statuses are reset (reconcileEndpointsOnBoot).             *)

Restarted ==
  /\ verdict' = IF verdict \in {"open", "rm"} THEN "failed" ELSE verdict
  /\ build' = (build /\ verdict \notin {"open", "rm"})
  /\ runner' = Off
  /\ compute' = Down
  /\ endpoint' = "stopped"
  /\ lane' = Free
  /\ deletes' = [o \in Owners |-> "no"]
  /\ up' = FALSE
  /\ left' = FALSE
  /\ UNCHANGED <<there, ran, touched>>

\* Mutant: nothing is swept.
ServeUnswept ==
  /\ ~up
  /\ up' = TRUE
  /\ UNCHANGED there
  /\ UNCHANGED <<verdict, runner, compute, endpoint, lane, deletes, build, ran, touched, left>>

\* sweepValidationProjects, before the daemon listens: a delete that fails fails the
\* boot, and the next one goes on where it stopped.
Sweep ==
  /\ ~up
  /\ \/ "branch" \in there /\ there' = {"project"} /\ UNCHANGED up
     \/ there = {"project"} /\ there' = {} /\ UNCHANGED up
     \/ there = {} /\ up' = TRUE /\ UNCHANGED there
  /\ UNCHANGED <<verdict, runner, compute, endpoint, lane, deletes, build, ran, touched, left>>

-----------------------------------------------------------------------------
Runner ==
  \/ Created \/ CreateFails \/ StartFails \/ Read \/ Answer \/ AnswerFails
  \/ StoppedThenDelete \/ Deleted \/ Settle
Turns ==
  \/ Gone \/ Already \/ Reap \/ Reaped \/ Launch \/ Launched \/ LaunchFails
  \/ PersistFails \/ Undone \/ BeginStop \/ Stopped \/ Drained

GateNext ==
  \/ Runner \/ Turns \/ Timeout \/ Discard \/ Crash \/ Sweep
  \/ \E o \in Owners : DeleteEnds(o)
  \/ \E c \in Clients : Request(c, "start") \/ Request(c, "stop") \/ Request(c, "drain")

\* Every await of the runner, of a job and of a delete answers within a bound of its
\* own (readyTimeout, query_timeout, the engine clients' timeouts, SIGKILL), and a
\* supervisor restarts a boot that failed.  The timer need not fire.
GateFair ==
  /\ WF_gateVars(Runner) /\ WF_gateVars(Turns) /\ WF_gateVars(Discard) /\ WF_gateVars(Sweep)
  /\ \A o \in Owners : WF_gateVars(DeleteEnds(o))

-----------------------------------------------------------------------------
(* Properties.                                                               *)

GateTypeOK ==
  /\ verdict \in {"none", "open", "rm", "ready", "failed"}
  /\ runner \in [pc : {"off", "create", "start", "unstarted", "read", "answer", "stop", "stopped",
                       "delete", "end"},
                 query : 0 .. Queries, aborted : BOOLEAN, ok : BOOLEAN]
  /\ there \in {{}, {"project"}, {"project", "branch"}}
  /\ compute \in [st : {"stopped", "running", "failed"}, on : {"none", "candidate", "active"}]
  /\ endpoint \in {"stopped", "starting", "running", "stopping", "failed"}
  /\ lane.at \in {"turn", "reap", "launch", "missing", "undo", "stop", "engine"}
  /\ \A n \in DOMAIN lane.jobs : lane.jobs[n] \in Jobs
  /\ deletes \in [Owners -> {"no", "drain", "tenant"}]
  /\ build \in BOOLEAN /\ up \in BOOLEAN /\ touched \in BOOLEAN /\ left \in BOOLEAN
  /\ ran \subseteq {"candidate", "active"}

\* A build is ready only if every smoke query was answered by that build: a candidate
\* that crashes fails its gate.  Only a client that starts or stops the gate's own
\* endpoint may spoil this.
PassIsEarned == verdict = "ready" /\ ~touched => ran = {"candidate"}

\* When the runner has settled, however it was cut short, no row and no job of the
\* gate and no compute of its branch is left behind, unless a delete failed.
NothingLeft ==
  up /\ runner.pc = "off" /\ ~left =>
    there = {} /\ compute = Down /\ \A n \in DOMAIN lane.jobs : lane.jobs[n].by # Gate

\* While no job is under way a compute runs only where the row says so.
EndpointHonest == lane.jobs = <<>> /\ compute.st = "running" => endpoint = "running"

\* No compute outlives the deleted build by more than the jobs queued before it, and the
\* project of a gate goes, in this life of the daemon or at the next boot.
DiscardedStops  == verdict = "failed" /\ compute.on = "candidate" ~> compute.on # "candidate"
GateProjectGoes == there # {} ~> (there = {} \/ left)

GateUndone == DiscardedStops /\ GateProjectGoes

=============================================================================
