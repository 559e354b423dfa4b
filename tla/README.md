# DevDB in TLA+

A model of the daemon of DevDB (`packages/daemon`): a Node process that drives the
Neon storage engine, keeps its state in SQLite, runs one Postgres compute per branch
and offers it all over HTTP and MCP.  The daemon is single-threaded, so what can go
wrong is what happens *between* two awaits of a handler: other requests, the death of
a child process, a shutdown, a crash.  The modules turn each await into a control
state and leave everything between two awaits one step.

Contents: 1 inventory · 2 modules · 3 runs · 4 abstractions and bounds · 5 fairness ·
6 proofs · 7 where code and text disagree · 8 only model-checked, not modelled · 9 plan

## 1. Inventory

Paths are under `packages/daemon/src` unless they say otherwise.

| Component | State | Operations | Interacts with | What is hard | What makes it correct |
|---|---|---|---|---|---|
| `ComputeManager` (`compute/manager.ts`) | `computes` (branch → entry), `reservedPorts`, the fields of each entry | `start`, `stop`, `stopAll`, `statusOf` | allocator, `ManagedProcess`, readiness, `/proc`, events | `start` has some ten awaits, `stop` four; `stopAll` bypasses the lanes; processes die at any time | no port handed out twice or leaked; no process without an owner; `running` is true; a stop is final |
| Port allocator (`compute/ports.ts`) | none of its own: the set `reservedPorts` | `allocatePort`, `tryClaim` | TCP probes | a claim spans the probe | a declined or abandoned claim is given back once |
| `ManagedProcess` (`engine/process.ts`) | `_state`, `child` | `start`, `stop`, exit handler | compute_ctl | exit against needle, stop against exit, SIGKILL after the grace period | the state follows the process |
| Readiness (`compute/readiness.ts`) | none | poll until ready, failed or timeout | the compute | the answer is older than the state | a late answer is not believed |
| `BranchQueue` (`state/queue.ts`) | `tails`, `activeLanes` | `run`, `assertLane` | all services | clean-up of a tail against the next append; nested runs | one turn at a time, in order; a lane is valid for one turn; no call waits for itself |
| `ProjectsService` (`services/projects.ts`) | rows | `create`, `delete` (drain) | engine, branches, computes | the drain works from snapshots while others create and restore | the project's row goes last; no orphan timelines |
| `BranchesService` (`services/branches.ts`) | rows | `create`, `rename`, `delete` | engine, computes | checks before the lane, engine calls before the row | rows and timelines agree; parents exist |
| `TimeTravelService` (`services/timetravel.ts`) | rows | `restoreInPlace`, `resetToParent`, `branchAtTimestamp` | engine, endpoints | the identity changes in the middle of a lane; compensation | children follow; the failed swap leaves nothing |
| `EndpointsService` (`services/endpoints.ts`) | status columns | `startLocked`, `stopLocked` | computes, builds | a start queued behind a delete or a swap; a status write that fails once the compute runs | no compute on what is gone; none that the row does not know of |
| `BuildRegistry` (`compute/builds/registry.ts`) | `pg_builds`, `pg_majors`, `degraded` | boot passes, `activate`, `assertRemovable`, `recordRun` | volume, endpoints | crashes between disk and row; the mark that trails the starts | the active build is installed and validated; no silent downgrade |
| `Provisioner` (`compute/builds/provisioner.ts`) | `pulling`, the mutation lane, `lastCheck` | `pull`, `activate`, `remove`, `check` | registry, OCI, gate, volume | a pull outlives minutes of other calls; rows share directories; an answer of the registry is classified late | files are never deleted under their users; no pull is offered that is settled |
| Validation gate (`compute/builds/validate.ts`) | one throwaway project per pull | create, start on the candidate, smoke queries, teardown | projects, endpoints, SQL | its timeout abandons a step under way; every client sees the project; a crash leaves it | a pass is earned by the candidate; nothing of a gate stays |
| OCI client (`compute/builds/oci.ts`) | scratch directories, `destDir` | `pullPrefix`, `applyLayer` | registry, disk | whiteouts against lower layers; a failure at any await | the tree is the overlay of the members under the prefix; a failed pull leaves none |
| `pgdistrib.ts`, `version.ts` | none | links, version | disk | I/O | — |
| `EngineRuntime` (`engine/boot.ts`, `embedded-postgres.ts`, `tracer.ts`) | component processes, the catalog's directory | `start`, `stop` | `ManagedProcess`, observers | a partial boot; a component that dies or hangs; what an unclean stop leaves on disk | stop in the reverse order; no stale pid file |
| Engine clients (`engine/*-client.ts`, `engine/http.ts`) | none | HTTP calls | pageserver, safekeeper, storage controller | an error after the effect | — |
| Repositories, schema (`state/`) | SQLite | statements, `restoreSwap` | all services | constraints that refuse a write | one transaction is one step |
| Boot and shutdown (`index.ts`, `state/reconcile.ts`) | lockfile | boot order, abort, signals | everything | a boot that fails half-way; a kill between two steps; streams that never end | the lockfile goes last; a signal ends the daemon |
| Events, HTTP API, web client (`services/events.ts`, `http/api.ts`, `packages/web/src/api`) | subscribers, open streams, one cached answer | publish, stream, reconnect, invalidate | services, engine, pages | hints lost, dropped or racing a fetch | a connected page is not out of date |
| `SqlService`, logs | buffers | one statement, lines | endpoints | what it finds stopped it may start | the gate never does |
| MCP surface (`mcp/`) | sessions with `lastSeen` | initialize, requests, sweep, close | SDK transports | three parties may close a session | a session is closed once |
| Card of builds (`packages/web/src/settings/PgBuildsCard.tsx`) | its own last check result | check, pull, retry | HTTP API | a check's answer crosses a pull or the response to it | not modelled: it may offer a settled pull (§7) |
| Other web pages, shared types, image builder (`packages/web`, `packages/shared`, `cmd`, `docker`) | — | — | HTTP API | — | — |

`PROJECT.json` gives each component its status, and each hazard the line where it bites
and the properties that would show it.

## 2. Modules

**ComputeManager.tla** — one action per step between two awaits of `start`, `stop` and
`stopAll`, of the allocator's `tryClaim` and of `ManagedProcess`, plus what the processes
do on their own.  An *entry* is the object that one call of `start` creates.

| TLA+ | code |
|---|---|
| `slot`, `reserved`, `phase`, `ports` | `computes`, `reservedPorts`, `entry.phase`, `entry.port/metricsPort/internalHttpPort` |
| `pc[e]`, `at`, `on` | where `start` is suspended; where the lane's and the shutdown's `stop` are, and with which entry |
| `cand`, `tries` | the port `tryClaim` is probing, the draws so far |
| `pstate`, `child`, `leader`, `pg` | `ManagedProcess._state`, its child, compute_ctl, the postgres it spawned |
| `seen` | `statusOf` at the last `endpoint.status` hint |
| `Start`, `Draw`, `ProbeGrants/Declines`, `MakeDir`, `WriteConfig`, `Launch`, `Needle`, `Ready`, … | `start` from its reservation to `running` |
| `GiveUp`, `Caught`, `ReapDir`, `RmDir`, `Release`, `Remove` | its catch: kill, reap by `/proc`, remove the directory, release |
| `Stop`, `StopAll`, `StopKilled`, `StopReap`, `StopRemove` | `stop` of a lane and of the shutdown |
| `Exited`, `LeaderExits`, `PostgresExits`, `SpawnPostgres` | the exit handler; the external processes |

**BranchQueue.tla** — the promise chain of `run`: append to the tail, the chained job, the
work's end, the `finally`, the clean-up one microtask later.  `RestartUnderNewId` is the one
nested use (the restart at the end of a swap).  **Lanes.tla** is what callers rely on: one
queue and one turn per branch, turns beginning in the order of the calls and each ending.
**BranchQueueRefinesLanes.tla** holds the refinement mapping: the abstract queue of a branch is its
unsettled calls, each at the place that the number of calls before it gives.

**Branches.tla** — the requests of the three services on one project: rows (`project`,
`row`), the pageserver's timelines and ancestry (`ps`, `anc`), the computes (`status`), the
lanes, and one record per request in flight (`op`).  `Create`, `Rename`, `Delete`, `Swap`,
`Start`, `Stop` are the handlers up to their first await; `Forked`, `Detached`, `Stopped`,
`Launched`, `DeletePs`, `DeleteSk`, … what follows each answer; `Commit` and `SwapRows` the
database write (`BranchesRepo.create`, `restoreSwap`); `Undo` the compensation; `Visit`,
`Drained`, `DeleteTenant`, `DeleteProjectRow` the project's delete; `Restart` the daemon's death.

**PgBuilds.tla** — the builds of one major: rows (`row`), directories (`disk`), the last-run
mark, the degraded flag, the one pull in flight, the clients' `activate` and `remove`, the
mutation lane, the endpoints.  `Pull` to `Discarded` are the pipeline, `AutoActivate` its
laned end, `Undo`/`Undone` the compensation, `Remove` to `Composed` and `ActivateTurn` the
clients' calls; `Restart` is the whole boot sequence of `index.ts` for the builds
(`seedBaked`, `adoptVolumeBuilds`, `sweepTmp`, `failInterrupted`, `resolveActives`, the
collection of old builds).

**EngineRuntime.tla** — the five components in a chain: `proc`, `child`, `os` are each
`ManagedProcess` and its process, `cluster`, `pid`, `locked` the catalog's directory, `step` and
`k` where `start` or `stop` is suspended.  `Dirs` to `PageserverFiles` are `start`, `Fail` its
catch, `StopIdle` to `StopTracer` `stop`, `Dies`, `TermExits`, `KilledExits` the exits, `Vanish`
the end of the container.  **McpSessions.tla** — the session store: `Initialize`, `Use`,
`Delete`, `Sweep`, `CloseAll`, with `Close` for `transport.close()` and its `onclose`.
**LiveStatus.tla** — one page: its EventSource (`es`), the server's half of the stream (`sub`,
`unread`), and its status query (`fetch`, with what has changed since each answer was computed).
**Daemon.tla** composes the three under `main()`: `main` is where the boot or the shutdown is
suspended, `Engine` publishes what an engine step changes, `Signal` is `preClose`, and `Killed`
is every way the container dies at once.

**OciPull.tla** — `pullPrefix` on a tree of two levels: `fetch` is where it is suspended, `tree`
what `extractRoot` holds, `scratch` the temporary directories, `dest` what `destDir` holds.
`Apply` is `applyLayer` (whiteouts against the lower layers, then `tar -x`), with the cases in
which either refuses; `Overlay` is the reference definition, the union mount of the layers, and
`Inside` what the filter by `underPrefix` leaves of them.

**ValidationGate.tla** — the race in `runPipeline` between `validate()` and its timer.

| TLA+ | code |
|---|---|
| `runner`, `verdict`, `build` | the await the runner is at with its abort; the pipeline's end; `finalDir` |
| `there`, `endpoint`, `compute` | the gate's project and branch rows, `endpoint_status`, `computes.statusOf` and the build it runs |
| `lane`, `deletes` | the jobs on the branch's lane and the await of the first; `projects.delete` calls |
| `Created`, `Read`, `Answer`, `Finally`, `Timeout`, `Discard` | `validate()` and its `finally`; the abort; the pipeline's `rm` |
| `Reap`, `Launch`, `Launched`, `PersistFails`, `Undone`, `LaunchFails` | `startLocked`: the clearing of a failed compute, the launch, the write that fails and its compensation |
| `BeginStop`, `Stopped`, `Drained`, `DeleteEnds` | `stopLocked`; one visit of the drain; the end of the delete |
| `Request`, `Crash`, `Restarted`, `Sweep` | other clients on the same branch; a dying compute; the daemon's death and `sweepValidationProjects` |

**BuildPipeline.tla** composes the two: `Install` renames the pulled tree and opens the gate,
`Reclaim` is the pipeline's own clean-up, `Restart` the death of the daemon in either.

**UpdateChecks.tla** extends `PgBuilds` with `lastCheck` (`known`), the tag the registry calls
`latest`, and a check in flight (`asking`).  `BuildStep` is any step of `PgBuilds` with the refresh
at a pull's end; `Classify` is `classifyDigest`.

`MC*.tla` give TLC its symmetry and finite functions, `*Proofs.tla` hold the proofs.
Operators whose comment begins with "Mutant" are deliberately wrong variants of the
definition below them, one per checked property: substituting one makes TLC report that
property, which shows the property constrains the code.

`Daemon` is a product; the other modules compose through abstraction: `Branches` and `PgBuilds`
use a lane as a lock with arbitrary waiting order, which allows more than `Lanes`, which
`BranchQueue` implements; `ValidationGate` has the lane as the queue it is.  `Branches` and
`ValidationGate` use a compute as its status, which `ComputeManager` justifies (`StatusHonest`,
`ProcessesOwned`), and `PgBuilds` uses the fetch and the gate as steps that succeed or fail, which
`BuildPipeline` opens up.

## 3. Runs

| run | instance | what it shows |
|---|---|---|
| `compute_shutdown` | 2 branches, 2 entries, 2 + 3 ports, 2 draws, `stopAll` at any moment | `PortsExclusive`, `NothingLeaks` (`PortsOwned`, `ProcessesOwned`), `StatusHonest`, `HintsSuffice`, `LiveKeepsAll`, `StopIsFinal` |
| `compute_liveness` | 2 branches, 2 entries, 1 + 2 ports | `NothingHangs` (`LaneFrees`, `StopAllReturns`) |
| `queue` | 3 calls, 3 branches | `Fifo`, `LaneIsTurn`, `TailsExact`, `ImplementsLanes` (refinement of `Lanes`), `EveryCallSettles` |
| `branch_tree` | 3 ids and timelines, 2 requests at once | `RowsBacked`, `NoOrphans`, `TreeWhole` (`ForeignKeys`, `NoCycle`), `CreateForksParent` under every engine failure |
| `branch_endpoints` | 2 ids and timelines, crashes | `StateBacked` (`TreeWhole`, `RowsBacked`, `ComputesBacked`) with starts, stops, crashing computes and restarts |
| `branch_reset_race` (violation) | 4 ids and timelines | a reset against its parent's restore, §7 |
| `build_pull` | 3 rows, 3 images (one mislabelled), 1 client, 1 endpoint, failing `rm` | `FilesKept` (`ActiveUsable`, `InUseKept`, `PullKeepsFiles`), `Validated` |
| `build_restart` | 3 rows, 2 images, crashes, an image that drops the major | `ActiveUsable`, `SilentOnlyByRace` |
| `build_adopt` (violation) | as above | §7 |
| `build_pipeline` | trees of a directory and a file, images of up to 3 layers (3 first layers, the 20 others with markers below `usr/local`, 4 with one of it or above it), 3 smoke queries, 1 client, crashes | `OverlayExact`, `PullTidy`, `PassIsEarned`, `NothingLeft`, `EndpointHonest`, `GateUndone` (`DiscardedStops`, `GateProjectGoes`) |
| `update_checks` | 3 rows, 3 images (one incompatible, one of a baked minor), pulls of `latest` and of pinned tags, a tag that moves, 1 client who activates and removes | `PromptHonest` |
| `daemon` | 5 components, 3 deaths, 1 session, 1 page, buffer of 2 events, kills at any moment | `LockCoversEngine`, `PidFileHonest`, `StopOrder`, `HintsReachClients`, `SessionsOwned`, `CloseEnds` |

Each property is stated in a comment above its definition.  The type invariants are checked
in the first run of their module, but for `BranchQueue`, where `QueueTypeSafe` proves it, and
`UpdateChecks`, which adds to `PgBuilds` nothing whose type is in doubt.

## 4. Abstractions and bounds

- **Two branches suffice for the manager**: entries interact only through ports and
  `stopAll`; two entries of one branch, or one of each of two, both occur.  Two endpoint ports
  and three auxiliary ones (two computes need four) make exhaustion and re-use happen.  `MaxTries`
  stands for 100 draws.  `Forget` lets names of dead entries be used again, so runs are unbounded.
- **"gone"** is a process that has exited or has been sent SIGKILL.  The scan of `/proc` is one
  step; `ReapMissesNone` shows nothing can appear after it.  The sticky port is one of the draws.
- **Timelines**: an engine call takes effect or not, and answers or fails, in all four
  combinations.  A timeline orphaned by such a failure leaves the model, since no code looks at
  it again; `NoOrphans` is therefore about calls that did not fail.  The engine refuses to
  delete a timeline with children: the failing delete covers it.  Drain's 500 on a cycle and its
  retry on a foreign key are left out, being unreachable by `NoCycle` and `ForeignKeys`; the 409
  for an endpoint in transition is unreachable inside a lane.
- **Branch instances**: `MaxRows` bounds the rows.  Three branches give a parent, a child and an
  archived row, or a chain; two concurrent requests give every pairwise race.  With endpoints and
  crashes, three branches are out of reach, and two give a child deleted, restored or drained
  under a queued start.
- **Builds**: one major (the registry treats majors apart).  An image is its digest; the minors
  are 2, 3 and 1, around a baked 1 or 3, so that upgrades, downgrades and duplicates of a
  baked minor occur.  An id stays free for what a boot adopts.  `rm` and `rename` take effect at
  one moment of their await; a failing `rm` removes nothing, half-removed directories are not
  modelled.  A download, and a validation, take longer than a `rm` already under way (`Settled`).
  A restart is one step: a crash during boot repeats passes that are idempotent.
- **Layers**: a directory and one file in it meet every rule of `applyLayer`: a path added,
  replaced, hidden, hidden with its directory, a directory emptied, a file where a directory was
  and the reverse; three layers let a path go and come back.  `Root` in `opaque` is a marker that
  empties `usr/local` itself, which is under the prefix; `outer` stands for every marker that hides
  `usr/local` from above, whose names are not.  A file is the number of its layer.  Links, and a
  member with an unsafe name, are a failure that any layer, or the walk, may meet; digests, tokens
  and the registry's protocol are a fetch that answers or throws.  An entry of a tar has its
  directory before it, as in every image.
- **Gate**: `Queries` are the three smoke queries.  One client suffices: clients only append jobs
  to one lane.  A pull begins when the teardown of the last gate is over; in the code two gates may
  overlap, but each has a project of its own.  An abandoned step stays in its lane until it answers.
- **Checks**: one check at a time: each writes, in one step, the class of an image that `latest` named
  before, and the tag moves at will, so that two at once do no more.  `detectVersion` may run out of
  time also on an incompatible image, whose row is then not condemned.  Endpoints and failing
  removals are left out of the run; the theorem has them.
- **Exits**: a process's exit and the handler that Node runs for it are one step, in
  `ComputeManager` (`LeaderExits`), `ValidationGate`, `Branches` and the engine.  Until the handler
  runs the daemon takes the process for alive, as in the states before the exit; that its probes
  fail by then, and its signals go nowhere, can happen in those states too.
- **Daemon**: `Close` has the transport's `close()` and the `onclose` that it calls back in one step:
  the callback is synchronous, and its re-entrance is the mutant `CloseTwice`.  Three deaths let hints
  fill the buffer of a slow page; a session id is minted once between two boots, and sessions do not
  interact, so one suffices.  Components of the page's answer fall into two kinds, with and without a
  hint.  The first load of the page is left out: until then there is no answer to be out of date.  A
  request is one flag.
- Names, slugs, LSNs, passwords, error texts, logs and the disk's free space carry no property.

## 5. Fairness

`FairSpec` of `ComputeManager` is weak fairness of each suspended `start` and `stop`.  The code
bounds every await there: 100 draws of a port, probes and file operations that answer, 50 s for
the needle and 50 s for readiness, and a SIGKILL after the grace period of a SIGTERM.  Nothing is
assumed of compute_ctl or postgres, which may never start, answer or exit by themselves.

`FairSpec` of `BranchQueue` is weak fairness of each call's steps: promise jobs always run, and
what the work awaits ends (`LaneFrees` for computes, the HTTP client's own timeouts for the engine).
No fairness is assumed of new requests.

`FairSpec` of `Daemon` is weak fairness of the shutdown's own steps: a request in flight is answered
(`Respond`), `close()` returns once nothing is open, each `stop` of a component ends, by SIGKILL after
ten seconds if need be, `rm` and `exit` follow.  Nothing is assumed of clients, of boots, or of the
hard exit after 45 seconds, which `CloseEnds` shows not to be needed when requests are answered.

`GateFair` of `ValidationGate` is weak fairness of the runner, of the job at the head of the lane, of
the deletes and of `rm`: their awaits end by `readyTimeout`, `query_timeout`, the engine clients'
timeouts or a SIGKILL; and of the boot's sweep, as a supervisor restarts a boot that failed.  The
timer need not fire, nor need clients stop asking: a job of the gate waits for those queued before
it.  `Branches`, `PgBuilds`, `OciPull` and `UpdateChecks` have none; their properties are about safety.

## 6. Proofs

Every safety property that a passing run checks is a theorem, for any sets of branches, timelines,
entries, ports, calls, builds, images, clients, endpoints, sessions and requests in flight, with
crashes and failing removals where the model has them; the components, the pull's two levels and
the steps stay as they are.  Nothing is assumed but the named assumptions in the modules: null values
are not members, the bounds are naturals (`MaxTries`, `MaxRows`, `MaxDeaths`, a positive `Buffer`,
`Queries`, `MaxLayers`), what data the constants must be (a kid is in one top, a layer has the
directories of its entries, a build's minor is a positive natural).

- **ComputeManagerProofs**: `TypeSafe`, `PortsSafe` (`PortsExclusive`) and `StopFinal`
  (`StopIsFinal`).  `PortsExclusive` is not inductive: a `Draw` claims a candidate for whatever
  field is next, a release empties the fields of whatever entry a stop holds.  `PortsInv` adds
  `Stages`: which fields can be set, and whether a candidate exists, at each suspension of
  `start`.  Six lemmas (`ClaimPort`, `UnclaimPort`, `RecordPort`, `ReleasePorts`, `DropEntry`,
  `SamePorts`) say what an operation on one entry's ports does to the invariant; each action
  cites one.  `StopFinal` needs only the types and `Stages`: after its fence, a start whose
  entry is stopping goes to its catch.
- **ComputeLifeProofs**: `ComputeNeverLeaks`, `ComputeStatusHonest`, `ComputeHintsSuffice` and
  `ComputeLiveKeepsAll` on top of `PortsInv`.  Their invariant `LifeInv` says for each await of
  `start` what its entry has (`Progress`, `Processes`), that its slot is its own until a stop marks it
  (`Tenure`), that afterwards somebody still holds it (`Kept`), and what a stop may find (`Stops`).
  Only a shutdown stops an entry whose `start` is in flight, because the lane has room for one of them.
- **BranchQueueProofs**: `QueueTypeSafe`, `QueueFifo`, `LaneSafe`, `TailsSafe`.  `Fifo` is
  strengthened to `QueueInv`: the calls of a branch are totally ordered, a waiting call is chained
  on the last unfinished one before it or a later one (`Chained`), the tail is the last unfinished
  call (`TailIsLast`), and before a call that has its turn all is done (`TurnsFinished`).  The
  clean-up is the delicate step: it may clear the tail only because no later call has replaced it.
  `QueueImplementsLanes` is the refinement without its fairness: `Spec => Abstract!Safety`.  Seven
  lemmas about the line of an ordered finite set (`PlaceBound` to `LineLeft`) say that it holds each
  call once, that a call after all others joins its end and that the first one leaves its front; `run`
  is then `Ask`, the first job of a turn `Begin`, the `finally` `End`, everything else a stutter.
  That every place in the line is taken (`LinesFull`) is kept from step to step, which spares an
  induction over its length.
- **BranchesProofs**: `BranchesTypes`, `BranchesTreeWhole`, `BranchesRowsBacked`,
  `BranchesNoOrphans`, `BranchesStateBacked`, `BranchesCreateForksParent`.  `Inv` says what each
  request may rely on at each await because it has its branch's lane (`TurnOK`), where its new
  timeline is (`NewOK`), that no two requests are after one timeline (`Pairs`), and that rows are
  backed.  `NoCycle` alone is not inductive: a restore puts below the new row whatever the engine had
  below the old timeline, which need not be the old row's children.  `Forest` therefore says of
  rows and engine together that in any set of rows some row leads out of it both ways.  The proof also found
  that the model let a timeline's name be used again while a request still read from it; ids
  are fresh in the code, and so they are now in the model (`Sources`).
- **PgBuildsProofs**: `BuildsTypes`, `BuildsActiveUsable`, `BuildsInUseKept` and
  `BuildsSilentOnlyByRace` with crashes at any await, `BuildsFilesKept` and `BuildsValidated` without
  (`~Crashes =>`).  `Inv` ties status, image and directory of a row together (`RowsForm`), has a ready
  build on disk until a removal that holds the lane has taken it (`OnDisk`, `RmOK`, `LaneOK`), an
  endpoint's path be one of a ready build that no removal is after (`InUse`), and lists what the
  pull relies on at each await (`PullOK`, `AloneOK`, `StagingOK`).  With crashes a failed row may claim
  the directory of a build that is pulled again, and its removal takes it; and run `build_adopt`
  refutes `Validated`: these are the two that say `~Crashes`.
- **UpdateChecksProofs**: `ChecksKeepBuilds` (every step is one of `PgBuilds`, so that all of the above
  holds here), and `ChecksPromptHonest`.  What is offered and settled is settled by the pull in flight,
  which refreshes the check when it ends (`KnownOK`); a condemned row is that of a pull that has ended,
  or is about to (`HopelessOK`).  It says `~Crashes`: `lastCheck` is memory, and the theorem is about
  one life of the daemon.
- **BuildPipelineProofs**: `PipelineTypes`, `PullIsOverlay`, `PullCleansUp`, `GatePassIsEarned`,
  `GateNothingLeft`, `GateEndpointHonest`.  `TreeInv`: after n layers the tree is the overlay of what
  the first n have under the prefix (`ApplyIsOverlay` is one layer, `InPrefixFacts` what a marker
  above the prefix would add), and what is in a directory is there because
  the directory is (`Grown`): so a file that takes a directory's place either finds it empty, or tar
  fails and the image is refused.  `KeptInv` follows the directories.  `GateInv` lists the jobs
  the lane can have at each await of the runner (`JobsOK`), what the head of the lane has done to row
  and compute (`HeadOK`), and what the runner's outcome stands for (`RunnerOK`); `Joint`
  says that no gate is open while a pull downloads.
- **DaemonProofs**: `HintsSafe`, `LockSafe`, `PidFileSafe`, `SessionsSafe`, `StopsFromTheEnd`,
  `DaemonTypes`.  `HintsReachClients` speaks of a
  settled page; `HintInv` adds that an answer under way has missed nothing either, unless an event
  is still unread.  `LockCoversEngine` needs to know that nothing is up when the lockfile goes:
  `EngineInv` says that `stop` leaves nothing up behind it (`Swept`), that a process that is up is
  a child or the one awaited (`Owned`), and that only the awaited launch is starting (`Starting`),
  without which a death could send a running daemon into the cleanup of a boot.  `PidInv` adds that
  the postmaster is gone before it is spawned.  `StopOrder` is an action property and follows from
  `Swept`; `SessionsOwned` is inductive as it stands, `Close` being one lemma for its three callers.

## 7. Where code and text disagree

1. `branch_reset_race`: a reset reads its parent's timeline, then awaits; a restore of the parent
   that commits meanwhile leaves the reset branch on the archived timeline, under the new parent.
2. `build_adopt`: a crash between `rename` and the row's update makes boot adopt a build the
   gate never saw as ready.

Other observations, which no run is spent on.

- *Downgrade.*  An older build is activated while a start on the newer one is in flight
  (`endpoints.ts:143`); the start then raises the mark above the active build and nothing flags
  it.  `SilentOnlyByRace` shows that this interleaving is the only way.
- *storcon_db.*  The engine's comment (`boot.ts:64`) excludes it from the state hints since its state
  changes only during boot and shutdown; its postmaster may die under a connected page, which goes
  on showing a healthy engine until something else makes it ask.
- *Reap.*  Its comment expects at most one match; at shutdown a second `stop` of an entry meets
  compute_ctl and postgres together, harmlessly.
- *initdb* writes `PG_VERSION` before it is done: killed in between, it leaves a directory that
  `init` takes for complete, so that every later boot fails (`cluster = "torn"` in `EngineRuntime`).
- *Gate and clients.*  The gate's branch is in every list.  A client that starts it after the
  candidate has crashed starts the active build, whose answers then pass the candidate;
  `PassIsEarned` exempts what a client has touched.
- *Gate and timer.*  The teardown counts against the budget: one slower than what remains turns a
  pass into "gate timed out" (`validate.ts:86`).  A sweep that fails at boot fails the boot.
- *Restore in a queue.*  A restore archives the id that a queued tool call holds (`tools.ts:382`,
  which `timetravel.test.ts:354` knows): the call then acts on the archived row.
- *Layers.*  `oci.ts:15-17` says "overlay-style".  A layer that deletes `usr/local`, or empties a
  directory above it, says so with a member outside the prefix, which the filter (`oci.ts:139`) drops:
  the lower layers' files stay (`outer` in `OciPull`; no Postgres image is known to do so).  A file
  that a layer replaces by an opaque directory, or a directory with something in it that a layer
  replaces by a file, makes the pull throw, which is safe.  The spool directory stays if the second
  `mkdtemp` fails.
- *Badge.*  `PgBuildsCard.tsx:214-216` says that a pull must clear the card's own check result, or a
  stale "unverified latest" badge stays over an "up to date" row.  `onSuccess` (`:188`) clears it when
  the POST is answered, which is when the pull begins; a check that answers while the pull runs
  classifies the image as unverified and fills it again (`:243`), and the badge outlives the pull
  until the next check.  A lost response, and a pull that the card did not ask for, do the same.

## 8. What the results do not say

Only model-checked, on the instances above: liveness (`NothingHangs`, `EveryCallSettles`, `CloseEnds`,
`GateUndone`) and the fairness part of `ImplementsLanes`, since arguments under fairness are outside
the proofs.  The theorems about `FilesKept`, `Validated` and `PromptHonest` do not speak of a
daemon that crashes (§6).  A proof is about the model: where §4 abstracts, so
does it; a boot of `PgBuilds`, for one, is a single step.  Of the torn directory above: nothing here
says that a boot eventually succeeds.
`PromptHonest` is about an image that can be told to be settled: a cached "current" that a removal
has made wrong, or one minor under two digests, is not covered.

Not modelled: the card of builds and the other web pages; the MCP tools and the routes that only
call a service; logs; the registry's protocol and tar's format; the image builder.
`branchAtTimestamp` is a create at an LSN, and LSNs are data.  A `rm` that fails half-way leaves a
damaged directory until the next boot; rows and directories are whole in `PgBuilds`.  A swap that
fails after `detach_ancestor` leaves the engine's children moved: `Branches` has the ancestry, but
no property claims it is undone, since the code does not.  A request or MCP tool call that outlives
its stream may start a compute after `stopAll`; the computes are one step of `Daemon`.  The reasons
are in `PROJECT.json`.

## 9. Plan

1. Done: `ComputeManager`, `BranchQueue` and `Lanes`, `Branches`, `PgBuilds`, `Daemon` with its
   three parts, `OciPull` and `ValidationGate` in `BuildPipeline`, `UpdateChecks`; the proofs of §6.
2. Theorems to add: that `Branches` as seen by one branch uses its lane as `Lanes` allows; the
   tightest crash-tolerant forms of `FilesKept` and `Validated` (what a boot may adopt, and which
   failed row may claim a directory); `StatusHonest` and `EndpointHonest` joined into one statement
   about a row and its processes; the guards that exclude a deadlock of the queue (no call waits for
   one that waits for it), as the safety half of `EveryCallSettles`.
3. Models to add: the MCP tools that chain several services on one branch; an abstract
   `EndpointLife` (stopped, starting, running, failed) that `ComputeManager` implements; pulls that
   succeed one another while the last gate is still being torn down.
