---------------------------- MODULE ComputeManager ----------------------------
(* The daemon's ComputeManager (compute/manager.ts) with the port allocator    *)
(* (compute/ports.ts) and the child process it drives (engine/process.ts,      *)
(* detached mode).  Every `await` of start() and stop() is a control state, so *)
(* all interleavings of the event loop between two awaits are behaviours.      *)
(*                                                                             *)
(* An entry is the RunningCompute object one call of start() creates.  A       *)
(* stopper is one of the two callers of stop(): the branch's own queue lane    *)
(* ("lane"), or the daemon's shutdown ("all"), which bypasses the lanes.       *)
(* "gone" stands for a process that has exited or has been sent SIGKILL.       *)
EXTENDS Naturals, FiniteSets, Functions

CONSTANTS Branches, Entries,
          Ports,       \* DEVDB_PORT_RANGE
          AuxPorts,    \* 40000-40999: metrics and internal HTTP
          MaxTries,    \* random draws of one allocatePort call (100 in the code)
          NoBranch, NoEntry, NoPort,
          Shutdown     \* may stopAll() run?

ASSUME CmAssumption ==
  /\ NoBranch \notin Branches
  /\ NoEntry \notin Entries
  /\ NoPort \notin Ports \cup AuxPorts
  /\ MaxTries \in Nat
  /\ Shutdown \in BOOLEAN

VARIABLES
  slot,      \* computes: the entry a branch maps to
  reserved,  \* reservedPorts
  pc,        \* where each entry's start() is suspended
  br,        \* the branch of the entry
  phase,     \* entry.phase
  ports,     \* entry.port, entry.metricsPort, entry.internalHttpPort
  cand,      \* the candidate an allocatePort call has claimed and is probing
  tries,     \* draws this allocatePort call has made
  made,      \* entries whose dir is recorded
  disk,      \* entries whose dir exists on disk
  pstate,    \* ManagedProcess._state, "none" before entry.proc is built
  child,     \* ManagedProcess.child # null
  leader,    \* compute_ctl
  pg,        \* the postgres it spawns, a member of its process group
  at, on,    \* where each stop() is suspended, and the entry it holds
  down,      \* stopAll() has been called
  seen       \* statusOf(b) when the last endpoint.status hint fired

entryVars == <<br, phase, ports, cand, tries, made>>
procVars  == <<pstate, child, leader, pg>>
stopVars  == <<at, on, down>>
vars == <<slot, reserved, pc, entryVars, disk, procVars, stopVars, seen>>

Kinds    == {"port", "metrics", "http"}
NoPorts  == [k \in Kinds |-> NoPort]
Stoppers == {"lane", "all"}
RangeOf(k) == IF k = "port" THEN Ports ELSE AuxPorts
AllPorts == Ports \cup AuxPorts

Starting == {"port", "mkdir", "config", "metrics", "http", "needle",
             "waitReady", "killing", "caught", "reap", "remove"}
PCs      == Starting \cup {"new", "running", "failed"}

Held(e)    == {ports[e][k] : k \in Kinds} \ {NoPort}
Claimed(e) == Held(e) \cup ({cand[e]} \ {NoPort})

\* Mutant: "running" as soon as the process is, without the readiness window.
StatusWithoutGate(b) ==
  LET e == slot[b] IN
  IF e = NoEntry                THEN "stopped"
  ELSE IF phase[e] = "stopping" THEN "stopping"
  ELSE IF pstate[e] = "none"    THEN "starting"
  ELSE pstate[e]

\* statusOf
Status(b) ==
  LET e == slot[b] IN
  IF e = NoEntry                THEN "stopped"
  ELSE IF phase[e] = "stopping" THEN "stopping"
  ELSE IF pstate[e] = "none"    THEN "starting"
  ELSE IF phase[e] = "starting" /\ pstate[e] # "failed" THEN "starting"
  ELSE pstate[e]

\* notifyStatus: an /api/events hint, after which clients read statusOf again
Notify(b) == seen' = [seen EXCEPT ![b] = Status(b)']

\* Mutant: the fence checks the slot only.
FenceOnIdentity(e) == slot[br[e]] = e

\* assertStillStarting
Fence(e) == slot[br[e]] = e /\ phase[e] = "starting"

\* A lane runs one operation of its branch at a time.
LaneBusy(b) ==
  \/ \E e \in Entries : br[e] = b /\ pc[e] \in Starting
  \/ at["lane"][b] # "idle"

Init ==
  /\ slot = [b \in Branches |-> NoEntry]
  /\ reserved = {}
  /\ pc = [e \in Entries |-> "new"]
  /\ br = [e \in Entries |-> NoBranch]
  /\ phase = [e \in Entries |-> "starting"]
  /\ ports = [e \in Entries |-> NoPorts]
  /\ cand = [e \in Entries |-> NoPort]
  /\ tries = [e \in Entries |-> 0]
  /\ made = {}
  /\ disk = {}
  /\ pstate = [e \in Entries |-> "none"]
  /\ child = [e \in Entries |-> FALSE]
  /\ leader = [e \in Entries |-> "none"]
  /\ pg = [e \in Entries |-> "none"]
  /\ at = [a \in Stoppers |-> [b \in Branches |-> "idle"]]
  /\ on = [a \in Stoppers |-> [b \in Branches |-> NoEntry]]
  /\ down = FALSE
  /\ seen = [b \in Branches |-> "stopped"]

-----------------------------------------------------------------------------
(* start(): the setup before the process exists.                             *)

\* The synchronous reservation.  Another entry in the slot makes start() throw
\* before it changes anything.
Start(e, b) ==
  /\ pc[e] = "new"
  /\ ~LaneBusy(b)
  /\ slot[b] = NoEntry
  /\ pc' = [pc EXCEPT ![e] = "port"]
  /\ br' = [br EXCEPT ![e] = b]
  /\ slot' = [slot EXCEPT ![b] = e]
  /\ UNCHANGED <<reserved, phase, ports, cand, tries, made, disk, procVars, stopVars>>
  /\ Notify(b)

\* The catch of start() once nothing of the entry runs: the slot goes first (if
\* it is still this entry's), then the directory, and with no directory to wait
\* for the ports go in the same step.
GiveUp(e, held, hasDir) ==
  /\ slot' = IF slot[br[e]] = e THEN [slot EXCEPT ![br[e]] = NoEntry] ELSE slot
  /\ pc' = [pc EXCEPT ![e] = IF hasDir THEN "reap" ELSE "failed"]
  /\ ports' = [ports EXCEPT ![e] = IF hasDir THEN held ELSE NoPorts]
  /\ reserved' = IF hasDir THEN reserved
                 ELSE reserved \ {held[k] : k \in Kinds}
  /\ Notify(br[e])

\* Mutant: one draw too many.
DrawOnceMore(e, p) ==
  /\ pc[e] \in Kinds
  /\ cand[e] = NoPort
  /\ tries[e] <= MaxTries
  /\ p \in RangeOf(pc[e]) \ reserved
  /\ tries' = [tries EXCEPT ![e] = @ + 1]
  /\ reserved' = reserved \cup {p}
  /\ cand' = [cand EXCEPT ![e] = p]
  /\ UNCHANGED <<slot, pc, br, phase, ports, made, disk, procVars, stopVars, seen>>

\* tryClaim up to its await: a reserved candidate is skipped, a free one is
\* claimed before the probe.
Draw(e, p) ==
  /\ pc[e] \in Kinds
  /\ cand[e] = NoPort
  /\ tries[e] < MaxTries
  /\ p \in RangeOf(pc[e])
  /\ tries' = [tries EXCEPT ![e] = @ + 1]
  /\ IF p \in reserved
     THEN UNCHANGED <<reserved, cand>>
     ELSE /\ reserved' = reserved \cup {p}
          /\ cand' = [cand EXCEPT ![e] = p]
  /\ UNCHANGED <<slot, pc, br, phase, ports, made, disk, procVars, stopVars, seen>>

\* The probe found the port bound.
ProbeDeclines(e) ==
  /\ cand[e] # NoPort
  /\ reserved' = reserved \ {cand[e]}
  /\ cand' = [cand EXCEPT ![e] = NoPort]
  /\ UNCHANGED <<slot, pc, br, phase, ports, tries, made, disk, procVars, stopVars, seen>>

\* PortExhaustedError
Exhausted(e) ==
  /\ pc[e] \in Kinds
  /\ cand[e] = NoPort
  /\ tries[e] = MaxTries
  /\ UNCHANGED <<br, phase, cand, tries, made, disk, procVars, stopVars>>
  /\ GiveUp(e, ports[e], e \in made)

\* new ManagedProcess and the synchronous part of its start(); when spawn throws,
\* the catch calls proc.stop(), which finds no child.
Launch(e) ==
  /\ \/ /\ pc' = [pc EXCEPT ![e] = "needle"]
        /\ pstate' = [pstate EXCEPT ![e] = "starting"]
        /\ child' = [child EXCEPT ![e] = TRUE]
        /\ leader' = [leader EXCEPT ![e] = "alive"]
     \/ /\ pc' = [pc EXCEPT ![e] = "caught"]
        /\ pstate' = [pstate EXCEPT ![e] = "stopped"]
        /\ UNCHANGED <<child, leader>>
  /\ Notify(br[e])

\* The probe grants the candidate: record it on the entry, then the fence, then
\* what runs up to the next await.
ProbeGrants(e) ==
  LET held == [ports[e] EXCEPT ![pc[e]] = cand[e]] IN
  /\ cand[e] # NoPort
  /\ cand' = [cand EXCEPT ![e] = NoPort]
  /\ tries' = [tries EXCEPT ![e] = 0]
  /\ UNCHANGED <<br, phase, made, disk, pg, stopVars>>
  /\ IF Fence(e)
     THEN /\ ports' = [ports EXCEPT ![e] = held]
          /\ UNCHANGED <<slot, reserved>>
          /\ \/ /\ pc[e] # "http"
                /\ pc' = [pc EXCEPT ![e] = IF @ = "port" THEN "mkdir" ELSE "http"]
                /\ UNCHANGED <<pstate, child, leader, seen>>
             \/ /\ pc[e] = "http"
                /\ Launch(e)
     ELSE /\ UNCHANGED <<pstate, child, leader>>
          /\ GiveUp(e, held, e \in made)

\* mkdir and mkdtemp, then the fence.
MakeDir(e) ==
  /\ pc[e] = "mkdir"
  /\ made' = made \cup {e}
  /\ disk' = disk \cup {e}
  /\ UNCHANGED <<br, phase, cand, tries, procVars, stopVars>>
  /\ IF Fence(e)
     THEN /\ pc' = [pc EXCEPT ![e] = "config"]
          /\ UNCHANGED <<slot, ports, reserved, seen>>
     ELSE GiveUp(e, ports[e], TRUE)

MakeDirFails(e) ==
  /\ pc[e] = "mkdir"
  /\ UNCHANGED <<br, phase, cand, tries, made, disk, procVars, stopVars>>
  /\ GiveUp(e, ports[e], FALSE)

\* The two writeFile calls; no fence follows them.
WriteConfig(e) ==
  /\ pc[e] = "config"
  /\ e \in disk
  /\ pc' = [pc EXCEPT ![e] = "metrics"]
  /\ UNCHANGED <<slot, reserved, entryVars, disk, procVars, stopVars, seen>>

WriteConfigFails(e) ==
  /\ pc[e] = "config"
  /\ UNCHANGED <<br, phase, cand, tries, made, disk, procVars, stopVars>>
  /\ GiveUp(e, ports[e], TRUE)

-----------------------------------------------------------------------------
(* start(): from the spawn to "running".                                     *)

\* SIGKILL to the process group of a live leader.
KillGroup(e) ==
  /\ leader' = [leader EXCEPT ![e] = "gone"]
  /\ pg' = [pg EXCEPT ![e] = IF @ = "alive" THEN "gone" ELSE @]

\* proc.stop() up to its first await, called from start()'s catch: with a child it
\* sends SIGTERM and waits for the group, otherwise it returns at once.
StopProc(e) ==
  /\ pstate' = [pstate EXCEPT ![e] = "stopped"]
  /\ child' = [child EXCEPT ![e] = FALSE]
  /\ pc' = [pc EXCEPT ![e] = IF child[e] THEN "killing" ELSE "caught"]

\* onStateChange, which setState calls only when the state differs.
NotifyState(e) == IF pstate'[e] = pstate[e] THEN UNCHANGED seen ELSE Notify(br[e])

\* The needle line arrives and nobody stopped the process meanwhile.
Needle(e) ==
  /\ pc[e] = "needle"
  /\ pg[e] # "none"
  /\ pstate[e] = "starting" /\ child[e]
  /\ pc' = [pc EXCEPT ![e] = "waitReady"]
  /\ pstate' = [pstate EXCEPT ![e] = "running"]
  /\ UNCHANGED <<slot, reserved, entryVars, disk, child, leader, pg, stopVars>>
  /\ NotifyState(e)

\* The needle wait fails: timeout, exit before ready, or a needle that comes after
\* stop().  ManagedProcess.start()'s catch drops the child and kills what lives;
\* the proc.stop() of the manager's catch then finds no child.
NotReady(e) ==
  /\ pc[e] = "needle"
  /\ pc' = [pc EXCEPT ![e] = "caught"]
  /\ pstate' = [pstate EXCEPT ![e] = "stopped"]
  /\ child' = [child EXCEPT ![e] = FALSE]
  /\ IF leader[e] = "alive" THEN KillGroup(e) ELSE UNCHANGED <<leader, pg>>
  /\ UNCHANGED <<slot, reserved, entryVars, disk, stopVars>>
  /\ NotifyState(e)

\* waitComputeReady answers "running": the fence, then the commit.  The answer may
\* be older than a crash or a stop().
Ready(e) ==
  /\ pc[e] = "waitReady"
  /\ UNCHANGED <<slot, reserved, br, ports, cand, tries, made, disk, leader, pg, stopVars>>
  /\ IF Fence(e)
     THEN /\ pc' = [pc EXCEPT ![e] = "running"]
          /\ phase' = [phase EXCEPT ![e] = "running"]
          /\ UNCHANGED <<pstate, child>>
          /\ Notify(br[e])
     ELSE /\ StopProc(e)
          /\ UNCHANGED phase
          /\ NotifyState(e)

\* status="failed", or the 50 s deadline.
ReadyFails(e) ==
  /\ pc[e] = "waitReady"
  /\ StopProc(e)
  /\ UNCHANGED <<slot, reserved, entryVars, disk, leader, pg, stopVars>>
  /\ NotifyState(e)

\* proc.stop() resolves: the leader and its group are gone, by SIGTERM or by the
\* SIGKILL at the deadline.
Killed(e) ==
  /\ pc[e] = "killing"
  /\ KillGroup(e)
  /\ pc' = [pc EXCEPT ![e] = "caught"]
  /\ UNCHANGED <<slot, reserved, entryVars, disk, pstate, child, stopVars, seen>>

\* The catch decides who tears down: a stop() that has taken the entry, or start().
Caught(e) ==
  /\ pc[e] = "caught"
  /\ UNCHANGED <<br, phase, cand, tries, made, disk, procVars, stopVars>>
  /\ IF slot[br[e]] # e \/ phase[e] = "stopping"
     THEN /\ pc' = [pc EXCEPT ![e] = "failed"]
          /\ UNCHANGED <<slot, ports, reserved, seen>>
     ELSE GiveUp(e, ports[e], TRUE)

\* Mutants: no reap at all; a reap that matches postgres only.
ReapNothing(e) == UNCHANGED <<leader, pg>>

ReapPostgresOnly(e) ==
  /\ pg' = [pg EXCEPT ![e] = IF @ = "alive" THEN "gone" ELSE @]
  /\ UNCHANGED leader

\* reapOrphanedPostgres: every process whose command line names the data
\* directory, which is compute_ctl (--pgdata) as well as postgres.  (ReapMissesNone
\* below is why the scan and the kills can be one step.)
ReapDir(e) ==
  /\ leader' = [leader EXCEPT ![e] = IF @ = "alive" THEN "gone" ELSE @]
  /\ pg' = [pg EXCEPT ![e] = IF @ = "alive" THEN "gone" ELSE @]

\* Mutant: no onStateChange seam, so a crash announces nothing.
ExitedSilently(e) ==
  /\ child' = [child EXCEPT ![e] = FALSE]
  /\ pstate' = [pstate EXCEPT ![e] = IF child[e] /\ @ = "running" THEN "failed" ELSE @]
  /\ UNCHANGED seen

\* The leader's exit event, seen by ManagedProcess's handler.
Exited(e) ==
  /\ child' = [child EXCEPT ![e] = FALSE]
  /\ pstate' = [pstate EXCEPT ![e] = IF child[e] /\ @ = "running" THEN "failed" ELSE @]
  /\ NotifyState(e)

Reap(e) ==
  /\ pc[e] = "reap"
  /\ ReapDir(e)
  /\ pc' = [pc EXCEPT ![e] = "remove"]
  /\ UNCHANGED <<slot, reserved, entryVars, disk, stopVars>>
  /\ Exited(e)

\* rm (which may fail: the directory then leaks), and releasePort three times.
RmDir(e) == disk' = disk \ {e} \/ UNCHANGED disk

\* Mutant: the fields are not nulled.
ReleaseWithoutNull(e) ==
  /\ reserved' = reserved \ Held(e)
  /\ UNCHANGED ports

Release(e) ==
  /\ reserved' = reserved \ Held(e)
  /\ ports' = [ports EXCEPT ![e] = NoPorts]

Remove(e) ==
  /\ pc[e] = "remove"
  /\ RmDir(e)
  /\ Release(e)
  /\ pc' = [pc EXCEPT ![e] = "failed"]
  /\ UNCHANGED <<slot, br, phase, cand, tries, made, procVars, stopVars, seen>>

-----------------------------------------------------------------------------
(* stop() and stopAll().                                                     *)

\* The synchronous part of stop(b) for every b of B, up to its first await: with a
\* child, SIGTERM and wait; without, the finally block starts in the same turn.
BeginStop(a, B) ==
  LET taken == {slot[b] : b \in B} \ {NoEntry}
      dying == {e \in taken : child[e]}
      freed == {e \in taken : ~child[e] /\ e \notin made}
      Next_(b) == IF slot[b] \in dying THEN "killing"
                  ELSE IF slot[b] \in freed THEN "idle" ELSE "reap"
      mine(b) == b \in B /\ slot[b] # NoEntry
  IN
  /\ taken # {}
  /\ phase' = [e \in Entries |-> IF e \in taken THEN "stopping" ELSE phase[e]]
  /\ pstate' = [e \in Entries |-> IF e \in taken /\ pstate[e] # "none"
                                  THEN "stopped" ELSE pstate[e]]
  /\ child' = [e \in Entries |-> child[e] /\ e \notin taken]
  /\ slot' = [b \in Branches |-> IF b \in B /\ slot[b] \notin dying
                                 THEN NoEntry ELSE slot[b]]
  /\ ports' = [e \in Entries |-> IF e \in freed THEN NoPorts ELSE ports[e]]
  /\ reserved' = reserved \ UNION {Held(e) : e \in freed}
  /\ at' = [at EXCEPT ![a] = [b \in Branches |-> IF mine(b) THEN Next_(b) ELSE @[b]]]
  /\ on' = [on EXCEPT ![a] = [b \in Branches |->
                                IF mine(b) /\ slot[b] \notin freed THEN slot[b] ELSE @[b]]]
  /\ seen' = [b \in Branches |->
                IF ~mine(b) THEN seen[b]
                ELSE IF slot[b] \in freed THEN "stopped" ELSE "stopping"]
  /\ UNCHANGED <<pc, br, cand, tries, made, disk, leader, pg>>

\* In the branch's lane: an endpoint stop, a delete, a swap or a failed start.
Stop(b) ==
  /\ ~LaneBusy(b)
  /\ BeginStop("lane", {b})
  /\ UNCHANGED down

\* Shutdown takes every mapped branch in one turn, whatever its lane is doing.
StopAll ==
  /\ Shutdown /\ ~down
  /\ down' = TRUE
  /\ BeginStop("all", Branches)

\* Mutant: waits for the group without the SIGKILL at the deadline.
StopKilledByTermOnly(a, b) ==
  LET e == on[a][b] IN
  /\ at[a][b] = "killing"
  /\ leader[e] = "gone" /\ pg[e] # "alive"
  /\ slot' = IF slot[b] = e THEN [slot EXCEPT ![b] = NoEntry] ELSE slot
  /\ at' = [at EXCEPT ![a][b] = "reap"]
  /\ UNCHANGED <<reserved, pc, entryVars, disk, procVars, on, down, seen>>

\* proc.stop(30s) resolved: the finally block deletes the slot, if it still is
\* this entry's.
StopKilled(a, b) ==
  LET e == on[a][b] IN
  /\ at[a][b] = "killing"
  /\ KillGroup(e)
  /\ slot' = IF slot[b] = e THEN [slot EXCEPT ![b] = NoEntry] ELSE slot
  /\ at' = [at EXCEPT ![a][b] = "reap"]
  /\ UNCHANGED <<reserved, pc, entryVars, disk, pstate, child, on, down, seen>>

StopReap(a, b) ==
  LET e == on[a][b] IN
  /\ at[a][b] = "reap"
  /\ ReapDir(e)
  /\ at' = [at EXCEPT ![a][b] = "remove"]
  /\ UNCHANGED <<slot, reserved, pc, entryVars, disk, on, down>>
  /\ Exited(e)

StopRemove(a, b) ==
  LET e == on[a][b] IN
  /\ at[a][b] = "remove"
  /\ RmDir(e)
  /\ Release(e)
  /\ at' = [at EXCEPT ![a][b] = "idle"]
  /\ on' = [on EXCEPT ![a][b] = NoEntry]
  /\ UNCHANGED <<slot, pc, br, phase, cand, tries, made, procVars, down>>
  /\ Notify(b)

-----------------------------------------------------------------------------
(* The processes on their own.                                               *)

SpawnPostgres(e) ==
  /\ leader[e] = "alive"
  /\ pg[e] = "none"
  /\ pg' = [pg EXCEPT ![e] = "alive"]
  /\ UNCHANGED <<slot, reserved, pc, entryVars, disk, pstate, child, leader, stopVars, seen>>

PostgresExits(e) ==
  /\ pg[e] = "alive"
  /\ pg' = [pg EXCEPT ![e] = "gone"]
  /\ UNCHANGED <<slot, reserved, pc, entryVars, disk, pstate, child, leader, stopVars, seen>>

\* compute_ctl crashes, or exits on SIGTERM and orphans its postgres.
LeaderExits(e) ==
  /\ leader[e] = "alive"
  /\ leader' = [leader EXCEPT ![e] = "gone"]
  /\ UNCHANGED <<slot, reserved, pc, entryVars, disk, pg, stopVars>>
  /\ Exited(e)

\* The entry object is garbage; the model reuses its name for a later start().
\* (A directory whose rm failed stays behind; its name is never used again.)
Forget(e) ==
  /\ pc[e] \in {"running", "failed"}
  /\ slot[br[e]] # e
  /\ \A a \in Stoppers, b \in Branches : on[a][b] # e
  /\ leader[e] # "alive" /\ pg[e] # "alive" /\ Held(e) = {}
  /\ pc' = [pc EXCEPT ![e] = "new"]
  /\ br' = [br EXCEPT ![e] = NoBranch]
  /\ phase' = [phase EXCEPT ![e] = "starting"]
  /\ tries' = [tries EXCEPT ![e] = 0]
  /\ made' = made \ {e}
  /\ disk' = disk \ {e}
  /\ pstate' = [pstate EXCEPT ![e] = "none"]
  /\ leader' = [leader EXCEPT ![e] = "none"]
  /\ pg' = [pg EXCEPT ![e] = "none"]
  /\ UNCHANGED <<slot, reserved, ports, cand, child, stopVars, seen>>

-----------------------------------------------------------------------------
\* What the event loop resolves within a bounded time: probes, file operations,
\* and waits that carry a timeout.
Resume(e) ==
  \/ \E p \in AllPorts : Draw(e, p)
  \/ ProbeDeclines(e) \/ ProbeGrants(e) \/ Exhausted(e)
  \/ MakeDir(e) \/ MakeDirFails(e) \/ WriteConfig(e) \/ WriteConfigFails(e)
  \/ Needle(e) \/ NotReady(e) \/ Ready(e) \/ ReadyFails(e)
  \/ Killed(e) \/ Caught(e) \/ Reap(e) \/ Remove(e)

ResumeStop(a, b) == StopKilled(a, b) \/ StopReap(a, b) \/ StopRemove(a, b)

Next ==
  \/ \E e \in Entries, b \in Branches : Start(e, b)
  \/ \E e \in Entries : Resume(e)
  \/ \E b \in Branches : Stop(b)
  \/ StopAll
  \/ \E a \in Stoppers, b \in Branches : ResumeStop(a, b)
  \/ \E e \in Entries :
       SpawnPostgres(e) \/ PostgresExits(e) \/ LeaderExits(e) \/ Forget(e)

Spec == Init /\ [][Next]_vars

FairSpec ==
  /\ Spec
  /\ \A e \in Entries : WF_vars(Resume(e))
  /\ \A a \in Stoppers, b \in Branches : WF_vars(ResumeStop(a, b))

-----------------------------------------------------------------------------
(* Properties.                                                               *)

StateType ==
  /\ slot \in [Branches -> Entries \cup {NoEntry}]
  /\ reserved \subseteq AllPorts
  /\ pc \in [Entries -> PCs]
  /\ br \in [Entries -> Branches \cup {NoBranch}]
  /\ phase \in [Entries -> {"starting", "running", "stopping"}]
  /\ ports \in [Entries -> [Kinds -> AllPorts \cup {NoPort}]]
  /\ cand \in [Entries -> AllPorts \cup {NoPort}]
  /\ tries \in [Entries -> 0..MaxTries]
  /\ made \subseteq Entries
  /\ disk \subseteq Entries
  /\ pstate \in [Entries -> {"none", "starting", "running", "failed", "stopped"}]
  /\ child \in [Entries -> BOOLEAN]
  /\ leader \in [Entries -> {"none", "alive", "gone"}]
  /\ pg \in [Entries -> {"none", "alive", "gone"}]
  /\ at \in [Stoppers -> [Branches -> {"idle", "killing", "reap", "remove"}]]
  /\ on \in [Stoppers -> [Branches -> Entries \cup {NoEntry}]]
  /\ down \in BOOLEAN

Statuses == {"stopped", "stopping", "starting", "running", "failed"}

TypeOK == StateType /\ seen \in [Branches -> Statuses]

\* No port is ever handed out twice: what one entry holds or is probing, no other
\* entry holds or probes, and no entry holds it for two purposes.
PortsDisjoint ==
  /\ \A e, f \in Entries : e # f => Claimed(e) \cap Claimed(f) = {}
  /\ \A e \in Entries : \A k, l \in Kinds :
       k # l /\ ports[e][k] # NoPort => ports[e][k] # ports[e][l]
  /\ \A e \in Entries : cand[e] # NoPort => cand[e] \notin Held(e)

\* reservedPorts is exactly what the entries hold or probe: the double release of
\* a start() and a stop() that unwind one entry never evicts another owner's claim,
\* and no claim outlives its owner's fields.
ReservedExact == reserved = UNION {Claimed(e) : e \in Entries}

PortsExclusive == PortsDisjoint /\ ReservedExact

\* Somebody will still tear the entry down: it is mapped, its start() is in
\* flight, or a stop() has it.
Owned(e) ==
  \/ pc[e] \in Starting
  \/ pc[e] # "new" /\ slot[br[e]] = e
  \/ \E a \in Stoppers, b \in Branches : on[a][b] = e

Alive(e) == leader[e] = "alive" \/ pg[e] = "alive"

\* However start(), stop() and stopAll() interleave, no port stays reserved for an
\* entry that no one will release, and no compute_ctl or postgres runs that neither
\* the map nor an unfinished call of start() or stop() knows of.
NothingLeaks == \A e \in Entries : Claimed(e) # {} \/ Alive(e) => Owned(e)

\* statusOf says "running" (and detail() hands out the connection string) only for
\* a compute whose start() committed, whose process lives in its directory and
\* which holds all three ports.
StatusHonest ==
  \A b \in Branches :
    Status(b) = "running" =>
      LET e == slot[b] IN
      /\ pc[e] = "running" /\ br[e] = b
      /\ leader[e] = "alive"
      /\ e \in disk
      /\ \A k \in Kinds : ports[e][k] # NoPort

\* Between two turns, a client that re-read the status at every hint has the status
\* statusOf now reports, except while a stop() is removing the directory.
HintsSuffice ==
  \A b \in Branches :
    (\A a \in Stoppers : at[a][b] \in {"idle", "killing"}) => seen[b] = Status(b)

Reaping(e) ==
  \/ pc[e] = "reap"
  \/ \E a \in Stoppers, b \in Branches : on[a][b] = e /\ at[a][b] = "reap"

\* No process of the entry can appear after the /proc scan of its reap: a leader
\* still alive then has its postgres already.
ReapMissesNone ==
  \A e \in Entries : Reaping(e) /\ leader[e] = "alive" => pg[e] # "none"

\* As long as a process of the entry lives, and a postgres outlives a compute_ctl that
\* was killed, its three ports stay reserved and its directory is not deleted: the
\* reap before the release finds whatever runs.
LiveKeepsAll ==
  /\ \A e \in Entries : Alive(e) => e \in disk /\ \A k \in Kinds : ports[e][k] # NoPort
  /\ ReapMissesNone

\* Once a stop() has taken an entry, its start() neither spawns a process nor
\* reports success, however many awaits it still had to cross.
StopIsFinal ==
  [][\A e \in Entries :
       phase[e] = "stopping" /\ pc'[e] # "new" =>
         /\ phase'[e] = "stopping"
         /\ leader[e] = "none" => leader'[e] # "alive"]_vars

\* Every start() and every stop() gives its lane back: no await hangs forever; and
\* shutdown's Promise.all resolves.
LaneFrees == \A b \in Branches : LaneBusy(b) ~> ~LaneBusy(b)
StopAllReturns == down ~> \A b \in Branches : at["all"][b] = "idle"

NothingHangs == LaneFrees /\ StopAllReturns

=============================================================================
