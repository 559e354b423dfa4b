--------------------------- MODULE EngineRuntime ---------------------------
(***************************************************************************)
(* EngineRuntime (engine/boot.ts) with EmbeddedPostgres and the            *)
(* non-detached ManagedProcess: the five engine processes that start one   *)
(* after the other and stop in the reverse order, and the data directory   *)
(* of storcon_db across unclean stops.  A process that exits and the       *)
(* handler of its "exit" event are one step.                               *)
(***************************************************************************)
EXTENDS Naturals, Sequences, FiniteSets

CONSTANT MaxDeaths      \* processes that die by themselves in one run of the daemon
ASSUME ErAssumption == MaxDeaths \in Nat

Chain == <<"storcon_db", "storage_broker", "storage_controller", "safekeeper", "pageserver">>
Db         == Chain[1]
Components == {Chain[i] : i \in DOMAIN Chain}
Launched   == Components \ {Db}     \* by launch(), with a state observer

VARIABLES
  proc,      \* ManagedProcess._state
  child,     \* ManagedProcess.child is set
  os,        \* the process: "gone", "up", or "killed" (SIGKILL sent, not yet gone)
  cluster,   \* the data directory of storcon_db
  pid,       \* postmaster.pid is in it
  locked,    \* the running postmaster has written it
  tracer,    \* the sink listens
  step,      \* where start() or stop() is suspended
  k,         \* and at which member of Chain
  deaths
engineVars == <<proc, child, os, cluster, pid, locked, tracer, step, k, deaths>>

Procs == <<proc, child, os>>
DataDir == <<cluster, pid, locked>>

(* initdb stamps PG_VERSION before it is done: "torn" is a stamped, useless
   directory, "partial" an unstamped one, "foreign" one of another major. *)
Clusters == {"none", "partial", "torn", "foreign", "ready"}
Stamped  == cluster \in {"torn", "foreign", "ready"}

EngineInit ==
  /\ proc = [c \in Components |-> "stopped"]
  /\ child = [c \in Components |-> FALSE]
  /\ os = [c \in Components |-> "gone"]
  /\ cluster \in {"none", "foreign"}
  /\ pid = FALSE /\ locked = FALSE /\ tracer = FALSE
  /\ step = "off" /\ k = 0 /\ deaths = 0

-----------------------------------------------------------------------------
(* start() *)

GoTo(s, i) == step' = s /\ k' = i

(* The catch of start() stops whatever has started, then throws. *)
Fail == GoTo("stopping", Len(Chain))

BeginStart ==
  /\ step = "off"
  /\ tracer' \in BOOLEAN
  /\ GoTo("dirs", 0)
  /\ UNCHANGED <<Procs, DataDir, deaths>>

(* mkdir of the directories, then init(): a stamped directory is taken as is,
   any other is cleared and handed to initdb. *)
Dirs ==
  /\ step = "dirs"
  /\ \/ Stamped /\ GoTo("probe", 1) /\ UNCHANGED cluster
     \/ ~Stamped /\ GoTo("initdb", 1) /\ cluster' = "partial"
     \/ Fail /\ UNCHANGED cluster
  /\ UNCHANGED <<Procs, pid, locked, tracer, deaths>>

InitDb ==
  /\ step = "initdb"
  /\ \/ cluster' = "ready" /\ GoTo("probe", 1)
     \/ cluster' \in {"none", "partial"} /\ Fail
  /\ UNCHANGED <<Procs, pid, locked, tracer, deaths>>

(* spawn(): the child is there at once, its readiness is awaited. *)
Spawn(i) ==
  /\ proc' = [proc EXCEPT ![Chain[i]] = "starting"]
  /\ child' = [child EXCEPT ![Chain[i]] = TRUE]
  /\ os' = [os EXCEPT ![Chain[i]] = "up"]
  /\ GoTo("launching", i)

(* Mutant: the stale pid file is left to postgres. *)
ProbeKeepingPidFile ==
  /\ step = "probe"
  /\ \/ cluster = "foreign" /\ Fail /\ UNCHANGED <<Procs, pid>>
     \/ proc[Db] \notin {"running", "starting"} /\ Spawn(1) /\ UNCHANGED pid
  /\ UNCHANGED <<cluster, locked, tracer, deaths>>

(* The guard refuses another major, unless it cannot read one of the two
   versions; the stale pid file goes in the same synchronous step as spawn(). *)
Probe ==
  /\ step = "probe"
  /\ \/ cluster = "foreign" /\ Fail /\ UNCHANGED <<Procs, pid>>
     \/ proc[Db] \notin {"running", "starting"} /\ Spawn(1) /\ pid' = FALSE
  /\ UNCHANGED <<cluster, locked, tracer, deaths>>

(* External: a postmaster that can read its directory, and finds no pid file
   in it, writes its own. *)
PostmasterLocks ==
  /\ os[Db] = "up" /\ ~locked /\ ~pid /\ cluster # "foreign"
  /\ pid' = TRUE /\ locked' = TRUE
  /\ UNCHANGED <<Procs, cluster, tracer, step, k, deaths>>

CanServe(c) == c = Db => locked /\ cluster = "ready"

(* The readiness needle, and the code from there to the next await. *)
Ready ==
  LET c == Chain[k] IN
  /\ step = "launching" /\ os[c] = "up" /\ CanServe(c)
  /\ IF k = Len(Chain) \/ c = "safekeeper"
     THEN /\ proc' = [proc EXCEPT ![c] = "running"]
          /\ GoTo(IF k = Len(Chain) THEN "up" ELSE "register", k)
          /\ UNCHANGED <<child, os>>
     ELSE LET d == Chain[k + 1] IN
          /\ proc' = [proc EXCEPT ![c] = "running", ![d] = "starting"]
          /\ child' = [child EXCEPT ![d] = TRUE]
          /\ os' = [os EXCEPT ![d] = "up"]
          /\ GoTo("launching", k + 1)
  /\ UNCHANGED <<DataDir, tracer, deaths>>

(* No needle in time: SIGKILL, which nobody waits for. *)
TimesOut ==
  LET c == Chain[k] IN
  /\ step = "launching"
  /\ proc' = [proc EXCEPT ![c] = "failed"]
  /\ child' = [child EXCEPT ![c] = FALSE]
  /\ os' = [os EXCEPT ![c] = "killed"]
  /\ Fail
  /\ UNCHANGED <<DataDir, tracer, deaths>>

Register ==
  /\ step = "register"
  /\ \/ os["storage_controller"] = "up" /\ GoTo("files", k)
     \/ Fail
  /\ UNCHANGED <<Procs, DataDir, tracer, deaths>>

PageserverFiles ==
  /\ step = "files"
  /\ \/ Spawn(k + 1)
     \/ Fail /\ UNCHANGED Procs
  /\ UNCHANGED <<DataDir, tracer, deaths>>

-----------------------------------------------------------------------------
(* Exits.  A postmaster told to stop removes its pid file; one that crashes
   may or may not; one that is killed does not. *)

LosesLock(c, pids) ==
  IF c = Db THEN locked' = FALSE /\ (IF locked THEN pid' \in pids ELSE UNCHANGED pid)
            ELSE UNCHANGED <<pid, locked>>

(* The exit handler of a process nobody told to stop. *)
Dies(c) ==
  /\ child[c] /\ os[c] = "up" /\ deaths < MaxDeaths
  /\ deaths' = deaths + 1
  /\ os' = [os EXCEPT ![c] = "gone"]
  /\ child' = [child EXCEPT ![c] = FALSE]
  /\ proc' = [proc EXCEPT ![c] = "failed"]
  /\ LosesLock(c, BOOLEAN)
  /\ IF proc[c] = "starting" THEN Fail ELSE UNCHANGED <<step, k>>
  /\ UNCHANGED <<cluster, tracer>>

Waited(c) == step = "exiting" /\ Chain[k] = c
Proceed(c) == IF Waited(c) THEN GoTo("stopping", k - 1) ELSE UNCHANGED <<step, k>>

(* A process that was sent SIGKILL. *)
KilledExits(c) ==
  /\ os[c] = "killed"
  /\ os' = [os EXCEPT ![c] = "gone"]
  /\ LosesLock(c, {TRUE})
  /\ Proceed(c)
  /\ UNCHANGED <<proc, child, cluster, tracer, deaths>>

-----------------------------------------------------------------------------
(* stop(): one component after the other, from the end of Chain *)

BeginStop == GoTo("stopping", Len(Chain))

StopIdle ==
  /\ step = "stopping" /\ k > 0 /\ ~child[Chain[k]]
  /\ proc' = [proc EXCEPT ![Chain[k]] = "stopped"]
  /\ GoTo("stopping", k - 1)
  /\ UNCHANGED <<child, os, DataDir, tracer, deaths>>

(* Mutant: the exit is not awaited. *)
StopWithoutWait ==
  /\ step = "stopping" /\ k > 0 /\ child[Chain[k]]
  /\ proc' = [proc EXCEPT ![Chain[k]] = "stopped"]
  /\ child' = [child EXCEPT ![Chain[k]] = FALSE]
  /\ GoTo("stopping", k - 1)
  /\ UNCHANGED <<os, DataDir, tracer, deaths>>

StopChild ==
  /\ step = "stopping" /\ k > 0 /\ child[Chain[k]]
  /\ proc' = [proc EXCEPT ![Chain[k]] = "stopped"]
  /\ child' = [child EXCEPT ![Chain[k]] = FALSE]
  /\ GoTo("exiting", k)
  /\ UNCHANGED <<os, DataDir, tracer, deaths>>

TermExits ==
  /\ step = "exiting" /\ os[Chain[k]] = "up"
  /\ os' = [os EXCEPT ![Chain[k]] = "gone"]
  /\ LosesLock(Chain[k], {FALSE})
  /\ GoTo("stopping", k - 1)
  /\ UNCHANGED <<proc, child, cluster, tracer, deaths>>

(* The grace period of a SIGTERM is over. *)
Escalate ==
  /\ step = "exiting" /\ os[Chain[k]] = "up"
  /\ os' = [os EXCEPT ![Chain[k]] = "killed"]
  /\ UNCHANGED <<proc, child, DataDir, tracer, step, k, deaths>>

StopTracer ==
  /\ step = "stopping" /\ k = 0
  /\ tracer' = FALSE
  /\ GoTo("stopped", 0)
  /\ UNCHANGED <<Procs, DataDir, deaths>>

(* The daemon's process ends, and with it the container: nothing survives but
   the volume. *)
Vanish ==
  /\ proc' = [c \in Components |-> "stopped"]
  /\ child' = [c \in Components |-> FALSE]
  /\ os' = [c \in Components |-> "gone"]
  /\ locked' = FALSE /\ tracer' = FALSE
  /\ IF step = "initdb" THEN cluster' \in {"partial", "torn", "ready"} ELSE UNCHANGED cluster
  /\ GoTo("off", 0) /\ deaths' = 0
  /\ UNCHANGED pid

StartStep == Dirs \/ InitDb \/ Probe \/ Ready \/ TimesOut \/ Register \/ PageserverFiles
StopStep  == StopIdle \/ StopChild \/ Escalate \/ StopTracer \/ \E c \in Components : KilledExits(c)
EngineStep == StartStep \/ StopStep \/ PostmasterLocks \/ TermExits \/ \E c \in Components : Dies(c)

-----------------------------------------------------------------------------
EngineTypeOK ==
  /\ proc \in [Components -> {"stopped", "starting", "running", "failed"}]
  /\ child \in [Components -> BOOLEAN]
  /\ os \in [Components -> {"gone", "up", "killed"}]
  /\ cluster \in Clusters /\ pid \in BOOLEAN /\ locked \in BOOLEAN /\ tracer \in BOOLEAN
  /\ step \in {"off", "dirs", "initdb", "probe", "launching", "register", "files", "up",
               "stopping", "exiting", "stopped"}
  /\ k \in 0 .. Len(Chain) /\ deaths \in 0 .. MaxDeaths

(* The pid file and the postmaster agree, whatever unclean stop preceded: a
   postmaster that holds its lock has its file, and one that has just been
   spawned meets no stale file, on which it would refuse to start
   (removeStalePidFile). *)
PidFileHonest ==
  /\ locked => pid /\ os[Db] # "gone"
  /\ os[Db] = "up" /\ ~locked => ~pid

(* A component is told to stop only when nothing that depends on it is still
   up, so that the pageserver and the safekeeper always have the controller to
   report to and the controller its database (EngineRuntime.stop). *)
ToldToStop(c) == child[c] /\ ~child'[c] /\ os'[c] = "up"
StopOrder ==
  [][\A i \in DOMAIN Chain : ToldToStop(Chain[i]) =>
       \A j \in DOMAIN Chain : j > i => os[Chain[j]] # "up"]_engineVars
=============================================================================
