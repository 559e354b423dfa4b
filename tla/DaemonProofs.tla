---------------------------- MODULE DaemonProofs ----------------------------
(***************************************************************************)
(* Proofs about Daemon, for any number of sessions, deaths and unread      *)
(* events: the page learns of every hinted change, and the lockfile stands *)
(* as long as an engine process runs.                                      *)
(***************************************************************************)
EXTENDS Daemon, TLAPS

-----------------------------------------------------------------------------
(* Hints reach the page *)

(* What a page with an undisturbed stream knows: neither the answer it shows
   nor the one under way has missed a change of a launched component. *)
HintInv ==
  /\ unread \in Nat
  /\ fetch # "answered" => answerOld = {}
  /\ es = "open" /\ sub /\ unread = 0 =>
       /\ fetch = "idle" => "launched" \notin shownOld
       /\ fetch = "answered" => "launched" \notin answerOld

LEMMA HintInit == Init => HintInv
BY DEF Init, LiveInit, HintInv

(* A change that is not hinted concerns the catalog's database only. *)
LEMMA UnhintedIsDb ==
  ASSUME NEW S \in SUBSET Components, S \cap Launched = {}
  PROVE  "launched" \notin {KindOf(c) : c \in S}
BY DEF Launched, KindOf, Db, Chain

LEMMA ChangeHints ==
  ASSUME HintInv, NEW S \in SUBSET Components,
         Change({KindOf(c) : c \in S}, S \cap Launched # {})
  PROVE  HintInv'
<1> DEFINE K == {KindOf(c) : c \in S}
<1>1. CASE S \cap Launched # {} /\ sub
  BY <1>1, LsAssumption DEF HintInv, Change
<1>2. CASE S \cap Launched # {} /\ ~sub
  BY <1>2 DEF HintInv, Change
<1>3. CASE S \cap Launched = {}
  <2>1. "launched" \notin K
    BY <1>3, UnhintedIsDb
  <2>2. /\ shownOld' = shownOld \cup K
        /\ answerOld' = IF fetch = "answered" THEN answerOld \cup K ELSE {}
        /\ UNCHANGED <<es, sub, unread, fetch>>
    BY <1>3 DEF Change
  <2> HIDE DEF K
  <2> QED
    BY <2>1, <2>2 DEF HintInv
<1> QED
  BY <1>1, <1>2, <1>3

LEMMA PageHints == HintInv /\ PageStep => HintInv'
BY DEF HintInv, PageStep, OnOpen, OnMessage, OnError, Settle, FetchFails, Refetch, Stream, Query

LEMMA HintStep == HintInv /\ [Next]_vars => HintInv'
<1> SUFFICES ASSUME HintInv, [Next]_vars PROVE HintInv'
  OBVIOUS
<1>1. ASSUME UNCHANGED liveVars PROVE HintInv'
  BY <1>1 DEF HintInv, liveVars
<1>2. CASE TakeLock \/ ClearLock \/ BootPasses \/ EngineStarted \/ Services
  BY <1>1, <1>2 DEF TakeLock, ClearLock, BootPasses, EngineStarted, Services, Quiet
<1>3. CASE Serve
  <2>1. CASE Connect \/ Answer
    BY <2>1 DEF Connect, Answer, HintInv, Query, Stream
  <2>2. CASE UNCHANGED liveVars
    BY <2>2, <1>1
  <2> QED
    BY <1>3, <2>1, <2>2 DEF Serve, Quiet
<1>4. CASE Respond
  BY <1>1, <1>4 DEF Respond
<1>5. CASE Clients
  BY <1>1, <1>5, PageHints DEF Clients
<1>6. CASE Engine
  <2> DEFINE S == {c \in Components : proc'[c] # proc[c]}
  <2>1. Change({KindOf(c) : c \in S}, S \cap Launched # {})
    BY <1>6 DEF Engine
  <2> QED
    BY <2>1, ChangeHints
<1>7. CASE Signal
  BY <1>7 DEF Signal, EndStream, Query, HintInv
<1>8. CASE Closed \/ ComputesStopped \/ EngineStopped \/ Unlock
  BY <1>1, <1>8 DEF Closed, ComputesStopped, EngineStopped, Unlock, Quiet
<1>9. CASE Exit \/ Killed
  BY <1>9 DEF Exit, Killed, Gone, LiveVanish, HintInv
<1>10. CASE UNCHANGED vars
  BY <1>1, <1>10 DEF vars
<1> QED
  BY <1>2, <1>3, <1>4, <1>5, <1>6, <1>7, <1>8, <1>9, <1>10 DEF Next

(* HintsReachClients: with its stream open, nothing unread and no fetch under
   way, a page shows no outdated state of a launched component. *)
THEOREM HintsSafe == Spec => []HintsReachClients
<1>1. HintInv => HintsReachClients
  BY DEF HintInv, HintsReachClients
<1> QED
  BY <1>1, HintInit, HintStep, PTL DEF Spec
-----------------------------------------------------------------------------
(* The lockfile covers the engine *)

Up(c) == os[c] = "up"
NoneUp == \A c \in Components : ~Up(c)
Last == 5

(* A running process is a child, or the one whose exit stop() awaits. *)
Owned ==
  \A c \in Components : Up(c) => child[c] \/ (step = "exiting" /\ Chain[k] = c)

(* Only the component whose launch is awaited is starting. *)
Starting ==
  \A c \in Components : proc[c] = "starting" => step = "launching" /\ c = Chain[k]

(* stop() leaves nothing up behind it. *)
Swept ==
  step \in {"stopping", "exiting"} => \A j \in 1 .. Last : j > k => ~Up(Chain[j])

(* Where start() and stop() can be, and where nothing runs. *)
EngineSteps ==
  /\ step \in {"launching", "exiting"} => k \in 1 .. Last
  /\ step \in {"register", "files"} => k = 4
  /\ step \in {"off", "dirs", "initdb", "probe", "stopped"} => NoneUp

OsTypes ==
  /\ proc \in [Components -> {"stopped", "starting", "running", "failed"}]
  /\ child \in [Components -> BOOLEAN]
  /\ os \in [Components -> {"gone", "up", "killed"}]
  /\ k \in 0 .. Last

EngineInv == OsTypes /\ Owned /\ Starting /\ Swept /\ EngineSteps

(* Where main() can be while the lockfile is missing or the engine is up. *)
MainInv ==
  /\ main \in {"down", "boot"} => step = "off"
  /\ main \in {"services", "serving", "closing", "computes"} => step = "up"
  /\ main \in {"unlock", "exit"} => NoneUp
  /\ main \notin {"down", "exit"} => lock

LockInv == EngineInv /\ MainInv

LEMMA ChainFacts ==
  /\ Len(Chain) = Last /\ DOMAIN Chain = 1 .. Last
  /\ \A i \in 1 .. Last : Chain[i] \in Components
  /\ \A c \in Components : \E i \in 1 .. Last : c = Chain[i]
  /\ \A i, j \in 1 .. Last : Chain[i] = Chain[j] => i = j
  /\ Db = Chain[1] /\ \A i \in 1 .. Last : Chain[i] = "safekeeper" <=> i = 4
BY DEF Chain, Components, Db, Last

(* What one step of the engine does to the processes, by its effect. *)
LEMMA NoneUpKept ==
  ASSUME EngineInv, NoneUp, OsTypes', NoneUp', Starting',
         step' \in {"off", "dirs", "initdb", "probe", "stopped", "stopping"}
  PROVE  EngineInv'
BY ChainFacts DEF EngineInv, Owned, Swept, EngineSteps, NoneUp, Up

LEMMA LockInit == Init => LockInv
<1> SUFFICES ASSUME Init PROVE LockInv
  OBVIOUS
<1> USE DEF Init, EngineInit
<1>1. OsTypes /\ NoneUp
  BY DEF OsTypes, NoneUp, Up, Last
<1>2. EngineInv
  BY <1>1 DEF EngineInv, Owned, Starting, Swept, EngineSteps, NoneUp
<1> QED
  BY <1>1, <1>2 DEF LockInv, MainInv

(* A component is spawned before the step that launches it. *)
LEMMA SpawnKeeps ==
  ASSUME EngineInv, NEW i \in 1 .. Last, Spawn(i), step \notin {"launching", "exiting"}
  PROVE  EngineInv'
<1> USE DEF EngineInv, OsTypes, Spawn, GoTo
<1>1. OsTypes'
  BY ChainFacts
<1>2. Owned'
  BY ChainFacts DEF Owned, Up
<1>3. Starting'
  BY ChainFacts DEF Starting
<1>4. Swept' /\ EngineSteps'
  BY DEF Swept, EngineSteps, NoneUp
<1> QED
  BY <1>1, <1>2, <1>3, <1>4

(* Steps that end with the cleanup of a partial boot, or on the way to it. *)
LEMMA FewerUp ==
  ASSUME EngineInv, OsTypes', Starting',
         \A c \in Components : Up(c)' => Up(c) /\ (child'[c] = child[c]),
         \/ UNCHANGED <<step, k>>
         \/ Fail /\ step # "exiting"
  PROVE  EngineInv'
<1> USE DEF EngineInv, OsTypes
<1>1. CASE UNCHANGED <<step, k>>
  <2>1. Owned'
    BY <1>1 DEF Owned, Up
  <2>2. Swept'
    BY <1>1, ChainFacts DEF Swept, Up
  <2>3. EngineSteps'
    BY <1>1 DEF EngineSteps, NoneUp, Up
  <2> QED
    BY <2>1, <2>2, <2>3
<1>2. CASE Fail /\ step # "exiting"
  <2>1. step' = "stopping" /\ k' = Last
    BY <1>2, ChainFacts DEF Fail, GoTo
  <2>2. Owned'
    BY <1>2 DEF Owned, Up
  <2>3. Swept' /\ EngineSteps'
    BY <2>1 DEF Swept, EngineSteps, Last
  <2> QED
    BY <2>2, <2>3
<1> QED
  BY <1>1, <1>2

LEMMA StartKeeps ==
  ASSUME EngineInv, StartStep
  PROVE  EngineInv'
<1> USE DEF Procs, DataDir
<1>1. ASSUME UNCHANGED Procs, Fail, step \notin {"launching", "exiting"} PROVE EngineInv'
  <2>1. OsTypes'
    BY <1>1, ChainFacts DEF EngineInv, OsTypes, Fail, GoTo, Last
  <2>2. Starting'
    BY <1>1 DEF EngineInv, Starting
  <2> QED
    BY <1>1, <2>1, <2>2, FewerUp DEF Up
<1>2. CASE Dirs
  <2>1. CASE Fail
    BY <1>1, <1>2, <2>1 DEF Dirs
  <2>2. CASE ~Fail
    BY <1>2, <2>2, NoneUpKept DEF Dirs, GoTo, EngineInv, EngineSteps, OsTypes, Starting, NoneUp, Up, Last
  <2> QED
    BY <2>1, <2>2
<1>3. CASE InitDb
  <2>1. CASE Fail
    BY <1>1, <1>3, <2>1 DEF InitDb
  <2>2. CASE ~Fail
    BY <1>3, <2>2, NoneUpKept DEF InitDb, GoTo, EngineInv, EngineSteps, OsTypes, Starting, NoneUp, Up, Last
  <2> QED
    BY <2>1, <2>2
<1>4. CASE Probe
  <2>1. CASE Fail /\ UNCHANGED Procs
    BY <1>1, <1>4, <2>1 DEF Probe
  <2>2. CASE Spawn(1)
    BY <1>4, <2>2, SpawnKeeps DEF Probe, Last
  <2> QED
    BY <1>4, <2>1, <2>2 DEF Probe
<1>5. CASE Ready
  <2> DEFINE c == Chain[k]
             d == Chain[k + 1]
  <2>1. k \in 1 .. Last /\ step = "launching" /\ Len(Chain) = Last
    BY <1>5, ChainFacts DEF Ready, EngineInv, EngineSteps
  <2>2. CASE k = Last \/ c = "safekeeper"
    <3>1. /\ UNCHANGED <<child, os, k>> /\ step' \in {"up", "register"}
          /\ proc' = [proc EXCEPT ![c] = "running"]
      BY <1>5, <2>1, <2>2 DEF Ready, GoTo
    <3>2. step' = "register" => k = 4
      BY <1>5, <2>1, <2>2, <3>1, ChainFacts DEF Ready, GoTo, Last
    <3> QED
      BY <2>1, <3>1, <3>2, ChainFacts DEF EngineInv, OsTypes, Owned, Starting, Swept, EngineSteps, NoneUp, Up
  <2>3. CASE ~(k = Last \/ c = "safekeeper")
    <3>1. k + 1 \in 1 .. Last
      BY <2>1, <2>3 DEF Last
    <3>2. /\ proc' = [proc EXCEPT ![c] = "running", ![d] = "starting"]
          /\ child' = [child EXCEPT ![d] = TRUE]
          /\ os' = [os EXCEPT ![d] = "up"]
          /\ step' = "launching" /\ k' = k + 1
      BY <1>5, <2>1, <2>3 DEF Ready, GoTo
    <3>3. c \in Components /\ d \in Components /\ d = Chain[k'] /\ c = Chain[k]
      BY <2>1, <3>1, <3>2, ChainFacts
    <3> HIDE DEF c, d
    <3>4. OsTypes'
      BY <3>1, <3>2, <3>3 DEF EngineInv, OsTypes, Last
    <3>5. Owned'
      BY <2>1, <3>2, <3>3 DEF EngineInv, OsTypes, Owned, Up
    <3>6. Starting'
      BY <3>2, <3>3 DEF EngineInv, OsTypes, Starting
    <3>7. Swept' /\ EngineSteps'
      BY <3>1, <3>2 DEF Swept, EngineSteps
    <3> QED
      BY <3>4, <3>5, <3>6, <3>7 DEF EngineInv
  <2> QED
    BY <2>2, <2>3
<1>6. CASE TimesOut
  <2>1. k \in 1 .. Last /\ Chain[k] \in Components
    BY <1>6, ChainFacts DEF TimesOut, EngineInv, EngineSteps
  <2>2. OsTypes'
    BY <1>6, <2>1, ChainFacts DEF TimesOut, EngineInv, OsTypes, Fail, GoTo, Last
  <2>3. \A c \in Components : Up(c)' => Up(c) /\ child'[c] = child[c]
    BY <1>6, <2>1 DEF TimesOut, EngineInv, OsTypes, Up
  <2>4. Starting'
    BY <1>6, <2>1 DEF TimesOut, EngineInv, OsTypes, Starting
  <2> QED
    BY <1>6, <2>2, <2>3, <2>4, FewerUp DEF TimesOut
<1>7. CASE Register
  <2>1. CASE Fail
    BY <1>1, <1>7, <2>1 DEF Register
  <2>2. CASE ~Fail
    BY <1>7, <2>2 DEF Register, GoTo, EngineInv, OsTypes, Owned, Starting, Swept, EngineSteps, NoneUp, Up
  <2> QED
    BY <2>1, <2>2
<1>8. CASE PageserverFiles
  <2>1. CASE Fail /\ UNCHANGED Procs
    BY <1>1, <1>8, <2>1 DEF PageserverFiles
  <2>2. CASE Spawn(k + 1)
    BY <1>8, <2>2, SpawnKeeps DEF PageserverFiles, EngineInv, EngineSteps, Last
  <2> QED
    BY <1>8, <2>1, <2>2 DEF PageserverFiles
<1> QED
  BY <1>2, <1>3, <1>4, <1>5, <1>6, <1>7, <1>8 DEF StartStep

LEMMA ExitKeeps ==
  ASSUME EngineInv, PostmasterLocks \/ TermExits \/ \E c \in Components : Dies(c)
  PROVE  EngineInv'
<1>1. CASE PostmasterLocks
  BY <1>1, FewerUp DEF PostmasterLocks, Procs, EngineInv, OsTypes, Starting, Up
<1>2. CASE TermExits
  <2>1. /\ k \in 1 .. Last /\ Chain[k] \in Components
        /\ os' = [os EXCEPT ![Chain[k]] = "gone"] /\ child' = child /\ proc' = proc
        /\ step = "exiting" /\ step' = "stopping" /\ k' = k - 1
    BY <1>2, ChainFacts DEF TermExits, GoTo, EngineInv, EngineSteps
  <2>2. OsTypes'
    BY <2>1 DEF EngineInv, OsTypes, Last
  <2>3. Owned'
    BY <2>1 DEF EngineInv, OsTypes, Owned, Up
  <2>4. Swept'
    BY <2>1, ChainFacts DEF EngineInv, OsTypes, Swept, Up, Last
  <2>5. EngineSteps' /\ Starting'
    BY <2>1 DEF EngineSteps, EngineInv, Starting
  <2> QED
    BY <2>2, <2>3, <2>4, <2>5 DEF EngineInv
<1>3. ASSUME NEW c \in Components, Dies(c) PROVE EngineInv'
  <2>1. /\ os' = [os EXCEPT ![c] = "gone"] /\ child' = [child EXCEPT ![c] = FALSE]
        /\ proc' = [proc EXCEPT ![c] = "failed"]
        /\ IF proc[c] = "starting" THEN Fail ELSE UNCHANGED <<step, k>>
    BY <1>3 DEF Dies
  <2>2. OsTypes'
    BY <2>1, ChainFacts DEF EngineInv, OsTypes, Fail, GoTo, Last
  <2>3. \A d \in Components : Up(d)' => Up(d) /\ child'[d] = child[d]
    BY <2>1 DEF EngineInv, OsTypes, Up
  <2>4. Starting'
    BY <2>1 DEF EngineInv, OsTypes, Starting
  <2>5. UNCHANGED <<step, k>> \/ (Fail /\ step # "exiting")
    BY <2>1 DEF EngineInv, Starting
  <2> QED
    BY <2>2, <2>3, <2>4, <2>5, FewerUp
<1> QED
  BY <1>1, <1>2, <1>3

LEMMA StopKeeps ==
  ASSUME EngineInv, StopStep
  PROVE  EngineInv'
<1>1. CASE StopIdle
  <2>1. /\ k \in 1 .. Last /\ Chain[k] \in Components /\ ~child[Chain[k]]
        /\ proc' = [proc EXCEPT ![Chain[k]] = "stopped"] /\ UNCHANGED <<child, os>>
        /\ step = "stopping" /\ step' = "stopping" /\ k' = k - 1
    BY <1>1, ChainFacts DEF StopIdle, GoTo, EngineInv, OsTypes, Last
  <2>2. OsTypes' /\ Owned' /\ Starting'
    BY <2>1 DEF EngineInv, OsTypes, Owned, Starting, Up, Last
  <2>3. Swept'
    <3>1. ~Up(Chain[k])
      BY <2>1 DEF EngineInv, Owned
    <3> QED
      BY <2>1, <3>1, ChainFacts DEF EngineInv, Swept, Up, Last
  <2> QED
    BY <2>1, <2>2, <2>3 DEF EngineInv, EngineSteps
<1>2. CASE StopChild
  <2>1. /\ k \in 1 .. Last /\ Chain[k] \in Components
        /\ proc' = [proc EXCEPT ![Chain[k]] = "stopped"]
        /\ child' = [child EXCEPT ![Chain[k]] = FALSE] /\ os' = os
        /\ step = "stopping" /\ step' = "exiting" /\ k' = k
    BY <1>2, ChainFacts DEF StopChild, GoTo, EngineInv, OsTypes, Last
  <2> QED
    BY <2>1 DEF EngineInv, OsTypes, Owned, Starting, Swept, EngineSteps, Up
<1>3. CASE Escalate
  <2>1. /\ Chain[k] \in Components /\ os' = [os EXCEPT ![Chain[k]] = "killed"]
        /\ UNCHANGED <<proc, child, step, k>>
    BY <1>3, ChainFacts DEF Escalate, EngineInv, EngineSteps
  <2> QED
    BY <2>1, FewerUp DEF EngineInv, OsTypes, Starting, Up
<1>4. CASE StopTracer
  <2>1. /\ UNCHANGED <<proc, child, os>> /\ step = "stopping" /\ k = 0
        /\ step' = "stopped" /\ k' = 0
    BY <1>4 DEF StopTracer, Procs, GoTo
  <2>2. NoneUp
    BY <2>1, ChainFacts DEF EngineInv, Swept, NoneUp
  <2> QED
    BY <2>1, <2>2, NoneUpKept DEF EngineInv, OsTypes, Starting, NoneUp, Up
<1>5. ASSUME NEW c \in Components, KilledExits(c) PROVE EngineInv'
  <2>1. os' = [os EXCEPT ![c] = "gone"] /\ UNCHANGED <<proc, child>> /\ os[c] = "killed"
    BY <1>5 DEF KilledExits
  <2>2. CASE ~Waited(c)
    BY <1>5, <2>1, <2>2, FewerUp DEF KilledExits, Proceed, EngineInv, OsTypes, Starting, Up
  <2>3. CASE Waited(c)
    <3>1. /\ step = "exiting" /\ c = Chain[k] /\ k \in 1 .. Last
          /\ step' = "stopping" /\ k' = k - 1
      BY <1>5, <2>3 DEF KilledExits, Proceed, Waited, GoTo, EngineInv, EngineSteps
    <3>2. OsTypes' /\ Owned' /\ Starting'
      BY <2>1, <3>1 DEF EngineInv, OsTypes, Owned, Starting, Up, Last
    <3>3. Swept' /\ EngineSteps'
      BY <2>1, <3>1, ChainFacts DEF EngineInv, OsTypes, Swept, EngineSteps, Up, Last
    <3> QED
      BY <3>2, <3>3 DEF EngineInv
  <2> QED
    BY <2>2, <2>3
<1> QED
  BY <1>1, <1>2, <1>3, <1>4, <1>5 DEF StopStep

(* An engine step leaves main() and the lockfile alone; while nothing may run
   there is none, since main() is then not at a place where the engine steps. *)
LEMMA EngineKeeps ==
  ASSUME LockInv, Engine
  PROVE  LockInv'
<1>1. EngineInv'
  BY StartKeeps, StopKeeps, ExitKeeps DEF LockInv, Engine, EngineStep
<1>2. step = "up" => step' = "up"
  <2>1. ASSUME step = "up" PROVE ~StartStep
    BY <2>1 DEF StartStep, Dirs, InitDb, Probe, Ready, TimesOut, Register, PageserverFiles
  <2>2. ASSUME step = "up", StopStep PROVE step' = "up"
    BY <2>2 DEF StopStep, StopIdle, StopChild, Escalate, StopTracer, KilledExits, Proceed, Waited
  <2>3. ASSUME step = "up", PostmasterLocks \/ TermExits PROVE step' = "up"
    BY <2>3 DEF PostmasterLocks, TermExits
  <2>4. ASSUME step = "up", NEW c \in Components, Dies(c) PROVE step' = "up"
    BY <2>4 DEF Dies, LockInv, EngineInv, Starting
  <2> QED
    BY <2>1, <2>2, <2>3, <2>4 DEF Engine, EngineStep
<1>3. MainInv'
  BY <1>2 DEF LockInv, MainInv, Engine
<1> QED
  BY <1>1, <1>3 DEF LockInv

LEMMA LockStep ==
  ASSUME LockInv, [Next]_vars
  PROVE  LockInv'
<1> USE DEF LockInv, engineVars, Procs, DataDir
<1>1. ASSUME UNCHANGED engineVars PROVE EngineInv'
  BY <1>1 DEF EngineInv, OsTypes, Owned, Starting, Swept, EngineSteps, NoneUp, Up
<1>2. ASSUME UNCHANGED Procs, BeginStop, step # "launching", step # "exiting" PROVE EngineInv'
  <2>1. step' = "stopping" /\ k' = Last
    BY <1>2, ChainFacts DEF BeginStop, GoTo
  <2> QED
    BY <1>2, <2>1 DEF EngineInv, OsTypes, Owned, Starting, Swept, EngineSteps, Up, Last
<1>3. ASSUME UNCHANGED os PROVE NoneUp' = NoneUp
  BY <1>3 DEF NoneUp, Up
<1>4. CASE TakeLock \/ ClearLock
  BY <1>1, <1>3, <1>4 DEF TakeLock, ClearLock, MainInv
<1>5. CASE BootPasses
  <2>1. CASE UNCHANGED engineVars
    BY <1>1, <1>3, <1>5, <2>1 DEF BootPasses, MainInv, EngineInv, EngineSteps
  <2>2. CASE BeginStart /\ main' = "engine"
    <3>1. EngineInv'
      BY <2>2, NoneUpKept DEF BeginStart, GoTo, EngineInv, OsTypes, Starting, EngineSteps, NoneUp, Up, Last
    <3> QED
      BY <1>5, <2>2, <3>1 DEF BootPasses, MainInv
  <2> QED
    BY <1>5, <2>1, <2>2 DEF BootPasses
<1>6. CASE EngineStarted
  <2>1. EngineInv'
    BY <1>1, <1>2, <1>6 DEF EngineStarted
  <2> QED
    BY <1>6, <2>1 DEF EngineStarted, MainInv
<1>7. CASE Services \/ ComputesStopped
  <2>1. EngineInv'
    BY <1>1, <1>2, <1>7 DEF Services, ComputesStopped, MainInv
  <2> QED
    BY <1>7, <2>1 DEF Services, ComputesStopped, MainInv
<1>8. CASE Serve \/ Respond \/ Clients \/ Signal
  BY <1>1, <1>3, <1>8 DEF Serve, Respond, Clients, Signal, MainInv
<1>9. CASE Closed \/ EngineStopped \/ Unlock
  BY <1>1, <1>3, <1>9 DEF Closed, EngineStopped, Unlock, MainInv, EngineInv, EngineSteps
<1>10. CASE Engine
  BY <1>10, EngineKeeps
<1>11. CASE Exit \/ Killed
  <2>1. /\ step' = "off" /\ k' = 0 /\ main' = "down"
        /\ proc' = [c \in Components |-> "stopped"]
        /\ child' = [c \in Components |-> FALSE]
        /\ os' = [c \in Components |-> "gone"]
    BY <1>11 DEF Exit, Killed, Gone, Vanish, GoTo
  <2>2. OsTypes'
    BY <2>1 DEF OsTypes, Last
  <2>3. NoneUp' /\ Starting'
    BY <2>1 DEF NoneUp, Starting, Up
  <2>4. EngineInv'
    BY <2>1, <2>2, <2>3 DEF EngineInv, Owned, Swept, EngineSteps, NoneUp
  <2> QED
    BY <2>1, <2>4 DEF MainInv
<1>12. CASE UNCHANGED vars
  BY <1>1, <1>3, <1>12 DEF vars, MainInv
<1> QED
  BY <1>4, <1>5, <1>6, <1>7, <1>8, <1>9, <1>10, <1>11, <1>12 DEF Next

(* LockCoversEngine: the lockfile stands as long as an engine process runs. *)
THEOREM LockSafe == Spec => []LockCoversEngine
<1>1. LockInv => LockCoversEngine
  <2> SUFFICES ASSUME LockInv, NEW c \in Components, os[c] = "up" PROVE lock
    BY DEF LockCoversEngine
  <2>1. ~NoneUp
    BY DEF NoneUp, Up
  <2> QED
    BY <2>1 DEF LockInv, EngineInv, EngineSteps, MainInv
<1> QED
  BY <1>1, LockInit, LockStep, PTL DEF Spec
-----------------------------------------------------------------------------
(* The pid file and the postmaster *)

(* Before it is spawned the postmaster is gone, and with it its lock. *)
PidInv ==
  /\ step \in {"off", "dirs", "initdb", "probe"} => os[Db] = "gone"
  /\ PidFileHonest

LEMMA DbFacts == Db \in Components /\ \A i \in 1 .. Last : Chain[i] = Db => i = 1
BY ChainFacts DEF Last

(* A step that leaves the data directory and the postmaster alone. *)
LEMMA SamePid ==
  ASSUME PidInv, UNCHANGED <<pid, locked>>, os'[Db] = os[Db],
         \/ step' \notin {"off", "dirs", "initdb", "probe"}
         \/ step \in {"off", "dirs", "initdb", "probe"}
  PROVE  PidInv'
BY DEF PidInv, PidFileHonest

LEMMA PidStart ==
  ASSUME EngineInv, PidInv, StartStep
  PROVE  PidInv'
<1> USE DEF Procs, DataDir, GoTo, Fail
<1>1. CASE Dirs \/ InitDb \/ Register
  BY <1>1, SamePid DEF Dirs, InitDb, Register
<1>2. CASE Probe
  <2>1. CASE Spawn(1)
    BY <1>2, <2>1, DbFacts, ChainFacts DEF Probe, Spawn, PidInv, PidFileHonest, EngineInv, OsTypes
  <2>2. CASE Fail /\ UNCHANGED <<Procs, pid>>
    BY <1>2, <2>2, SamePid DEF Probe
  <2> QED
    BY <1>2, <2>1, <2>2 DEF Probe
<1>3. CASE Ready
  <2>1. k \in 1 .. Last /\ step' \in {"up", "register", "launching"} /\ UNCHANGED <<pid, locked>>
    BY <1>3 DEF Ready, EngineInv, EngineSteps
  <2>2. os' = os \/ (k + 1 \in 1 .. Last /\ os' = [os EXCEPT ![Chain[k + 1]] = "up"])
    BY <1>3, <2>1, ChainFacts DEF Ready, Last
  <2>3. k + 1 \in 1 .. Last => Chain[k + 1] # Db
    BY <2>1, DbFacts
  <2>4. os'[Db] = os[Db]
    BY <2>2, <2>3, DbFacts DEF EngineInv, OsTypes
  <2> QED
    BY <2>1, <2>4, SamePid
<1>4. CASE TimesOut
  <2>1. /\ step' = "stopping" /\ UNCHANGED <<pid, locked>>
        /\ os' = [os EXCEPT ![Chain[k]] = "killed"]
    BY <1>4 DEF TimesOut
  <2>2. os'[Db] = os[Db] \/ os'[Db] = "killed"
    BY <2>1, DbFacts DEF EngineInv, OsTypes
  <2> QED
    BY <2>1, <2>2 DEF PidInv, PidFileHonest
<1>5. CASE PageserverFiles
  <2>1. CASE Spawn(k + 1)
    <3>1. k = 4 /\ step' = "launching" /\ UNCHANGED <<pid, locked>>
      BY <1>5, <2>1 DEF PageserverFiles, Spawn, EngineInv, EngineSteps
    <3>2. Chain[k + 1] # Db
      BY <3>1, DbFacts DEF Last
    <3>3. os'[Db] = os[Db]
      BY <2>1, <3>2, DbFacts DEF Spawn, EngineInv, OsTypes
    <3> QED
      BY <3>1, <3>3, SamePid
  <2>2. CASE Fail /\ UNCHANGED Procs
    BY <1>5, <2>2, SamePid DEF PageserverFiles
  <2> QED
    BY <1>5, <2>1, <2>2 DEF PageserverFiles
<1> QED
  BY <1>1, <1>2, <1>3, <1>4, <1>5 DEF StartStep

(* A process that exits; the postmaster loses its lock. *)
LEMMA PidExit ==
  ASSUME EngineInv, PidInv, NEW c \in Components, NEW pids,
         os' = [os EXCEPT ![c] = "gone"], LosesLock(c, pids),
         step' \in {step, "stopping"}
  PROVE  PidInv'
<1>1. CASE c = Db
  BY <1>1 DEF LosesLock, PidInv, PidFileHonest, EngineInv, OsTypes
<1>2. CASE c # Db
  BY <1>2, DbFacts, SamePid DEF LosesLock, EngineInv, OsTypes
<1> QED
  BY <1>1, <1>2

LEMMA PidEngine ==
  ASSUME EngineInv, PidInv, EngineStep
  PROVE  PidInv'
<1> USE DEF Procs, DataDir, GoTo
<1>1. CASE StartStep
  BY <1>1, PidStart
<1>2. CASE StopIdle \/ StopChild \/ StopTracer
  BY <1>2, SamePid DEF StopIdle, StopChild, StopTracer
<1>3. CASE Escalate
  <2>1. UNCHANGED <<pid, locked, step>> /\ step = "exiting" /\ os' = [os EXCEPT ![Chain[k]] = "killed"]
    BY <1>3 DEF Escalate
  <2>2. os'[Db] = os[Db] \/ os'[Db] = "killed"
    BY <2>1, DbFacts DEF EngineInv, OsTypes
  <2> QED
    BY <2>1, <2>2 DEF PidInv, PidFileHonest
<1>4. ASSUME NEW c \in Components, KilledExits(c) PROVE PidInv'
  BY <1>4, PidExit DEF KilledExits, Proceed
<1>5. CASE PostmasterLocks
  BY <1>5 DEF PostmasterLocks, PidInv, PidFileHonest
<1>6. CASE TermExits
  BY <1>6, PidExit, ChainFacts DEF TermExits, EngineInv, EngineSteps
<1>7. ASSUME NEW c \in Components, Dies(c) PROVE PidInv'
  BY <1>7, PidExit DEF Dies, Fail
<1> QED
  BY <1>1, <1>2, <1>3, <1>4, <1>5, <1>6, <1>7 DEF EngineStep, StopStep

LEMMA PidStep ==
  ASSUME LockInv, PidInv, [Next]_vars
  PROVE  PidInv'
<1> USE DEF engineVars, Procs, DataDir, BeginStop, GoTo
<1>1. ASSUME UNCHANGED engineVars PROVE PidInv'
  BY <1>1 DEF PidInv, PidFileHonest
<1>2. CASE TakeLock \/ ClearLock \/ Serve \/ Respond \/ Clients \/ Signal \/ Closed \/ EngineStopped \/ Unlock
  BY <1>1, <1>2 DEF TakeLock, ClearLock, Serve, Respond, Clients, Signal, Closed, EngineStopped, Unlock
<1>3. CASE BootPasses \/ EngineStarted
  BY <1>1, <1>3, SamePid DEF BootPasses, BeginStart, EngineStarted
<1>4. CASE Services \/ ComputesStopped
  BY <1>4, SamePid DEF Services, ComputesStopped, LockInv, MainInv
<1>5. CASE Engine
  BY <1>5, PidEngine DEF Engine, LockInv
<1>6. CASE Exit \/ Killed
  <2>1. locked' = FALSE /\ os' = [c \in Components |-> "gone"]
    BY <1>6 DEF Exit, Killed, Gone, Vanish
  <2> QED
    BY <2>1, DbFacts DEF PidInv, PidFileHonest
<1>7. CASE UNCHANGED vars
  BY <1>1, <1>7 DEF vars
<1> QED
  BY <1>2, <1>3, <1>4, <1>5, <1>6, <1>7 DEF Next

(* PidFileHonest: the pid file and the postmaster agree, whatever unclean stop
   preceded. *)
THEOREM PidFileSafe == Spec => []PidFileHonest
<1>1. Init => PidInv
  BY DbFacts DEF Init, EngineInit, PidInv, PidFileHonest
<1>2. PidInv => PidFileHonest
  BY DEF PidInv
<1> QED
  BY <1>1, <1>2, LockInit, LockStep, PidStep, PTL DEF Spec
-----------------------------------------------------------------------------
(* The MCP sessions *)

SessInv == McpTypeOK /\ SessionsOwned

LEMMA CloseKeeps ==
  ASSUME SessInv, NEW S \in SUBSET store, NEW kept \in SUBSET store, store \ S \subseteq kept,
         Close(S, kept)
  PROVE  SessInv'
<1>1. McpTypeOK'
  BY DEF SessInv, McpTypeOK, Close
<1>2. ASSUME NEW s \in Sessions
      PROVE  /\ s \in store' <=> transport'[s] = "open"
             /\ closes'[s] = IF transport'[s] = "closed" THEN 1 ELSE 0
             /\ stream'[s] => s \in store'
  <2>1. CASE s \in S
    <3>1. transport[s] = "open" /\ closes[s] = 0
      BY <2>1 DEF SessInv, SessionsOwned
    <3>2. transport'[s] = "closed" /\ closes'[s] = closes[s] + 1
      BY <2>1 DEF Close
    <3>3. s \notin store' /\ ~stream'[s]
      BY <2>1, Zenon DEF Close
    <3> QED
      BY <3>1, <3>2, <3>3
  <2>2. CASE s \notin S
    BY <2>2 DEF SessInv, McpTypeOK, SessionsOwned, Close
  <2> QED
    BY <2>1, <2>2
<1> QED
  BY <1>1, <1>2 DEF SessInv, SessionsOwned

LEMMA SessionKeeps ==
  ASSUME SessInv, NEW s \in Sessions,
         Initialize(s) \/ Use(s) \/ Disconnect(s) \/ Delete(s) \/ GoIdle(s)
  PROVE  SessInv'
<1> USE DEF SessInv, McpTypeOK, SessionsOwned
<1>1. CASE Initialize(s)
  BY <1>1 DEF Initialize
<1>2. CASE Use(s)
  BY <1>2 DEF Use
<1>3. CASE Disconnect(s) \/ GoIdle(s)
  BY <1>3 DEF Disconnect, GoIdle
<1>4. CASE Delete(s)
  BY <1>4, CloseKeeps DEF Delete
<1> QED
  BY <1>1, <1>2, <1>3, <1>4

LEMMA SessionStep == SessInv /\ [Next]_vars => SessInv'
<1> SUFFICES ASSUME SessInv, [Next]_vars PROVE SessInv'
  OBVIOUS
<1>1. ASSUME UNCHANGED mcpVars PROVE SessInv'
  BY <1>1 DEF SessInv, McpTypeOK, SessionsOwned, mcpVars
<1>2. CASE TakeLock \/ ClearLock \/ BootPasses \/ EngineStarted \/ Services
  BY <1>1, <1>2 DEF TakeLock, ClearLock, BootPasses, EngineStarted, Services, Quiet
<1>3. CASE Serve
  <2>1. CASE Sweep
    BY <2>1, CloseKeeps DEF Sweep
  <2> QED
    BY <1>1, <1>3, <2>1, SessionKeeps DEF Serve, Quiet
<1>4. CASE Respond \/ Clients
  BY <1>1, <1>4, SessionKeeps DEF Respond, Clients
<1>5. CASE Signal
  BY <1>5, CloseKeeps DEF Signal, CloseAll
<1>6. CASE Closed \/ ComputesStopped \/ EngineStopped \/ Unlock \/ Engine
  BY <1>1, <1>6 DEF Closed, ComputesStopped, EngineStopped, Unlock, Engine, Quiet
<1>7. CASE Exit \/ Killed
  <2>1. McpVanish
    BY <1>7 DEF Exit, Killed, Gone
  <2>2. McpTypeOK'
    BY <2>1 DEF McpVanish, McpTypeOK
  <2>3. ASSUME NEW s \in Sessions
        PROVE  s \notin store' /\ transport'[s] = "none" /\ closes'[s] = 0 /\ ~stream'[s]
    BY <2>1 DEF McpVanish
  <2> QED
    BY <2>2, <2>3 DEF SessInv, SessionsOwned
<1>8. CASE UNCHANGED vars
  BY <1>1, <1>8 DEF vars
<1> QED
  BY <1>2, <1>3, <1>4, <1>5, <1>6, <1>7, <1>8 DEF Next

LEMMA SessionInit == Init => SessInv
BY DEF Init, McpInit, SessInv, McpTypeOK, SessionsOwned

(* SessionsOwned: whoever closes a session closes it once, and the map holds
   exactly the open ones. *)
THEOREM SessionsSafe == Spec => []SessionsOwned
<1>1. SessInv => SessionsOwned
  BY DEF SessInv
<1> QED
  BY <1>1, SessionInit, SessionStep, PTL DEF Spec

-----------------------------------------------------------------------------
(* The order in which stop() goes *)

InOrder ==
  \A i \in DOMAIN Chain : ToldToStop(Chain[i]) =>
    \A j \in DOMAIN Chain : j > i => os[Chain[j]] # "up"

LEMMA NotTold ==
  ASSUME \A c \in Components : child[c] => child'[c] \/ os'[c] # "up"
  PROVE  InOrder
BY ChainFacts DEF InOrder, ToldToStop

(* Only StopChild tells one to stop that runs on; a process that dies or times
   out, and the end of the container, leave none up. *)
LEMMA EngineInOrder == EngineInv /\ EngineStep => InOrder
<1> SUFFICES ASSUME EngineInv, EngineStep PROVE InOrder
  OBVIOUS
<1> USE DEF EngineInv, OsTypes
<1>1. ASSUME child' = child PROVE InOrder
  BY <1>1, NotTold
<1>2. CASE Dirs \/ InitDb \/ Register \/ PostmasterLocks \/ TermExits \/ StopIdle \/ Escalate \/ StopTracer
  BY <1>1, <1>2 DEF Dirs, InitDb, Register, PostmasterLocks, TermExits, StopIdle, Escalate, StopTracer, Procs
<1>3. CASE Probe \/ PageserverFiles
  <2>1. ASSUME NEW i, Spawn(i) PROVE InOrder
    BY <2>1, NotTold DEF Spawn
  <2> QED
    BY <1>1, <1>3, <2>1 DEF Probe, PageserverFiles, Procs
<1>4. CASE Ready
  BY <1>4, NotTold DEF Ready
<1>5. CASE TimesOut
  <2>1. /\ Chain[k] \in Components /\ child' = [child EXCEPT ![Chain[k]] = FALSE]
        /\ os' = [os EXCEPT ![Chain[k]] = "killed"]
    BY <1>5, ChainFacts DEF TimesOut, EngineSteps
  <2> QED
    BY <2>1, NotTold
<1>6. CASE StopChild
  <2>1. /\ step = "stopping" /\ k \in 1 .. Last
        /\ child' = [child EXCEPT ![Chain[k]] = FALSE] /\ os' = os
    BY <1>6 DEF StopChild, Last
  <2>2. ASSUME NEW i \in 1 .. Last, ToldToStop(Chain[i]) PROVE i = k
    BY <2>1, <2>2, ChainFacts DEF ToldToStop
  <2>3. \A j \in 1 .. Last : j > k => os[Chain[j]] # "up"
    BY <2>1 DEF Swept, Up
  <2> QED
    BY <2>2, <2>3, ChainFacts DEF InOrder
<1>7. ASSUME NEW c \in Components, KilledExits(c) PROVE InOrder
  BY <1>1, <1>7 DEF KilledExits
<1>8. ASSUME NEW c \in Components, Dies(c) PROVE InOrder
  BY <1>8, NotTold DEF Dies
<1> QED
  BY <1>2, <1>3, <1>4, <1>5, <1>6, <1>7, <1>8 DEF EngineStep, StartStep, StopStep

LEMMA StopsInOrder == LockInv /\ [Next]_vars => [InOrder]_engineVars
<1> SUFFICES ASSUME LockInv, [Next]_vars PROVE InOrder \/ UNCHANGED engineVars
  OBVIOUS
<1>1. ASSUME child' = child PROVE InOrder
  BY <1>1, NotTold
<1>2. CASE TakeLock \/ ClearLock \/ Serve \/ Respond \/ Clients \/ Signal \/ Closed \/ EngineStopped \/ Unlock
  BY <1>2 DEF TakeLock, ClearLock, Serve, Respond, Clients, Signal, Closed, EngineStopped, Unlock
<1>3. CASE BootPasses \/ EngineStarted \/ Services \/ ComputesStopped
  BY <1>1, <1>3 DEF BootPasses, BeginStart, EngineStarted, Services, ComputesStopped, engineVars, Procs
<1>4. CASE Engine
  BY <1>4, EngineInOrder DEF Engine, LockInv
<1>5. CASE Exit \/ Killed
  BY <1>5, NotTold DEF Exit, Killed, Gone, Vanish
<1>6. CASE UNCHANGED vars
  BY <1>6 DEF vars
<1> QED
  BY <1>2, <1>3, <1>4, <1>5, <1>6 DEF Next

(* StopOrder: a component is told to stop only when nothing that depends on it
   is still up. *)
THEOREM StopsFromTheEnd == Spec => StopOrder
<1>1. StopOrder <=> [][InOrder]_engineVars
  BY DEF StopOrder, InOrder
<1> QED
  BY <1>1, LockInit, LockStep, StopsInOrder, PTL DEF Spec

-----------------------------------------------------------------------------
(* Types *)

(* The stream that write() has torn down takes no further event. *)
LiveInv == LiveTypeOK /\ (sub => unread < Buffer)

LEMMA ChangeTypes ==
  ASSUME LiveInv, NEW K \in SUBSET Kinds, NEW hint \in BOOLEAN, Change(K, hint)
  PROVE  LiveInv'
<1> USE LsAssumption DEF LiveInv, LiveTypeOK, Change
<1>1. CASE hint /\ sub
  <2>1. unread' = unread + 1 /\ sub' = (unread' < Buffer) /\ unread \in 0 .. Buffer /\ unread < Buffer
    BY <1>1
  <2>2. unread' \in 0 .. Buffer
    BY <2>1
  <2>3. (unread' < Buffer) \in BOOLEAN
    OBVIOUS
  <2>4. sub' \in BOOLEAN /\ (sub' => unread' < Buffer)
    BY <2>1, <2>3, Zenon
  <2> QED
    BY <2>2, <2>4
<1>2. CASE ~(hint /\ sub)
  <2>1. UNCHANGED <<unread, sub>>
    BY <1>2
  <2> QED
    BY <2>1
<1> QED
  BY <1>1, <1>2

LEMMA LiveTypes ==
  ASSUME LiveInv, PageStep \/ Connect \/ Answer \/ LiveVanish \/ (EndStream /\ UNCHANGED <<es, unread, Query>>)
  PROVE  LiveInv'
<1> USE LsAssumption DEF LiveInv, LiveTypeOK, Stream, Query, Refetch
<1>0. 0 \in 0 .. Buffer /\ 0 < Buffer
  OBVIOUS
<1>1. CASE OnOpen
  BY <1>1 DEF OnOpen
<1>2. CASE OnMessage
  BY <1>2 DEF OnMessage
<1>3. CASE OnError
  BY <1>0, <1>3, Zenon DEF OnError
<1>4. CASE Settle \/ FetchFails
  BY <1>4 DEF Settle, FetchFails
<1>5. CASE Connect \/ Answer
  <2>1. CASE Connect
    BY <1>0, <2>1, Zenon DEF Connect
  <2>2. CASE Answer
    BY <2>2 DEF Answer
  <2> QED
    BY <1>5, <2>1, <2>2
<1>6. CASE LiveVanish
  BY <1>6 DEF LiveVanish
<1>7. CASE EndStream /\ UNCHANGED <<es, unread, Query>>
  BY <1>7 DEF EndStream
<1> QED
  BY <1>1, <1>2, <1>3, <1>4, <1>5, <1>6, <1>7 DEF PageStep

(* The data directory, the tracer and the deaths that are counted. *)
MoreTypes ==
  /\ cluster \in Clusters /\ pid \in BOOLEAN /\ locked \in BOOLEAN /\ tracer \in BOOLEAN
  /\ step \in {"off", "dirs", "initdb", "probe", "launching", "register", "files", "up",
               "stopping", "exiting", "stopped"}
  /\ deaths \in 0 .. MaxDeaths

LEMMA LosesTypes ==
  ASSUME MoreTypes, NEW c, NEW pids \in SUBSET BOOLEAN, LosesLock(c, pids)
  PROVE  pid' \in BOOLEAN /\ locked' \in BOOLEAN
BY DEF MoreTypes, LosesLock

LEMMA EngineTypes ==
  ASSUME MoreTypes, EngineStep
  PROVE  MoreTypes'
<1> USE DEF MoreTypes, GoTo, Fail, Procs, DataDir
<1>1. CASE Dirs \/ InitDb
  BY <1>1 DEF Dirs, InitDb, Clusters
<1>2. CASE Probe \/ Ready \/ TimesOut \/ Register \/ PageserverFiles
  BY <1>2 DEF Probe, Ready, TimesOut, Register, PageserverFiles, Spawn
<1>3. CASE StopIdle \/ StopChild \/ Escalate \/ StopTracer \/ PostmasterLocks
  BY <1>3 DEF StopIdle, StopChild, Escalate, StopTracer, PostmasterLocks
<1>4. CASE TermExits
  BY <1>4, LosesTypes DEF TermExits
<1>5. ASSUME NEW c \in Components, KilledExits(c) PROVE MoreTypes'
  BY <1>5, LosesTypes DEF KilledExits, Proceed
<1>6. ASSUME NEW c \in Components, Dies(c) PROVE MoreTypes'
  BY <1>6, LosesTypes, ErAssumption DEF Dies
<1> QED
  BY <1>1, <1>2, <1>3, <1>4, <1>5, <1>6 DEF EngineStep, StartStep, StopStep

LEMMA VanishTypes == MoreTypes /\ Vanish => MoreTypes'
<1> SUFFICES ASSUME MoreTypes, Vanish PROVE MoreTypes'
  OBVIOUS
<1>1. deaths' \in 0 .. MaxDeaths
  BY ErAssumption DEF Vanish
<1>2. cluster' \in Clusters
  BY DEF MoreTypes, Vanish, Clusters
<1>3. pid' \in BOOLEAN /\ locked' \in BOOLEAN /\ tracer' \in BOOLEAN /\ step' = "off"
  BY DEF MoreTypes, Vanish, GoTo
<1> QED
  BY <1>1, <1>2, <1>3 DEF MoreTypes

MainTypes ==
  /\ main \in {"down", "boot", "engine", "services", "serving", "closing", "computes",
               "stopping", "abort", "unlock", "exit"}
  /\ lock \in BOOLEAN /\ request \in BOOLEAN

TypeInv == MoreTypes /\ LiveInv /\ MainTypes

LEMMA TypeInit == Init => TypeInv
<1> SUFFICES ASSUME Init PROVE TypeInv
  OBVIOUS
<1>1. MoreTypes
  <2>1. 0 \in 0 .. MaxDeaths
    BY ErAssumption
  <2> QED
    BY <2>1, Zenon DEF Init, EngineInit, MoreTypes, Clusters
<1>2. LiveInv
  <2>1. 0 \in 0 .. Buffer
    BY LsAssumption
  <2> QED
    BY <2>1, Zenon DEF Init, LiveInit, LiveInv, LiveTypeOK
<1>3. MainTypes
  BY DEF Init, MainTypes
<1> QED
  BY <1>1, <1>2, <1>3 DEF TypeInv

LEMMA TypeStep == TypeInv /\ [Next]_vars => TypeInv'
<1> SUFFICES ASSUME TypeInv, [Next]_vars PROVE TypeInv'
  OBVIOUS
<1> USE DEF TypeInv
<1>1. ASSUME UNCHANGED liveVars PROVE LiveInv'
  BY <1>1 DEF LiveInv, LiveTypeOK, liveVars
<1>2. ASSUME UNCHANGED engineVars PROVE MoreTypes'
  BY <1>2 DEF MoreTypes, engineVars
<1>3. ASSUME BeginStop \/ UNCHANGED <<step, k>>, UNCHANGED <<DataDir, tracer, deaths>> PROVE MoreTypes'
  BY <1>3 DEF MoreTypes, BeginStop, GoTo, DataDir
<1>4. CASE TakeLock \/ ClearLock \/ Closed \/ EngineStopped \/ Unlock
  BY <1>1, <1>2, <1>4 DEF TakeLock, ClearLock, Closed, EngineStopped, Unlock, Quiet, MainTypes
<1>5. CASE BootPasses
  <2>1. MoreTypes'
    BY <1>2, <1>5 DEF BootPasses, BeginStart, GoTo, DataDir, MoreTypes
  <2> QED
    BY <1>1, <1>5, <2>1 DEF BootPasses, Quiet, MainTypes
<1>6. CASE EngineStarted
  BY <1>1, <1>2, <1>3, <1>6 DEF EngineStarted, Quiet, MainTypes
<1>7. CASE Services \/ ComputesStopped
  BY <1>1, <1>3, <1>7 DEF Services, ComputesStopped, Quiet, MainTypes
<1>8. CASE Serve
  <2>1. LiveInv'
    BY <1>1, <1>8, LiveTypes DEF Serve, Quiet
  <2> QED
    BY <1>2, <1>8, <2>1 DEF Serve, MainTypes
<1>9. CASE Respond
  BY <1>1, <1>2, <1>9 DEF Respond, MainTypes
<1>10. CASE Clients
  BY <1>1, <1>2, <1>10, LiveTypes DEF Clients, MainTypes
<1>11. CASE Engine
  <2> DEFINE S == {c \in Components : proc'[c] # proc[c]}
             K == {KindOf(c) : c \in S}
  <2>1. K \in SUBSET Kinds /\ (S \cap Launched # {}) \in BOOLEAN
    BY DmAssumption DEF KindOf
  <2>2. Change(K, S \cap Launched # {})
    BY <1>11 DEF Engine
  <2> HIDE DEF K, S
  <2>3. LiveInv'
    BY <2>1, <2>2, ChangeTypes
  <2> QED
    BY <1>11, <2>3, EngineTypes DEF Engine, MainTypes
<1>12. CASE Signal
  BY <1>2, <1>12, LiveTypes DEF Signal, MainTypes
<1>13. CASE Exit \/ Killed
  BY <1>13, LiveTypes, VanishTypes DEF Exit, Killed, Gone, MainTypes
<1>14. CASE UNCHANGED vars
  BY <1>1, <1>2, <1>14 DEF vars, MainTypes
<1> QED
  BY <1>4, <1>5, <1>6, <1>7, <1>8, <1>9, <1>10, <1>11, <1>12, <1>13, <1>14 DEF Next

(* Engine, sessions, page and main() have their types. *)
THEOREM DaemonTypes == Spec => []TypeOK
<1>1. LockInv /\ SessInv /\ TypeInv => TypeOK
  BY ChainFacts DEF LockInv, EngineInv, OsTypes, SessInv, TypeInv, MoreTypes, LiveInv, MainTypes,
                    TypeOK, EngineTypeOK
<1> QED
  BY <1>1, LockInit, LockStep, SessionInit, SessionStep, TypeInit, TypeStep, PTL DEF Spec

=============================================================================
