--------------------------- MODULE ComputeLifeProofs ---------------------------
(* More theorems about ComputeManager: who owns a process and its ports, what a  *)
(* status promises, what a hint promises.  All four rest on one invariant, which  *)
(* says for each await of start() what its entry has and who may have taken it.   *)
EXTENDS ComputeManagerProofs

Setup == {"port", "mkdir", "config", "metrics", "http"}

\* How far start() has come: before the spawn there is no process, only a committed
\* start() is "running", and only a shutdown stops an entry whose start() is in flight.
Progress(e) ==
  /\ pc[e] = "new" => phase[e] = "starting"
  /\ pc[e] # "new" => br[e] \in Branches
  /\ pc[e] \in {"new"} \cup Setup =>
       pstate[e] = "none" /\ ~child[e] /\ leader[e] = "none" /\ pg[e] = "none"
  /\ leader[e] # "none" \/ pc[e] \in {"needle", "waitReady", "killing"} => e \in made
  /\ pg[e] # "none" => leader[e] # "none"
  /\ phase[e] = "running" => pc[e] = "running"
  /\ pc[e] = "running" => phase[e] # "starting"
  /\ pc[e] \in Starting /\ phase[e] = "stopping" => down

\* What an entry that no stop() has taken still has: its slot, and what its start()
\* has collected so far.
Tenure(e) ==
  phase[e] = "starting" =>
    /\ pc[e] \in Starting \ {"reap", "remove"} => slot[br[e]] = e
    /\ pc[e] \in {"mkdir", "config", "metrics", "http"} => ports[e]["port"] # NoPort
    /\ pc[e] \in {"config", "metrics", "http"} => e \in disk /\ e \in made
    /\ pc[e] = "http" => ports[e]["metrics"] # NoPort

\* ManagedProcess has its child only while the leader lives, the leader has its
\* postgres once the needle was seen, and both have their directory and ports.
Processes(e) ==
  /\ pstate[e] = "running" => child[e]
  /\ child[e] => /\ leader[e] = "alive" /\ phase[e] # "stopping"
                 /\ pc[e] \in {"needle", "waitReady", "running"}
  /\ leader[e] = "alive" /\ ~child[e] => phase[e] = "stopping" \/ pc[e] = "killing"
  /\ leader[e] = "alive" /\ pg[e] = "none" => pc[e] = "needle"
  /\ pc[e] = "remove" => ~Alive(e)
  /\ Alive(e) => e \in disk /\ \A k \in Kinds : ports[e][k] # NoPort

\* After the spawn, what is left of an entry is in the map or in the hands of a stop().
Kept(e) ==
  /\ pc[e] \notin Setup \cup {"new", "reap", "remove"}
  /\ Held(e) # {} \/ Alive(e)
  => slot[br[e]] = e \/ \E a \in Stoppers, b \in Branches : on[a][b] = e

Life(e) == Progress(e) /\ Tenure(e) /\ Processes(e) /\ Kept(e)

Slots == \A b \in Branches : slot[b] # NoEntry => pc[slot[b]] # "new" /\ br[slot[b]] = b

\* A stop() in progress has an entry of its branch, which it has marked; only what a
\* shutdown has taken may still be launching, and then its leader is down.
Stops ==
  \A a \in Stoppers, b \in Branches :
    /\ at[a][b] = "idle" <=> on[a][b] = NoEntry
    /\ on[a][b] # NoEntry =>
         /\ br[on[a][b]] = b /\ pc[on[a][b]] # "new" /\ phase[on[a][b]] = "stopping"
         /\ on[a][b] \in made
         /\ at[a][b] = "killing" => leader[on[a][b]] # "none"
         /\ at[a][b] = "remove" => ~Alive(on[a][b])
         /\ at[a][b] = "reap" /\ pc[on[a][b]] = "needle" => leader[on[a][b]] # "alive"
    /\ ~down => at["all"][b] = "idle"

LifeInv == Slots /\ Stops /\ HintsSuffice /\ \A e \in Entries : Life(e)

-----------------------------------------------------------------------------
(* Steps of one entry.                                                       *)

\* Nothing of entry f itself changes.
Same(f) ==
  /\ UNCHANGED <<pc[f], br[f], phase[f], ports[f], pstate[f], child[f], leader[f], pg[f]>>
  /\ f \in made' <=> f \in made
  /\ f \in disk' <=> f \in disk

\* What the steps of start() and of an entry's processes have in common: they touch
\* their own entry, may take it out of the map, never revive what a stop() has taken,
\* and announce what they change of the status.
EntryStep(e) ==
  /\ UNCHANGED <<br, at, on, down>> /\ made \subseteq made'
  /\ \A f \in Entries \ {e} : Same(f)
  /\ slot' = slot \/ (slot[br[e]] = e /\ slot' = [slot EXCEPT ![br[e]] = NoEntry])
  /\ pc[e] # "new" /\ pc'[e] # "new" /\ (leader[e] # "none" => leader'[e] # "none")
  /\ phase[e] = "stopping" => /\ phase'[e] = "stopping"
                              /\ Alive(e)' => Alive(e)
                              /\ leader'[e] = "alive" => leader[e] = "alive"
                              /\ pc'[e] = "needle" => pc[e] = "needle"
  /\ \/ Notify(br[e])
     \/ UNCHANGED <<seen, slot>> /\ phase'[e] = phase[e] /\ pstate'[e] = pstate[e]

LEMMA SameLife ==
  ASSUME NEW f \in Entries, Life(f), Same(f),
         br[f] \in Branches /\ slot[br[f]] = f => slot'[br[f]] = f,
         down => down',
         \A a \in Stoppers, b \in Branches : on[a][b] = f => on'[a][b] = f
  PROVE  Life(f)'
<1>1. Progress(f)' /\ Processes(f)'
  BY DEF Life, Same, Progress, Processes, Alive
<1>2. Tenure(f)'
  BY DEF Life, Same, Progress, Tenure, Starting
<1>3. Kept(f)'
  BY DEF Life, Same, Progress, Kept, Alive, Held
<1> QED BY <1>1, <1>2, <1>3 DEF Life

LEMMA EntryStepKeeps ==
  ASSUME CmAssumption, TypeOK, TypeOK', LifeInv, NEW e \in Entries, EntryStep(e)
  PROVE  /\ Slots' /\ Stops' /\ HintsSuffice'
         /\ \A f \in Entries \ {e} : Life(f)'
<1>1. br[e] \in Branches
  BY DEF EntryStep, LifeInv, Life, Progress
<1>2. \A b \in Branches : slot'[b] = slot[b] \/ (slot[b] = e /\ br[e] = b /\ slot'[b] = NoEntry)
  BY <1>1 DEF EntryStep, TypeOK, StateType
<1>3. Slots'
  <2> SUFFICES ASSUME NEW b \in Branches, slot'[b] # NoEntry
               PROVE  pc'[slot'[b]] # "new" /\ br'[slot'[b]] = b
    BY DEF Slots
  <2>1. slot'[b] = slot[b] /\ slot[b] \in Entries
    BY <1>2 DEF TypeOK, StateType
  <2> QED BY <2>1 DEF EntryStep, LifeInv, Slots, Same
<1>4. Stops'
  <2> SUFFICES ASSUME NEW a \in Stoppers, NEW b \in Branches, on[a][b] # NoEntry
               PROVE  /\ br[on[a][b]] = b /\ pc'[on[a][b]] # "new"
                      /\ phase'[on[a][b]] = "stopping" /\ on[a][b] \in made'
                      /\ at[a][b] = "killing" => leader'[on[a][b]] # "none"
                      /\ at[a][b] = "remove" => ~Alive(on[a][b])'
                      /\ at[a][b] = "reap" /\ pc'[on[a][b]] = "needle"
                           => leader'[on[a][b]] # "alive"
    BY DEF EntryStep, LifeInv, Stops
  <2> DEFINE f == on[a][b]
  <2>1. f \in Entries
    BY DEF TypeOK, StateType
  <2>2. /\ br[f] = b /\ pc[f] # "new" /\ phase[f] = "stopping" /\ f \in made
        /\ at[a][b] = "killing" => leader[f] # "none"
        /\ at[a][b] = "remove" => ~Alive(f)
        /\ at[a][b] = "reap" /\ pc[f] = "needle" => leader[f] # "alive"
    BY DEF LifeInv, Stops
  <2> HIDE DEF f
  <2>3. CASE f = e
    BY <2>2, <2>3 DEF EntryStep, f
  <2>4. CASE f # e
    <3>1. Same(f)
      BY <2>1, <2>4 DEF EntryStep
    <3> QED BY <2>2, <3>1 DEF EntryStep, Same, Alive, f
  <2> QED BY <2>3, <2>4
<1>5. HintsSuffice'
  <2> SUFFICES ASSUME NEW b \in Branches,
                      \A a \in Stoppers : at[a][b] \in {"idle", "killing"}
               PROVE  seen'[b] = Status(b)'
    BY DEF EntryStep, HintsSuffice
  <2>0. seen[b] = Status(b)
    BY DEF LifeInv, HintsSuffice
  <2>1. CASE b # br[e]
    <3>1. slot'[b] = slot[b] /\ seen'[b] = seen[b]
      BY <1>1, <1>2, <2>1 DEF EntryStep, Notify, TypeOK
    <3>2. slot[b] # NoEntry => slot[b] \in Entries \ {e}
      BY <2>1 DEF LifeInv, Slots, TypeOK, StateType
    <3>3. Status(b)' = Status(b)
      BY <3>1, <3>2 DEF Status, EntryStep, Same
    <3> QED BY <2>0, <3>1, <3>3
  <2>2. CASE b = br[e] /\ Notify(b)
    BY <2>2 DEF Notify, TypeOK
  <2>3. CASE /\ b = br[e]
             /\ UNCHANGED <<seen, slot>> /\ phase'[e] = phase[e] /\ pstate'[e] = pstate[e]
    <3>1. slot[b] # NoEntry => slot[b] \in Entries
      BY DEF TypeOK, StateType
    <3>2. Status(b)' = Status(b)
      BY <2>3, <3>1 DEF Status, EntryStep, Same
    <3> QED BY <2>0, <2>3, <3>2
  <2> QED BY <2>1, <2>2, <2>3 DEF EntryStep
<1>6. ASSUME NEW f \in Entries \ {e}
      PROVE  Life(f)'
  <2>1. Life(f) /\ Same(f)
    BY DEF LifeInv, EntryStep
  <2>2. br[f] \in Branches /\ slot[br[f]] = f => slot'[br[f]] = f
    BY <1>1 DEF EntryStep, TypeOK, StateType
  <2> QED BY <2>1, <2>2, SameLife DEF EntryStep
<1> QED BY <1>3, <1>4, <1>5, <1>6

-----------------------------------------------------------------------------
(* The steps of start().                                                     *)

LEMMA SetupStep ==
  ASSUME CmAssumption, TypeOK, Stages, LifeInv, NEW e \in Entries,
         \/ \E p \in AllPorts : Draw(e, p)
         \/ ProbeDeclines(e) \/ ProbeGrants(e) \/ Exhausted(e)
         \/ MakeDir(e) \/ MakeDirFails(e) \/ WriteConfig(e) \/ WriteConfigFails(e)
  PROVE  EntryStep(e)
<1> USE DEF entryVars, procVars, stopVars
<1>0. pc[e] \in Setup /\ (pc[e] # "new" => br[e] \in Branches)
  BY DEF Draw, ProbeDeclines, ProbeGrants, Exhausted, MakeDir, MakeDirFails, WriteConfig,
         WriteConfigFails, Stages, StageOf, Kinds, Setup, LifeInv, Life, Progress
<1>1. /\ UNCHANGED <<br, phase, at, on, down>>
      /\ made \subseteq made'
      /\ \A f \in Entries \ {e} : Same(f)
  BY DEF Draw, ProbeDeclines, ProbeGrants, Exhausted, MakeDir, MakeDirFails, WriteConfig,
         WriteConfigFails, GiveUp, Launch, Same, TypeOK, StateType
<1>2. /\ slot' = slot \/ (slot[br[e]] = e /\ slot' = [slot EXCEPT ![br[e]] = NoEntry])
      /\ pc'[e] # "new"
  BY <1>0 DEF Draw, ProbeDeclines, ProbeGrants, Exhausted, MakeDir, MakeDirFails, WriteConfig,
         WriteConfigFails, GiveUp, Launch, TypeOK, StateType, Setup, Kinds
<1>3. phase[e] = "stopping" => /\ leader'[e] = leader[e] /\ pg'[e] = pg[e]
                               /\ pc'[e] # "needle"
  BY <1>0 DEF Draw, ProbeDeclines, ProbeGrants, Exhausted, MakeDir, MakeDirFails, WriteConfig,
         WriteConfigFails, GiveUp, Launch, Fence, TypeOK, StateType, Setup, Kinds
<1>5. leader[e] # "none" => leader'[e] # "none"
  BY <1>0 DEF LifeInv, Life, Progress
<1>4. \/ Notify(br[e])
      \/ UNCHANGED <<seen, slot>> /\ phase'[e] = phase[e] /\ pstate'[e] = pstate[e]
  BY DEF Draw, ProbeDeclines, ProbeGrants, Exhausted, MakeDir, MakeDirFails, WriteConfig,
         WriteConfigFails, GiveUp, Launch
<1> QED BY <1>0, <1>1, <1>2, <1>3, <1>4, <1>5 DEF EntryStep, Setup, Alive

LEMMA RunStep ==
  ASSUME CmAssumption, TypeOK, LifeInv, NEW e \in Entries,
         \/ Needle(e) \/ NotReady(e) \/ Ready(e) \/ ReadyFails(e)
         \/ Killed(e) \/ Caught(e) \/ Reap(e) \/ Remove(e)
         \/ SpawnPostgres(e) \/ PostgresExits(e) \/ LeaderExits(e)
  PROVE  EntryStep(e)
<1> USE DEF entryVars, procVars, stopVars
<1>0. pc[e] # "new" /\ br[e] \in Branches
  BY DEF Needle, NotReady, Ready, ReadyFails, Killed, Caught, Reap, Remove, SpawnPostgres,
         PostgresExits, LeaderExits, LifeInv, Life, Progress
<1>1. /\ UNCHANGED <<br, at, on, down>>
      /\ made \subseteq made'
      /\ \A f \in Entries \ {e} : Same(f)
  BY DEF Needle, NotReady, Ready, ReadyFails, Killed, Caught, Reap, Remove, SpawnPostgres,
         PostgresExits, LeaderExits, GiveUp, StopProc, KillGroup, ReapDir, Exited, RmDir,
         Release, Same, TypeOK, StateType
<1>2. /\ slot' = slot \/ (slot[br[e]] = e /\ slot' = [slot EXCEPT ![br[e]] = NoEntry])
      /\ pc'[e] # "new" /\ (pc'[e] = "needle" => pc[e] = "needle")
  BY <1>0 DEF Needle, NotReady, Ready, ReadyFails, Killed, Caught, Reap, Remove, SpawnPostgres,
         PostgresExits, LeaderExits, GiveUp, StopProc, TypeOK, StateType
<1>3. phase[e] = "stopping" => phase'[e] = "stopping"
  BY DEF Needle, NotReady, Ready, ReadyFails, Killed, Caught, Reap, Remove, SpawnPostgres,
         PostgresExits, LeaderExits, Fence, TypeOK, StateType
<1>4. /\ leader'[e] = "alive" => leader[e] = "alive"
      /\ leader[e] # "none" => leader'[e] # "none"
      /\ Alive(e)' => Alive(e)
  BY DEF Needle, NotReady, Ready, ReadyFails, Killed, Caught, Reap, Remove, SpawnPostgres,
         PostgresExits, LeaderExits, KillGroup, ReapDir, Alive, TypeOK, StateType
<1>5. \/ Notify(br[e])
      \/ UNCHANGED <<seen, slot>> /\ phase'[e] = phase[e] /\ pstate'[e] = pstate[e]
  BY DEF Needle, NotReady, Ready, ReadyFails, Killed, Caught, Reap, Remove, SpawnPostgres,
         PostgresExits, LeaderExits, GiveUp, Exited, NotifyState
<1> QED BY <1>0, <1>1, <1>2, <1>3, <1>4, <1>5 DEF EntryStep

\* The catch of a start(), with its processes gone: the entry is no longer mapped, and
\* goes on to its reap, or has let go of everything.
LEMMA GiveUpLife ==
  ASSUME CmAssumption, TypeOK, Stages, NEW e \in Entries, Life(e),
         NEW held \in [Kinds -> AllPorts \cup {NoPort}], NEW hasDir,
         GiveUp(e, held, hasDir), UNCHANGED <<br, phase, down, procVars>>,
         pc[e] \in Starting, phase[e] # "running",
         leader[e] # "alive", pg[e] = "alive" => held = ports[e] /\ hasDir,
         e \in made => e \in made', e \in disk => e \in disk',
         ~child[e]
  PROVE  Life(e)'
<1> USE DEF procVars
<1>1. pc'[e] \in {"reap", "failed"} /\ (pc'[e] = "failed" => ~hasDir)
  BY DEF GiveUp, TypeOK, StateType
<1>2. ~hasDir => ports'[e] = NoPorts
  BY DEF GiveUp, TypeOK, StateType
<1>3. Progress(e)' /\ Tenure(e)'
  BY <1>1 DEF Life, Progress, Tenure, Setup, Starting
<1>4. Processes(e)'
  BY <1>1 DEF Life, Processes, Progress, Alive, GiveUp, TypeOK, StateType
<1>5. Kept(e)'
  BY <1>1, <1>2 DEF Kept, Held, NoPorts, Alive
<1> QED BY <1>3, <1>4, <1>5 DEF Life

LEMMA SetupLife ==
  ASSUME CmAssumption, TypeOK, Stages, NEW e \in Entries, Life(e),
         \/ \E p \in AllPorts : Draw(e, p)
         \/ ProbeDeclines(e) \/ ProbeGrants(e) \/ Exhausted(e)
         \/ MakeDir(e) \/ MakeDirFails(e) \/ WriteConfig(e) \/ WriteConfigFails(e)
  PROVE  Life(e)'
<1> USE DEF entryVars, stopVars, procVars
<1>0. /\ pc[e] \in Setup /\ br[e] \in Branches /\ phase[e] # "running"
      /\ pstate[e] = "none" /\ ~child[e] /\ leader[e] = "none" /\ pg[e] = "none"
      /\ ports[e] \in [Kinds -> AllPorts \cup {NoPort}]
  BY DEF Draw, ProbeDeclines, ProbeGrants, Exhausted, MakeDir, MakeDirFails, WriteConfig,
         WriteConfigFails, Stages, StageOf, Kinds, Setup, Life, Progress, TypeOK, StateType
<1>1. pc[e] \in Starting
  BY <1>0 DEF Setup, Starting
<1>2. CASE \/ \E p \in AllPorts : Draw(e, p)
           \/ ProbeDeclines(e)
  BY <1>2, SameLife DEF Draw, ProbeDeclines, Same
<1>3. CASE ProbeGrants(e)
  <2> DEFINE held == [ports[e] EXCEPT ![pc[e]] = cand[e]]
  <2>1. held \in [Kinds -> AllPorts \cup {NoPort}] /\ pc[e] \in Kinds /\ cand[e] # NoPort
    BY <1>0, <1>3 DEF ProbeGrants, Stages, StageOf, TypeOK, StateType
  <2>2. CASE ~Fence(e)
    <3> HIDE DEF held
    <3>1. GiveUp(e, held, e \in made)
      BY <1>3, <2>2 DEF ProbeGrants, held
    <3> QED BY <1>0, <1>1, <1>3, <2>1, <2>2, <3>1, GiveUpLife DEF ProbeGrants
  <2>3. CASE Fence(e) /\ pc[e] # "http"
    <3>1. ports'[e] = held /\ pc'[e] = IF pc[e] = "port" THEN "mkdir" ELSE "http"
      BY <1>3, <2>3 DEF ProbeGrants, TypeOK, StateType
    <3>2. UNCHANGED <<slot, br, phase, made, disk, pg, stopVars, pstate, child, leader>>
      BY <1>3, <2>3 DEF ProbeGrants
    <3>3. held["port"] # NoPort /\ (pc[e] = "metrics" => held["metrics"] # NoPort)
      BY <2>1, <2>3, <1>0 DEF Life, Tenure, Kinds, Fence
    <3> QED BY <1>0, <1>1, <2>1, <2>3, <3>1, <3>2, <3>3
            DEF Life, Progress, Tenure, Processes, Kept, Alive, Setup, Starting, Kinds
  <2>4. CASE Fence(e) /\ pc[e] = "http"
    <3>1. ports'[e] = held /\ Launch(e)
      BY <1>3, <2>4 DEF ProbeGrants, TypeOK, StateType
    <3>2. UNCHANGED <<slot, br, phase, made, disk, pg, stopVars>>
      BY <1>3, <2>4 DEF ProbeGrants
    <3>3. \A k \in Kinds : held[k] # NoPort
      BY <2>1, <2>4, <1>0 DEF Life, Tenure, Kinds, Fence
    <3>4. e \in disk /\ e \in made
      BY <2>4 DEF Life, Tenure, Fence
    <3>5. \/ pc'[e] = "needle" /\ pstate'[e] = "starting" /\ child'[e] /\ leader'[e] = "alive"
          \/ pc'[e] = "caught" /\ pstate'[e] = "stopped" /\ ~child'[e] /\ leader'[e] = "none"
      BY <1>0, <3>1 DEF Launch, TypeOK, StateType
    <3> HIDE DEF held
    <3> QED BY <1>0, <1>1, <2>4, <3>1, <3>2, <3>3, <3>4, <3>5
            DEF Life, Progress, Tenure, Processes, Kept, Alive, Fence, Setup, Starting
  <2> QED BY <2>2, <2>3, <2>4
<1>4. CASE Exhausted(e)
  BY <1>0, <1>1, <1>4, GiveUpLife DEF Exhausted
<1>5. CASE MakeDir(e)
  <2>1. CASE ~Fence(e)
    BY <1>0, <1>1, <1>5, <2>1, GiveUpLife DEF MakeDir
  <2>2. CASE Fence(e)
    BY <1>0, <1>1, <1>5, <2>2 DEF MakeDir, Life, Progress, Tenure, Processes, Kept, Alive,
                                  Fence, Setup, Starting, TypeOK, StateType
  <2> QED BY <2>1, <2>2
<1>6. CASE MakeDirFails(e) \/ WriteConfigFails(e)
  BY <1>0, <1>1, <1>6, GiveUpLife DEF MakeDirFails, WriteConfigFails
<1>7. CASE WriteConfig(e)
  BY <1>0, <1>1, <1>7 DEF WriteConfig, Life, Progress, Tenure, Processes, Kept, Alive,
                          Setup, Starting, TypeOK, StateType
<1> QED BY <1>2, <1>3, <1>4, <1>5, <1>6, <1>7

\* Whatever the entry's processes do short of a spawn, its owner stays its owner.
LEMMA StaysKept ==
  ASSUME NEW e \in Entries, Kept(e), UNCHANGED <<slot, br, ports, on>>, Alive(e)' => Alive(e),
         pc[e] \notin Setup \cup {"new", "reap", "remove"}
  PROVE  Kept(e)'
BY DEF Kept, Held

LEMMA RunLife ==
  ASSUME CmAssumption, TypeOK, Stages, NEW e \in Entries, Life(e),
         \/ Needle(e) \/ NotReady(e) \/ Ready(e) \/ ReadyFails(e)
         \/ Killed(e) \/ Caught(e) \/ Reap(e) \/ Remove(e)
         \/ SpawnPostgres(e) \/ PostgresExits(e) \/ LeaderExits(e)
  PROVE  Life(e)'
<1> USE DEF entryVars, stopVars, procVars
<1>0. ports[e] \in [Kinds -> AllPorts \cup {NoPort}]
  BY DEF TypeOK, StateType
<1>1. CASE Needle(e)
  BY <1>1 DEF Needle, Life, Progress, Tenure, Processes, Kept, Alive, Held, Setup, Starting,
              TypeOK, StateType
<1>2. CASE NotReady(e)
  <2>1. Progress(e)' /\ Tenure(e)'
    BY <1>2 DEF NotReady, KillGroup, Life, Progress, Tenure, Processes, Setup, Starting, TypeOK, StateType
  <2>2. Processes(e)'
    BY <1>2 DEF NotReady, KillGroup, Life, Processes, Alive, TypeOK, StateType
  <2>3. Kept(e)'
    <3>1. Kept(e) /\ pc[e] \notin Setup \cup {"new", "reap", "remove"}
      BY <1>2 DEF NotReady, Life, Setup
    <3>2. Alive(e)' => Alive(e)
      BY <1>2 DEF NotReady, KillGroup, Alive, TypeOK, StateType
    <3>3. UNCHANGED <<slot, br, ports, on>>
      BY <1>2 DEF NotReady
    <3> QED BY <3>1, <3>2, <3>3, StaysKept
  <2> QED BY <2>1, <2>2, <2>3 DEF Life
<1>3. CASE Ready(e)
  <2>1. Progress(e)' /\ Tenure(e)'
    BY <1>3 DEF Ready, StopProc, Fence, Life, Progress, Tenure, Processes, Setup, Starting, TypeOK, StateType
  <2>2. Processes(e)'
    BY <1>3 DEF Ready, StopProc, Fence, Life, Processes, Alive, TypeOK, StateType
  <2>3. Kept(e)'
    <3>1. Kept(e) /\ pc[e] \notin Setup \cup {"new", "reap", "remove"}
      BY <1>3 DEF Ready, Life, Setup
    <3>2. Alive(e)' => Alive(e)
      BY <1>3 DEF Ready, StopProc, Fence, Alive, TypeOK, StateType
    <3>3. UNCHANGED <<slot, br, ports, on>>
      BY <1>3 DEF Ready
    <3> QED BY <3>1, <3>2, <3>3, StaysKept
  <2> QED BY <2>1, <2>2, <2>3 DEF Life
<1>4. CASE ReadyFails(e)
  <2>1. Progress(e)' /\ Tenure(e)'
    BY <1>4 DEF ReadyFails, StopProc, Life, Progress, Tenure, Processes, Setup, Starting, TypeOK, StateType
  <2>2. Processes(e)'
    BY <1>4 DEF ReadyFails, StopProc, Life, Processes, Alive, TypeOK, StateType
  <2>3. Kept(e)'
    <3>1. Kept(e) /\ pc[e] \notin Setup \cup {"new", "reap", "remove"}
      BY <1>4 DEF ReadyFails, Life, Setup
    <3>2. Alive(e)' => Alive(e)
      BY <1>4 DEF ReadyFails, StopProc, Alive, TypeOK, StateType
    <3>3. UNCHANGED <<slot, br, ports, on>>
      BY <1>4 DEF ReadyFails
    <3> QED BY <3>1, <3>2, <3>3, StaysKept
  <2> QED BY <2>1, <2>2, <2>3 DEF Life
<1>5. CASE Killed(e)
  <2>1. Progress(e)' /\ Tenure(e)'
    BY <1>5 DEF Killed, KillGroup, Life, Progress, Tenure, Processes, Setup, Starting, TypeOK, StateType
  <2>2. Processes(e)'
    BY <1>5 DEF Killed, KillGroup, Life, Processes, Alive, TypeOK, StateType
  <2>3. Kept(e)'
    <3>1. Kept(e) /\ pc[e] \notin Setup \cup {"new", "reap", "remove"}
      BY <1>5 DEF Killed, Life, Setup
    <3>2. Alive(e)' => Alive(e)
      BY <1>5 DEF Killed, KillGroup, Alive, TypeOK, StateType
    <3>3. UNCHANGED <<slot, br, ports, on>>
      BY <1>5 DEF Killed
    <3> QED BY <3>1, <3>2, <3>3, StaysKept
  <2> QED BY <2>1, <2>2, <2>3 DEF Life
<1>6. CASE Caught(e)
  <2>1. ~child[e] /\ phase[e] # "running"
    BY <1>6 DEF Caught, Life, Progress, Processes
  <2>2. CASE slot[br[e]] # e \/ phase[e] = "stopping"
    <3>1. Progress(e)' /\ Tenure(e)' /\ Processes(e)'
      BY <1>6, <2>2 DEF Caught, Life, Progress, Tenure, Processes, Alive, Setup, Starting,
                        TypeOK, StateType
    <3>2. Kept(e)'
      BY <1>6, <2>2, StaysKept DEF Caught, Life, Setup, Alive
    <3> QED BY <3>1, <3>2 DEF Life
  <2>3. CASE ~(slot[br[e]] # e \/ phase[e] = "stopping")
    <3>1. leader[e] # "alive" /\ pc[e] \in Starting
      BY <1>6, <2>1, <2>3 DEF Caught, Life, Processes, Starting
    <3> QED BY <1>0, <1>6, <2>1, <2>3, <3>1, GiveUpLife DEF Caught
  <2> QED BY <2>2, <2>3
<1>7. CASE Reap(e)
  BY <1>7 DEF Reap, ReapDir, Exited, Life, Progress, Tenure, Processes, Kept, Alive, Held,
              Setup, Starting, TypeOK, StateType
<1>8. CASE Remove(e)
  <2>1. ports'[e] = NoPorts /\ (\A k \in Kinds : NoPorts[k] = NoPort)
    BY <1>8 DEF Remove, Release, NoPorts, TypeOK, StateType
  <2> QED
    BY <1>8, <2>1 DEF Remove, RmDir, Life, Progress, Tenure, Processes, Kept, Alive, Held,
              Setup, Starting, TypeOK, StateType
<1>9. CASE SpawnPostgres(e) \/ PostgresExits(e)
  BY <1>9 DEF SpawnPostgres, PostgresExits, Life, Progress, Tenure, Processes, Kept, Alive,
              Held, Setup, Starting, TypeOK, StateType
<1>10. CASE LeaderExits(e)
  BY <1>10 DEF LeaderExits, Exited, Life, Progress, Tenure, Processes, Kept, Alive, Held,
              Setup, Starting, TypeOK, StateType
<1> QED BY <1>1, <1>2, <1>3, <1>4, <1>5, <1>6, <1>7, <1>8, <1>9, <1>10

-----------------------------------------------------------------------------
(* The first step and the last of an entry.                                  *)

LEMMA StartKeeps ==
  ASSUME CmAssumption, TypeOK, TypeOK', Stages, LifeInv, NEW e \in Entries, NEW b \in Branches,
         Start(e, b)
  PROVE  LifeInv'
<1> USE DEF entryVars, procVars, stopVars
<1>1. /\ pc[e] = "new" /\ pc'[e] = "port" /\ br'[e] = b /\ slot'[b] = e /\ slot[b] = NoEntry
      /\ \A d \in Branches \ {b} : slot'[d] = slot[d]
      /\ \A f \in Entries \ {e} : Same(f)
      /\ UNCHANGED <<phase, ports, made, disk, pstate, child, leader, pg, at, on, down>>
  BY DEF Start, Same, TypeOK, StateType
<1>2. \A d \in Branches : slot[d] # NoEntry => slot[d] \in Entries \ {e} /\ br[slot[d]] = d
  BY <1>1 DEF LifeInv, Slots, TypeOK, StateType
<1>3. Slots'
  BY <1>1, <1>2 DEF LifeInv, Slots, Same, CmAssumption
<1>4. Stops'
  <2> SUFFICES ASSUME NEW a \in Stoppers, NEW d \in Branches, on[a][d] # NoEntry
               PROVE  /\ br'[on[a][d]] = d /\ pc'[on[a][d]] # "new"
                      /\ UNCHANGED pc[on[a][d]]
    BY <1>1 DEF LifeInv, Stops, Alive
  <2>1. on[a][d] \in Entries \ {e} /\ br[on[a][d]] = d /\ pc[on[a][d]] # "new"
    BY <1>1 DEF LifeInv, Stops, TypeOK, StateType
  <2> QED BY <1>1, <2>1 DEF Same
<1>5. HintsSuffice'
  <2> SUFFICES ASSUME NEW d \in Branches,
                      \A a \in Stoppers : at[a][d] \in {"idle", "killing"}
               PROVE  seen'[d] = Status(d)'
    BY <1>1 DEF HintsSuffice
  <2>1. CASE d = b
    BY <2>1 DEF Start, Notify, TypeOK
  <2>2. CASE d # b
    <3>1. seen'[d] = seen[d] /\ slot'[d] = slot[d]
      BY <1>1, <2>2 DEF Start, Notify, TypeOK
    <3>2. Status(d)' = Status(d)
      BY <1>1, <3>1 DEF Status
    <3> QED BY <3>1, <3>2 DEF LifeInv, HintsSuffice
  <2> QED BY <2>1, <2>2
<1>6. ASSUME NEW f \in Entries \ {e}
      PROVE  Life(f)'
  <2>1. br[f] \in Branches /\ slot[br[f]] = f => slot'[br[f]] = f
    BY <1>1 DEF CmAssumption
  <2> QED BY <1>1, <2>1, SameLife DEF LifeInv
<1>7. Life(e)'
  <2>1. Life(e)
    BY DEF LifeInv
  <2> QED BY <1>1, <2>1 DEF Life, Progress, Tenure, Processes, Kept, Alive, Setup, Starting
<1> QED BY <1>3, <1>4, <1>5, <1>6, <1>7 DEF LifeInv

LEMMA ForgetKeeps ==
  ASSUME CmAssumption, TypeOK, TypeOK', Stages, LifeInv, NEW e \in Entries, Forget(e)
  PROVE  LifeInv'
<1> USE DEF entryVars, procVars, stopVars
<1>1. /\ pc'[e] = "new" /\ phase'[e] = "starting" /\ pstate'[e] = "none"
      /\ leader'[e] = "none" /\ pg'[e] = "none" /\ leader[e] # "alive"
      /\ \A f \in Entries \ {e} : Same(f)
      /\ UNCHANGED <<slot, ports, child, at, on, down, seen>>
      /\ slot[br[e]] # e
      /\ \A a \in Stoppers, b \in Branches : on[a][b] # e
  BY DEF Forget, Same, TypeOK, StateType
<1>2. \A d \in Branches : slot[d] # NoEntry => slot[d] \in Entries \ {e}
  BY <1>1 DEF LifeInv, Slots, TypeOK, StateType
<1>3. Slots'
  BY <1>1, <1>2 DEF LifeInv, Slots, Same
<1>4. Stops'
  <2> SUFFICES ASSUME NEW a \in Stoppers, NEW d \in Branches, on[a][d] # NoEntry
               PROVE  Same(on[a][d])
    BY <1>1 DEF LifeInv, Stops, Alive, Same
  <2> QED BY <1>1 DEF TypeOK, StateType
<1>5. HintsSuffice'
  <2>1. \A d \in Branches : Status(d)' = Status(d)
    BY <1>1, <1>2 DEF Status, Same
  <2> QED BY <1>1, <2>1 DEF LifeInv, HintsSuffice
<1>6. \A f \in Entries \ {e} : Life(f)'
  BY <1>1, SameLife DEF LifeInv
<1>7. Life(e)'
  <2>1. Life(e)
    BY DEF LifeInv
  <2> QED BY <1>1, <2>1 DEF Life, Progress, Tenure, Processes, Kept, Alive, Setup, Starting
<1> QED BY <1>3, <1>4, <1>5, <1>6, <1>7 DEF LifeInv

-----------------------------------------------------------------------------
(* The steps of stop().                                                      *)

LEMMA BeginStopKeeps ==
  ASSUME CmAssumption, TypeOK, TypeOK', LifeInv,
         NEW a \in Stoppers, NEW B \in SUBSET Branches, BeginStop(a, B),
         \A b \in B : at[a][b] = "idle",
         \A b \in B : slot[b] # NoEntry /\ pc[slot[b]] \in Starting => down' /\ ~down,
         a = "all" => down', down => down'
  PROVE  LifeInv'
<1> DEFINE taken == {slot[b] : b \in B} \ {NoEntry}
           mine(b) == b \in B /\ slot[b] # NoEntry
           freed(e) == ~child[e] /\ e \notin made
<1>1. /\ UNCHANGED <<pc, br, made, disk, leader, pg>>
      /\ \A e \in Entries \ taken : Same(e)
      /\ \A e \in Entries \cap taken :
           /\ phase'[e] = "stopping" /\ ~child'[e]
           /\ pstate'[e] = IF pstate[e] = "none" THEN "none" ELSE "stopped"
           /\ ports'[e] = IF freed(e) THEN NoPorts ELSE ports[e]
  <2>1. UNCHANGED <<pc, br, made, disk, leader, pg>>
    BY DEF BeginStop
  <2>2. \A e \in Entries :
          /\ phase'[e] = IF e \in taken THEN "stopping" ELSE phase[e]
          /\ pstate'[e] = IF e \in taken /\ pstate[e] # "none" THEN "stopped" ELSE pstate[e]
          /\ child'[e] = (child[e] /\ e \notin taken)
          /\ ports'[e] = IF e \in taken /\ freed(e) THEN NoPorts ELSE ports[e]
    BY DEF BeginStop
  <2> HIDE DEF taken, freed
  <2>3. ASSUME NEW e \in Entries, e \notin taken
        PROVE  Same(e)
    <3>1. child[e] \in BOOLEAN
      BY DEF TypeOK, StateType
    <3>2. /\ phase'[e] = phase[e] /\ pstate'[e] = pstate[e] /\ ports'[e] = ports[e]
          /\ child'[e] = child[e]
      BY <2>2, <2>3, <3>1
    <3> QED BY <2>1, <3>2 DEF Same
  <2>4. ASSUME NEW e \in Entries \cap taken
        PROVE  /\ phase'[e] = "stopping" /\ ~child'[e]
               /\ pstate'[e] = IF pstate[e] = "none" THEN "none" ELSE "stopped"
               /\ ports'[e] = IF freed(e) THEN NoPorts ELSE ports[e]
    BY <2>2, <2>4
  <2> QED BY <2>1, <2>3, <2>4
<1>2. \A b \in Branches :
        /\ mine(b) => /\ at'[a][b] = IF child[slot[b]] THEN "killing"
                                     ELSE IF freed(slot[b]) THEN "idle" ELSE "reap"
                      /\ on'[a][b] = IF freed(slot[b]) THEN on[a][b] ELSE slot[b]
                      /\ slot'[b] = IF child[slot[b]] THEN slot[b] ELSE NoEntry
                      /\ seen'[b] = IF freed(slot[b]) THEN "stopped" ELSE "stopping"
        /\ ~mine(b) => /\ at'[a][b] = at[a][b] /\ on'[a][b] = on[a][b]
                       /\ slot'[b] = slot[b] /\ seen'[b] = seen[b]
        /\ \A c \in Stoppers \ {a} : at'[c][b] = at[c][b] /\ on'[c][b] = on[c][b]
  BY DEF BeginStop, TypeOK, StateType
<1>3. \A b \in Branches : slot[b] # NoEntry => /\ slot[b] \in Entries /\ br[slot[b]] = b
                                              /\ pc[slot[b]] # "new"
  BY DEF LifeInv, Slots, TypeOK, StateType
<1>4. \A b \in Branches : mine(b) => on[a][b] = NoEntry
  BY DEF LifeInv, Stops
<1>5. \A b \in Branches : slot[b] # NoEntry /\ slot[b] \in taken => mine(b)
  BY <1>3
<1>6. \A e \in taken : e \in Entries /\ br[e] \in B /\ slot[br[e]] = e
  BY <1>3
<1>7. \A e \in taken : freed(e) => ~Alive(e)
  BY <1>6 DEF LifeInv, Life, Progress, Alive
<1> HIDE DEF taken, mine
<1>8. Slots'
  <2> SUFFICES ASSUME NEW b \in Branches, slot'[b] # NoEntry
               PROVE  slot'[b] = slot[b]
    BY <1>1, <1>3 DEF Slots
  <2> QED BY <1>2
<1>9. Stops'
  <2> SUFFICES ASSUME NEW c \in Stoppers, NEW b \in Branches
               PROVE  /\ at'[c][b] = "idle" <=> on'[c][b] = NoEntry
                      /\ on'[c][b] # NoEntry =>
                           /\ br'[on'[c][b]] = b /\ pc'[on'[c][b]] # "new"
                           /\ phase'[on'[c][b]] = "stopping" /\ on'[c][b] \in made'
                           /\ at'[c][b] = "killing" => leader'[on'[c][b]] # "none"
                           /\ at'[c][b] = "remove" => ~Alive(on[c][b])'
                           /\ at'[c][b] = "reap" /\ pc'[on'[c][b]] = "needle"
                                => leader'[on'[c][b]] # "alive"
                      /\ ~down' => at'["all"][b] = "idle"
    BY DEF Stops
  <2>0. "all" \in Stoppers
    BY DEF Stoppers
  <2>1. ~down' => at'["all"][b] = "idle"
    BY <1>2, <2>0 DEF LifeInv, Stops
  <2>2. CASE c = a /\ mine(b)
    <3> DEFINE e == slot[b]
    <3>1. e \in Entries /\ br[e] = b /\ pc[e] # "new" /\ e # NoEntry /\ phase'[e] = "stopping"
      BY <1>1, <1>3, <2>2 DEF taken, mine, CmAssumption
    <3>2. Life(e)
      BY <3>1 DEF LifeInv
    <3>3. /\ at'[a][b] = IF child[e] THEN "killing" ELSE IF freed(e) THEN "idle" ELSE "reap"
          /\ on'[a][b] = IF freed(e) THEN NoEntry ELSE e
      BY <1>2, <1>4, <2>2
    <3>4. child[e] => e \in made /\ leader[e] # "none"
      BY <3>2 DEF Life, Processes, Progress
    <3>5. ~child[e] /\ pc[e] = "needle" => leader[e] # "alive"
      <4>1. pc[e] = "needle" => ~down
        BY <2>2 DEF mine, Starting
      <4> QED BY <3>2, <4>1 DEF Life, Processes, Progress, Starting
    <3> HIDE DEF e
    <3> QED BY <1>1, <2>1, <2>2, <3>1, <3>3, <3>4, <3>5
  <2>3. CASE ~(c = a /\ mine(b))
    <3>1. at'[c][b] = at[c][b] /\ on'[c][b] = on[c][b]
      BY <1>2, <2>3
    <3>2. on[c][b] # NoEntry => on[c][b] \in Entries /\ phase[on[c][b]] = "stopping"
      BY DEF LifeInv, Stops, TypeOK, StateType
    <3>3. on[c][b] # NoEntry => phase'[on[c][b]] = "stopping"
      BY <1>1, <3>2 DEF Same
    <3> QED BY <1>1, <2>1, <3>1, <3>3 DEF LifeInv, Stops, Alive
  <2> QED BY <2>2, <2>3
<1>10. HintsSuffice'
  <2> SUFFICES ASSUME NEW b \in Branches,
                      \A c \in Stoppers : at'[c][b] \in {"idle", "killing"}
               PROVE  seen'[b] = Status(b)'
    BY DEF HintsSuffice
  <2>1. CASE mine(b)
    <3>1. slot[b] \in Entries /\ slot[b] \in taken /\ at'[a][b] # "reap"
      BY <1>3, <2>1 DEF mine, taken
    <3>2. CASE child[slot[b]]
      BY <1>1, <1>2, <2>1, <3>1, <3>2 DEF Status, mine
    <3>3. CASE ~child[slot[b]]
      BY <1>2, <2>1, <3>1, <3>3 DEF Status
    <3> QED BY <3>2, <3>3
  <2>2. CASE ~mine(b)
    <3>1. slot'[b] = slot[b] /\ seen'[b] = seen[b]
          /\ \A c \in Stoppers : at'[c][b] = at[c][b]
      BY <1>2, <2>2
    <3>2. slot[b] # NoEntry => Same(slot[b])
      BY <1>1, <1>3, <1>5, <2>2
    <3>3. Status(b)' = Status(b)
      BY <3>1, <3>2 DEF Status, Same
    <3> QED BY <3>1, <3>3 DEF LifeInv, HintsSuffice
  <2> QED BY <2>1, <2>2
<1>11. ASSUME NEW e \in Entries, e \notin taken
       PROVE  Life(e)'
  <2>1. br[e] \in Branches /\ slot[br[e]] = e => slot'[br[e]] = e
    BY <1>2, <1>11 DEF taken, mine, CmAssumption
  <2>2. \A c \in Stoppers, b \in Branches : on[c][b] = e => on'[c][b] = e
    BY <1>2, <1>4 DEF CmAssumption
  <2> QED BY <1>1, <1>11, <2>1, <2>2, SameLife DEF LifeInv
<1>12. ASSUME NEW e \in Entries, e \in taken
       PROVE  Life(e)'
  <2>0. /\ Life(e) /\ pc[e] # "new" /\ br[e] \in Branches /\ mine(br[e]) /\ slot[br[e]] = e
        /\ pc[e] \in Starting => down'
    BY <1>3, <1>5, <1>6, <1>12 DEF LifeInv, mine, CmAssumption
  <2>1. Progress(e)' /\ Tenure(e)'
    BY <1>1, <1>12, <2>0 DEF Life, Progress, Tenure
  <2>2. Processes(e)'
    BY <1>1, <1>7, <1>12, <2>0 DEF Life, Processes, Alive
  <2>3. Kept(e)'
    <3>1. CASE freed(e)
      BY <1>1, <1>7, <1>12, <3>1 DEF Kept, Held, NoPorts, Alive
    <3>2. CASE ~freed(e)
      <4>1. on'[a][br[e]] = e
        BY <1>2, <2>0, <3>2
      <4> QED BY <1>1, <2>0, <4>1 DEF Kept
    <3> QED BY <3>1, <3>2
  <2> QED BY <2>1, <2>2, <2>3 DEF Life
<1> QED BY <1>8, <1>9, <1>10, <1>11, <1>12 DEF LifeInv

LEMMA ResumeStopKeeps ==
  ASSUME CmAssumption, TypeOK, TypeOK', LifeInv, NEW a \in Stoppers, NEW b \in Branches,
         ResumeStop(a, b)
  PROVE  LifeInv'
<1> USE DEF entryVars, procVars
<1>1. at[a][b] # "idle" /\ on[a][b] # NoEntry
  BY DEF ResumeStop, StopKilled, StopReap, StopRemove, LifeInv, Stops
<1>0. PICK e \in Entries : e = on[a][b]
  BY <1>1 DEF TypeOK, StateType
<1>2. /\ e \in Entries /\ br[e] = b /\ pc[e] # "new" /\ phase[e] = "stopping" /\ e \in made
      /\ at[a][b] = "killing" => leader[e] # "none"
      /\ at[a][b] = "remove" => ~Alive(e)
  BY <1>0, <1>1 DEF LifeInv, Stops
<1>3. ~child[e] /\ pstate[e] # "running"
  BY <1>2 DEF LifeInv, Life, Processes
<1>4. /\ UNCHANGED <<pc, br, phase, made, down, child, pstate>>
      /\ \A f \in Entries \ {e} : Same(f)
      /\ slot'[b] \in {slot[b], NoEntry} /\ (slot'[b] # slot[b] => slot[b] = e)
      /\ \A d \in Branches \ {b} : slot'[d] = slot[d] /\ seen'[d] = seen[d]
      /\ \A c \in Stoppers, d \in Branches :
           (c # a \/ d # b) => at'[c][d] = at[c][d] /\ on'[c][d] = on[c][d]
  <2>1. CASE StopKilled(a, b)
    BY <1>0, <1>2, <2>1 DEF StopKilled, KillGroup, Same, TypeOK, StateType
  <2>2. CASE StopReap(a, b)
    <3>1. UNCHANGED <<child, pstate>>
      BY <1>0, <1>2, <1>3, <2>2 DEF StopReap, Exited, TypeOK, StateType
    <3>2. UNCHANGED <<seen, slot, entryVars, pc, disk, down, on>>
      BY <1>0, <1>2, <2>2, <3>1 DEF StopReap, Exited, NotifyState
    <3>3. \A f \in Entries \ {e} : Same(f)
      BY <1>0, <2>2, <3>1, <3>2 DEF StopReap, ReapDir, Same, TypeOK, StateType
    <3>4. \A c \in Stoppers, d \in Branches : (c # a \/ d # b) => at'[c][d] = at[c][d]
      BY <2>2 DEF StopReap, TypeOK, StateType
    <3> QED BY <3>1, <3>2, <3>3, <3>4
  <2>3. CASE StopRemove(a, b)
    BY <1>0, <1>2, <2>3 DEF StopRemove, Release, RmDir, Notify, Same, TypeOK, StateType
  <2> QED BY <2>1, <2>2, <2>3 DEF ResumeStop
<1>5. ~Alive(e)' /\ (leader[e] # "none" => leader'[e] # "none") /\ (pg'[e] # "none" <=> pg[e] # "none")
      /\ (leader'[e] # "none" \/ pg[e] = "none")
  <2>0. pg[e] # "none" => leader[e] # "none"
    BY <1>2 DEF LifeInv, Life, Progress
  <2>1. CASE StopKilled(a, b)
    BY <1>0, <1>2, <2>0, <2>1 DEF StopKilled, KillGroup, Alive, TypeOK, StateType
  <2>2. CASE StopReap(a, b)
    BY <1>0, <1>2, <2>0, <2>2 DEF StopReap, ReapDir, Alive, TypeOK, StateType
  <2>3. CASE StopRemove(a, b)
    BY <1>0, <1>2, <2>0, <2>3 DEF StopRemove, Alive
  <2> QED BY <2>1, <2>2, <2>3 DEF ResumeStop
<1>6. \/ on'[a][b] = e /\ at'[a][b] \in {"reap", "remove"} /\ UNCHANGED ports
      \/ on'[a][b] = NoEntry /\ at'[a][b] = "idle" /\ ports'[e] = NoPorts /\ Notify(b)
  BY <1>0, <1>2 DEF ResumeStop, StopKilled, StopReap, StopRemove, Release, TypeOK, StateType
<1>7. Slots'
  BY <1>4 DEF LifeInv, Slots
<1>8. Stops'
  <2> SUFFICES ASSUME NEW c \in Stoppers, NEW d \in Branches
               PROVE  /\ at'[c][d] = "idle" <=> on'[c][d] = NoEntry
                      /\ on'[c][d] # NoEntry =>
                           /\ br[on'[c][d]] = d /\ pc[on'[c][d]] # "new"
                           /\ phase[on'[c][d]] = "stopping" /\ on'[c][d] \in made
                           /\ at'[c][d] = "killing" => leader'[on'[c][d]] # "none"
                           /\ at'[c][d] = "remove" => ~Alive(on[c][d])'
                           /\ at'[c][d] = "reap" /\ pc[on'[c][d]] = "needle"
                                => leader'[on'[c][d]] # "alive"
                      /\ ~down => at'["all"][d] = "idle"
    BY <1>4 DEF Stops
  <2>0. "all" \in Stoppers
    BY DEF Stoppers
  <2>1. ~down => at'["all"][d] = "idle"
    BY <1>1, <1>4, <2>0 DEF LifeInv, Stops
  <2>2. CASE c = a /\ d = b
    BY <1>0, <1>2, <1>5, <1>6, <2>1, <2>2 DEF Alive, CmAssumption
  <2>3. CASE c # a \/ d # b
    <3>1. at'[c][d] = at[c][d] /\ on'[c][d] = on[c][d]
      BY <1>4, <2>3
    <3>2. on[c][d] # NoEntry => on[c][d] \in Entries
      BY DEF TypeOK, StateType
    <3>3. CASE on[c][d] = e
      BY <1>2, <1>5, <2>1, <3>1, <3>3 DEF LifeInv, Stops, Alive
    <3>4. CASE on[c][d] # e
      BY <1>4, <2>1, <3>1, <3>2, <3>4 DEF LifeInv, Stops, Alive, Same
    <3> QED BY <3>3, <3>4
  <2> QED BY <2>2, <2>3
<1>9. HintsSuffice'
  <2> SUFFICES ASSUME NEW d \in Branches,
                      \A c \in Stoppers : at'[c][d] \in {"idle", "killing"}
               PROVE  seen'[d] = Status(d)'
    BY DEF HintsSuffice
  <2>1. CASE d = b
    <3>1. Notify(b)
      BY <1>6, <2>1
    <3> QED BY <2>1, <3>1 DEF Notify, TypeOK
  <2>2. CASE d # b
    <3>1. slot'[d] = slot[d] /\ seen'[d] = seen[d] /\ \A c \in Stoppers : at'[c][d] = at[c][d]
      BY <1>4, <2>2
    <3>2. Status(d)' = Status(d)
      BY <1>4, <3>1 DEF Status
    <3> QED BY <3>1, <3>2 DEF LifeInv, HintsSuffice
  <2> QED BY <2>1, <2>2
<1>10. ASSUME NEW f \in Entries \ {e}
       PROVE  Life(f)'
  <2>1. br[f] \in Branches /\ slot[br[f]] = f => slot'[br[f]] = f
    BY <1>4
  <2>2. \A c \in Stoppers, d \in Branches : on[c][d] = f => on'[c][d] = f
    BY <1>0, <1>4
  <2> QED BY <1>4, <2>1, <2>2, SameLife DEF LifeInv
<1>11. Life(e)'
  <2>0. Life(e)
    BY <1>2 DEF LifeInv
  <2>1. Progress(e)' /\ Tenure(e)'
    <3>1. leader'[e] # "none" \/ pc[e] \in {"needle", "waitReady", "killing"} => e \in made
      BY <1>2
    <3>2. pc[e] \notin {"new"} \cup Setup \/ (leader'[e] = leader[e] /\ pg'[e] = pg[e])
      <4>1. CASE pc[e] \in Setup
        <5>1. leader[e] = "none" /\ pg[e] = "none"
          BY <2>0, <4>1 DEF Life, Progress
        <5>2. StopReap(a, b) \/ StopRemove(a, b)
          BY <1>0, <1>2, <5>1 DEF ResumeStop, StopKilled
        <5> QED BY <1>0, <1>2, <5>1, <5>2 DEF StopReap, StopRemove, ReapDir, TypeOK, StateType
      <4> QED BY <1>2, <4>1
    <3> QED BY <1>2, <1>4, <1>5, <2>0, <3>1, <3>2 DEF Life, Progress, Tenure
  <2>2. Processes(e)'
    BY <1>2, <1>3, <1>4, <1>5, <2>0 DEF Processes, Life, Alive
  <2>3. Kept(e)'
    BY <1>0, <1>2, <1>5, <1>6 DEF Kept, Held, NoPorts
  <2> QED BY <2>1, <2>2, <2>3 DEF Life
<1> QED BY <1>7, <1>8, <1>9, <1>10, <1>11 DEF LifeInv

-----------------------------------------------------------------------------
(* The invariant and what follows from it.                                   *)

LEMMA InitLife == ASSUME CmAssumption, Init PROVE LifeInv
<1>1. Slots /\ Stops
  BY DEF Init, Slots, Stops, Stoppers
<1>2. HintsSuffice
  BY DEF Init, HintsSuffice, Status
<1>3. ASSUME NEW e \in Entries PROVE Life(e)
  BY DEF Init, Life, Progress, Tenure, Processes, Kept, Alive, Setup, Starting
<1> QED BY <1>1, <1>2, <1>3 DEF LifeInv

LEMMA ResumeKeeps ==
  ASSUME CmAssumption, TypeOK, TypeOK', Stages, LifeInv, NEW e \in Entries,
         Resume(e) \/ SpawnPostgres(e) \/ PostgresExits(e) \/ LeaderExits(e)
  PROVE  LifeInv'
<1>1. Life(e)
  BY DEF LifeInv
<1>2. EntryStep(e) /\ Life(e)'
  <2>1. CASE \/ \E p \in AllPorts : Draw(e, p)
             \/ ProbeDeclines(e) \/ ProbeGrants(e) \/ Exhausted(e)
             \/ MakeDir(e) \/ MakeDirFails(e) \/ WriteConfig(e) \/ WriteConfigFails(e)
    BY <1>1, <2>1, SetupStep, SetupLife
  <2>2. CASE \/ Needle(e) \/ NotReady(e) \/ Ready(e) \/ ReadyFails(e)
             \/ Killed(e) \/ Caught(e) \/ Reap(e) \/ Remove(e)
             \/ SpawnPostgres(e) \/ PostgresExits(e) \/ LeaderExits(e)
    BY <1>1, <2>2, RunStep, RunLife
  <2> QED BY <2>1, <2>2 DEF Resume
<1> QED BY <1>2, EntryStepKeeps DEF LifeInv

LEMMA StopKeeps ==
  ASSUME CmAssumption, TypeOK, TypeOK', LifeInv, NEW b \in Branches, Stop(b)
  PROVE  LifeInv'
<1>1. BeginStop("lane", {b}) /\ down' = down /\ ~LaneBusy(b)
  BY DEF Stop
<1>2. at["lane"][b] = "idle"
  BY <1>1 DEF LaneBusy
<1>3. slot[b] # NoEntry => pc[slot[b]] \notin Starting
  BY <1>1 DEF LaneBusy, LifeInv, Slots, TypeOK, StateType
<1>4. {b} \in SUBSET Branches /\ "lane" \in Stoppers
  BY DEF Stoppers
<1> HIDE DEF Starting
<1> QED BY <1>1, <1>2, <1>3, <1>4, BeginStopKeeps

LEMMA StopAllKeeps ==
  ASSUME CmAssumption, TypeOK, TypeOK', LifeInv, StopAll
  PROVE  LifeInv'
<1>1. BeginStop("all", Branches) /\ down' /\ ~down
  BY DEF StopAll
<1>2. \A b \in Branches : at["all"][b] = "idle"
  BY <1>1 DEF LifeInv, Stops, Stoppers
<1>3. Branches \in SUBSET Branches /\ "all" \in Stoppers
  BY DEF Stoppers
<1> QED BY <1>1, <1>2, <1>3, BeginStopKeeps

LEMMA NextLife ==
  ASSUME CmAssumption, TypeOK, TypeOK', Stages, LifeInv, Next
  PROVE  LifeInv'
<1>1. CASE \E e \in Entries, b \in Branches : Start(e, b)
  BY <1>1, StartKeeps
<1>2. CASE \E e \in Entries : Resume(e)
  BY <1>2, ResumeKeeps
<1>3. CASE \E b \in Branches : Stop(b)
  BY <1>3, StopKeeps
<1>4. CASE StopAll
  BY <1>4, StopAllKeeps
<1>5. CASE \E a \in Stoppers, b \in Branches : ResumeStop(a, b)
  BY <1>5, ResumeStopKeeps
<1>6. CASE \E e \in Entries :
             SpawnPostgres(e) \/ PostgresExits(e) \/ LeaderExits(e) \/ Forget(e)
  BY <1>6, ResumeKeeps, ForgetKeeps
<1> QED BY <1>1, <1>2, <1>3, <1>4, <1>5, <1>6 DEF Next

LEMMA LifeStutters == ASSUME LifeInv, UNCHANGED vars PROVE LifeInv'
<1>1. Slots' /\ Stops' /\ HintsSuffice'
  BY DEF vars, entryVars, procVars, stopVars, LifeInv, Slots, Stops, HintsSuffice, Status, Alive
<1>2. ASSUME NEW e \in Entries PROVE Life(e)'
  BY SameLife DEF LifeInv, Same, vars, entryVars, procVars, stopVars
<1> QED BY <1>1, <1>2 DEF LifeInv

LEMMA LifeInvariant == Spec => [](PortsInv /\ LifeInv)
<1> USE CmAssumption
<1>1. Init => LifeInv
  BY InitLife
<1>2. PortsInv /\ PortsInv' /\ LifeInv /\ [Next]_vars => LifeInv'
  BY NextLife, LifeStutters DEF PortsInv
<1> QED BY <1>1, <1>2, PortsInvariant, PTL DEF Spec

\* NothingLeaks: at every await, a port that is reserved and a compute_ctl or postgres
\* that runs has someone who still knows of it: the map, its start(), or a stop().
THEOREM ComputeNeverLeaks == Spec => []NothingLeaks
<1>1. PortsInv /\ LifeInv => NothingLeaks
  <2> SUFFICES ASSUME PortsInv, LifeInv, NEW e \in Entries, Claimed(e) # {} \/ Alive(e)
               PROVE  Owned(e)
    BY DEF NothingLeaks
  <2>0. Life(e) /\ StageOf(pc[e], cand[e], ports[e])
    BY DEF LifeInv, PortsInv, Stages
  <2>1. CASE pc[e] \in Starting
    BY <2>1 DEF Owned
  <2>2. CASE pc[e] = "new"
    <3>1. ~Alive(e)
      BY <2>0, <2>2 DEF Life, Progress, Alive
    <3>2. Claimed(e) = {}
      BY <2>0, <2>2 DEF StageOf, Claimed, Held, Kinds
    <3> QED BY <3>1, <3>2
  <2>3. CASE pc[e] \notin Starting \cup {"new"}
    <3>1. Held(e) # {} \/ Alive(e)
      BY <2>0, <2>3 DEF StageOf, Claimed, Starting, Kinds
    <3> QED BY <2>0, <2>3, <3>1 DEF Life, Kept, Owned, Setup, Starting
  <2> QED BY <2>1, <2>2, <2>3
<1> QED BY <1>1, LifeInvariant, PTL

\* StatusHonest: what statusOf calls "running" has committed its start(), and its
\* leader, its directory and its three ports are there.
THEOREM ComputeStatusHonest == Spec => []StatusHonest
<1>1. PortsInv /\ LifeInv => StatusHonest
  <2> SUFFICES ASSUME PortsInv, LifeInv, NEW b \in Branches, Status(b) = "running"
               PROVE  LET e == slot[b] IN
                      /\ pc[e] = "running" /\ br[e] = b
                      /\ leader[e] = "alive"
                      /\ e \in disk
                      /\ \A k \in Kinds : ports[e][k] # NoPort
    BY DEF StatusHonest
  <2>1. /\ slot[b] # NoEntry /\ phase[slot[b]] \notin {"stopping", "starting"}
        /\ pstate[slot[b]] = "running"
    BY DEF Status
  <2>2. slot[b] \in Entries /\ br[slot[b]] = b
    BY <2>1 DEF PortsInv, TypeOK, StateType, LifeInv, Slots
  <2>3. phase[slot[b]] = "running"
    BY <2>1, <2>2 DEF PortsInv, TypeOK, StateType
  <2> QED BY <2>1, <2>2, <2>3 DEF LifeInv, Life, Progress, Processes, Alive
<1> QED BY <1>1, LifeInvariant, PTL

\* HintsSuffice: outside the removal of a directory, the status that statusOf reports is
\* the one it reported when the last endpoint.status hint went out.
THEOREM ComputeHintsSuffice == Spec => []HintsSuffice
<1>1. LifeInv => HintsSuffice
  BY DEF LifeInv
<1> QED BY <1>1, LifeInvariant, PTL

\* LiveKeepsAll: while any process of an entry lives its directory and ports are kept,
\* and the reap before their release misses none.
THEOREM ComputeLiveKeepsAll == Spec => []LiveKeepsAll
<1>1. PortsInv /\ LifeInv => LiveKeepsAll
  <2> SUFFICES ASSUME PortsInv, LifeInv PROVE LiveKeepsAll
    OBVIOUS
  <2>1. \A e \in Entries : Alive(e) => e \in disk /\ \A k \in Kinds : ports[e][k] # NoPort
    BY DEF LifeInv, Life, Processes
  <2>2. ASSUME NEW e \in Entries, Reaping(e), leader[e] = "alive"
        PROVE  pg[e] # "none"
    BY <2>2 DEF LifeInv, Life, Processes, Stops, Reaping, CmAssumption
  <2> QED BY <2>1, <2>2 DEF LiveKeepsAll, ReapMissesNone
<1> QED BY <1>1, LifeInvariant, PTL

=============================================================================
