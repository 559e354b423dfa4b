------------------------- MODULE ComputeManagerProofs -------------------------
(* Theorems about ComputeManager, for any branches, entries and ports.         *)
EXTENDS ComputeManager, TLAPS

\* What PortsExclusive needs to be inductive: a start() that is about to record a
\* port of some kind holds none of that kind yet (else the overwritten claim would
\* leak), only an allocating start() has a candidate, and a stop() in progress has
\* an entry.
StageOf(stage, probing, held) ==
  /\ probing # NoPort => stage \in Kinds
  /\ stage \in {"new", "port"} => held["port"] = NoPort
  /\ stage \in {"new", "port", "mkdir", "config", "metrics"} => held["metrics"] = NoPort
  /\ stage \in {"new", "port", "mkdir", "config", "metrics", "http"} => held["http"] = NoPort

Stages ==
  /\ \A e \in Entries : StageOf(pc[e], cand[e], ports[e])
  /\ \A a \in Stoppers, b \in Branches : at[a][b] # "idle" => on[a][b] \in Entries

PortsInv == TypeOK /\ Stages /\ PortsExclusive

-----------------------------------------------------------------------------
(* Types.                                                                    *)

\* A hint writes a status, whatever branch it is for.
LEMMA NotifyType ==
  ASSUME TypeOK, StateType', NEW b, Notify(b)
  PROVE  TypeOK'
<1>1. ASSUME b \in Branches
      PROVE  Status(b)' \in Statuses
  BY <1>1 DEF StateType, Status, Statuses
<1>2. seen' \in [Branches -> Statuses]
  <2>1. CASE b \in Branches
    BY <2>1, <1>1 DEF TypeOK, Notify
  <2>2. CASE b \notin Branches
    BY <2>2 DEF TypeOK, Notify
  <2> QED BY <2>1, <2>2
<1> QED BY <1>2 DEF TypeOK

LEMMA NotifyStateType ==
  ASSUME TypeOK, StateType', NEW e \in Entries, NotifyState(e)
  PROVE  TypeOK'
<1>1. CASE pstate'[e] = pstate[e]
  BY <1>1 DEF NotifyState, TypeOK
<1>2. CASE pstate'[e] # pstate[e]
  BY <1>2, NotifyType DEF NotifyState
<1> QED BY <1>1, <1>2

LEMMA InitType == ASSUME CmAssumption, Init PROVE TypeOK
<1>1. ports \in [Entries -> [Kinds -> AllPorts \cup {NoPort}]]
  BY DEF Init, NoPorts
<1>2. /\ at \in [Stoppers -> [Branches -> {"idle", "killing", "reap", "remove"}]]
      /\ on \in [Stoppers -> [Branches -> Entries \cup {NoEntry}]]
  BY DEF Init
<1>3. tries \in [Entries -> 0..MaxTries]
  BY DEF CmAssumption, Init
<1>4. pc \in [Entries -> PCs]
  BY DEF Init, PCs
<1> QED BY <1>1, <1>2, <1>3, <1>4 DEF Init, TypeOK, StateType, Statuses

\* The teardown of start() is well typed whatever ports it holds.
LEMMA GiveUpType ==
  ASSUME TypeOK, NEW e \in Entries,
         NEW held \in [Kinds -> AllPorts \cup {NoPort}], NEW hasDir,
         GiveUp(e, held, hasDir)
  PROVE  /\ slot' \in [Branches -> Entries \cup {NoEntry}]
         /\ pc' \in [Entries -> PCs]
         /\ ports' \in [Entries -> [Kinds -> AllPorts \cup {NoPort}]]
         /\ reserved' \subseteq AllPorts
         /\ Notify(br[e])
<1>1. pc' \in [Entries -> PCs]
  BY DEF GiveUp, TypeOK, StateType, PCs, Starting
<1>2. ports' \in [Entries -> [Kinds -> AllPorts \cup {NoPort}]]
  <2>1. NoPorts \in [Kinds -> AllPorts \cup {NoPort}]
    BY DEF NoPorts
  <2> QED BY <2>1 DEF GiveUp, TypeOK, StateType
<1> QED BY <1>1, <1>2 DEF GiveUp, TypeOK, StateType

LEMMA SetupType ==
  ASSUME CmAssumption, TypeOK, NEW e \in Entries,
         \/ \E p \in AllPorts : Draw(e, p)
         \/ ProbeDeclines(e) \/ ProbeGrants(e) \/ Exhausted(e)
         \/ MakeDir(e) \/ MakeDirFails(e) \/ WriteConfig(e) \/ WriteConfigFails(e)
  PROVE  TypeOK'
<1> USE DEF entryVars, procVars, stopVars
<1>0. ports[e] \in [Kinds -> AllPorts \cup {NoPort}]
  BY DEF TypeOK, StateType
<1>1. ASSUME NEW p \in AllPorts, Draw(e, p)
      PROVE  TypeOK'
  <2>1. tries' \in [Entries -> 0..MaxTries]
    BY <1>1 DEF Draw, TypeOK, StateType, CmAssumption
  <2>2. reserved' \subseteq AllPorts /\ cand' \in [Entries -> AllPorts \cup {NoPort}]
    <3>1. CASE p \in reserved
      BY <1>1, <3>1 DEF Draw, TypeOK, StateType
    <3>2. CASE p \notin reserved
      BY <1>1, <3>2 DEF Draw, TypeOK, StateType
    <3> QED BY <3>1, <3>2
  <2> QED BY <1>1, <2>1, <2>2 DEF Draw, TypeOK, StateType
<1>2. CASE ProbeDeclines(e)
  BY <1>2 DEF ProbeDeclines, TypeOK, StateType
<1>3. CASE ProbeGrants(e)
  <2> DEFINE held == [ports[e] EXCEPT ![pc[e]] = cand[e]]
  <2>1. held \in [Kinds -> AllPorts \cup {NoPort}]
    BY <1>0 DEF TypeOK, StateType
  <2>2. tries' \in [Entries -> 0..MaxTries] /\ cand' \in [Entries -> AllPorts \cup {NoPort}]
    BY <1>3 DEF ProbeGrants, TypeOK, StateType, CmAssumption
  <2>3. UNCHANGED <<br, phase, made, disk, pg, at, on, down>>
    BY <1>3 DEF ProbeGrants
  <2> HIDE DEF held
  <2>4. CASE ~Fence(e)
    <3>1. GiveUp(e, held, e \in made) /\ UNCHANGED <<pstate, child, leader>>
      BY <1>3, <2>4 DEF ProbeGrants, held
    <3>2. StateType' /\ Notify(br[e])
      BY <3>1, <2>1, <2>2, <2>3, <1>0, GiveUpType DEF TypeOK, StateType
    <3> QED BY <3>2, NotifyType
  <2>5. CASE Fence(e) /\ pc[e] # "http"
    <3>1. pc' \in [Entries -> PCs]
      <4>1. pc' = [pc EXCEPT ![e] = IF @ = "port" THEN "mkdir" ELSE "http"]
        BY <1>3, <2>5 DEF ProbeGrants
      <4>2. "mkdir" \in PCs /\ "http" \in PCs
        BY DEF PCs, Starting
      <4> QED BY <4>1, <4>2 DEF TypeOK, StateType
    <3>2. ports' \in [Entries -> [Kinds -> AllPorts \cup {NoPort}]]
      BY <1>3, <2>5, <2>1 DEF ProbeGrants, TypeOK, StateType, held
    <3> QED BY <1>3, <2>5, <2>2, <2>3, <3>1, <3>2 DEF ProbeGrants, TypeOK, StateType
  <2>6. CASE Fence(e) /\ pc[e] = "http"
    <3>1. Launch(e) /\ UNCHANGED <<slot, reserved>>
      BY <1>3, <2>6 DEF ProbeGrants
    <3>2. ports' \in [Entries -> [Kinds -> AllPorts \cup {NoPort}]]
      BY <1>3, <2>6, <2>1 DEF ProbeGrants, TypeOK, StateType, held
    <3>3. /\ pc' \in [Entries -> PCs] /\ child' \in [Entries -> BOOLEAN]
          /\ pstate' \in [Entries -> {"none", "starting", "running", "failed", "stopped"}]
          /\ leader' \in [Entries -> {"none", "alive", "gone"}]
      BY <3>1 DEF Launch, TypeOK, StateType, PCs, Starting
    <3>4. StateType' /\ Notify(br[e])
      BY <2>2, <2>3, <3>1, <3>2, <3>3 DEF Launch, TypeOK, StateType
    <3> QED BY <3>4, NotifyType
  <2> QED BY <2>4, <2>5, <2>6
<1>4. CASE Exhausted(e)
  <2>1. GiveUp(e, ports[e], e \in made)
    BY <1>4 DEF Exhausted
  <2>2. StateType' /\ Notify(br[e])
    BY <1>4, <2>1, <1>0, GiveUpType DEF Exhausted, TypeOK, StateType
  <2> QED BY <2>2, NotifyType
<1>5. CASE MakeDir(e)
  <2>1. CASE Fence(e)
    <3>1. pc' = [pc EXCEPT ![e] = "config"] /\ "config" \in PCs
      BY <1>5, <2>1 DEF MakeDir, PCs, Starting
    <3> QED BY <1>5, <2>1, <3>1 DEF MakeDir, TypeOK, StateType
  <2>2. CASE ~Fence(e)
    <3>1. GiveUp(e, ports[e], TRUE)
      BY <1>5, <2>2 DEF MakeDir
    <3>2. StateType' /\ Notify(br[e])
      BY <1>5, <3>1, <1>0, GiveUpType DEF MakeDir, TypeOK, StateType
    <3> QED BY <3>2, NotifyType
  <2> QED BY <2>1, <2>2
<1>6. CASE MakeDirFails(e)
  <2>1. StateType' /\ Notify(br[e])
    BY <1>6, <1>0, GiveUpType DEF MakeDirFails, TypeOK, StateType
  <2> QED BY <2>1, NotifyType
<1>7. CASE WriteConfig(e)
  BY <1>7 DEF WriteConfig, TypeOK, StateType, PCs, Starting
<1>8. CASE WriteConfigFails(e)
  <2>1. StateType' /\ Notify(br[e])
    BY <1>8, <1>0, GiveUpType DEF WriteConfigFails, TypeOK, StateType
  <2> QED BY <2>1, NotifyType
<1> QED BY <1>1, <1>2, <1>3, <1>4, <1>5, <1>6, <1>7, <1>8

LEMMA ReleaseType ==
  ASSUME TypeOK, NEW e, Release(e)
  PROVE  /\ reserved' \subseteq AllPorts
         /\ ports' \in [Entries -> [Kinds -> AllPorts \cup {NoPort}]]
<1>1. NoPorts \in [Kinds -> AllPorts \cup {NoPort}]
  BY DEF NoPorts
<1> QED BY <1>1 DEF Release, TypeOK, StateType

LEMMA ProcessType ==
  ASSUME TypeOK, NEW e \in Entries
  PROVE  /\ StopProc(e) => /\ pc' \in [Entries -> PCs]
                           /\ pstate' \in [Entries -> {"none", "starting", "running", "failed", "stopped"}]
                           /\ child' \in [Entries -> BOOLEAN]
         /\ KillGroup(e) \/ ReapDir(e)
              => /\ leader' \in [Entries -> {"none", "alive", "gone"}]
                 /\ pg' \in [Entries -> {"none", "alive", "gone"}]
         /\ Exited(e) => /\ pstate' \in [Entries -> {"none", "starting", "running", "failed", "stopped"}]
                         /\ child' \in [Entries -> BOOLEAN]
                         /\ NotifyState(e)
<1>1. "killing" \in PCs /\ "caught" \in PCs
  BY DEF PCs, Starting
<1>2. ASSUME StopProc(e)
      PROVE  /\ pc' \in [Entries -> PCs]
             /\ pstate' \in [Entries -> {"none", "starting", "running", "failed", "stopped"}]
             /\ child' \in [Entries -> BOOLEAN]
  BY <1>1, <1>2 DEF StopProc, TypeOK, StateType
<1>3. ASSUME KillGroup(e) \/ ReapDir(e)
      PROVE  /\ leader' \in [Entries -> {"none", "alive", "gone"}]
             /\ pg' \in [Entries -> {"none", "alive", "gone"}]
  <2>1. pg' = [pg EXCEPT ![e] = IF pg[e] = "alive" THEN "gone" ELSE pg[e]]
    BY <1>3 DEF KillGroup, ReapDir, TypeOK, StateType
  <2>2. leader' \in {[leader EXCEPT ![e] = "gone"], leader}
    <3>1. CASE KillGroup(e)
      BY <3>1 DEF KillGroup
    <3>2. CASE ReapDir(e)
      BY <3>2 DEF ReapDir, TypeOK, StateType
    <3> QED BY <1>3, <3>1, <3>2
  <2> QED BY <2>1, <2>2 DEF TypeOK, StateType
<1>4. ASSUME Exited(e)
      PROVE  /\ pstate' \in [Entries -> {"none", "starting", "running", "failed", "stopped"}]
             /\ child' \in [Entries -> BOOLEAN]
             /\ NotifyState(e)
  <2>1. CASE child[e] /\ pstate[e] = "running"
    BY <1>4, <2>1 DEF Exited, TypeOK, StateType
  <2>2. CASE ~(child[e] /\ pstate[e] = "running")
    BY <1>4, <2>2 DEF Exited, TypeOK, StateType
  <2> QED BY <2>1, <2>2
<1> QED BY <1>2, <1>3, <1>4

LEMMA RunType ==
  ASSUME TypeOK, NEW e \in Entries,
         \/ Needle(e) \/ NotReady(e) \/ Ready(e) \/ ReadyFails(e)
         \/ Killed(e) \/ Caught(e) \/ Reap(e) \/ Remove(e)
  PROVE  TypeOK'
<1> USE DEF entryVars, procVars, stopVars
<1>0. /\ {"waitReady", "caught", "running", "failed", "remove"} \subseteq PCs
      /\ ports[e] \in [Kinds -> AllPorts \cup {NoPort}]
  BY DEF PCs, Starting, TypeOK, StateType
<1>1. CASE Needle(e)
  <2>1. StateType' /\ NotifyState(e)
    BY <1>0, <1>1 DEF Needle, TypeOK, StateType
  <2> QED BY <2>1, NotifyStateType
<1>2. CASE NotReady(e)
  <2>1. /\ leader' \in [Entries -> {"none", "alive", "gone"}]
        /\ pg' \in [Entries -> {"none", "alive", "gone"}]
    BY <1>2, ProcessType DEF NotReady, TypeOK, StateType
  <2>2. StateType' /\ NotifyState(e)
    BY <1>0, <1>2, <2>1 DEF NotReady, TypeOK, StateType
  <2> QED BY <2>2, NotifyStateType
<1>3. CASE Ready(e)
  <2>1. CASE Fence(e)
    <3>1. /\ pc' = [pc EXCEPT ![e] = "running"]
          /\ phase' = [phase EXCEPT ![e] = "running"]
          /\ UNCHANGED <<pstate, child>> /\ Notify(br[e])
      BY <1>3, <2>1 DEF Ready
    <3>2. /\ pc' \in [Entries -> PCs]
          /\ phase' \in [Entries -> {"starting", "running", "stopping"}]
      BY <1>0, <3>1 DEF TypeOK, StateType
    <3>3. StateType' /\ Notify(br[e])
      BY <1>3, <3>1, <3>2 DEF Ready, TypeOK, StateType
    <3> QED BY <3>3, NotifyType
  <2>2. CASE ~Fence(e)
    <3>1. StopProc(e)
      BY <1>3, <2>2 DEF Ready
    <3>2. StateType' /\ NotifyState(e)
      BY <1>3, <2>2, <3>1, ProcessType DEF Ready, TypeOK, StateType
    <3> QED BY <3>2, NotifyStateType
  <2> QED BY <2>1, <2>2
<1>4. CASE ReadyFails(e)
  <2>1. StateType' /\ NotifyState(e)
    BY <1>4, ProcessType DEF ReadyFails, TypeOK, StateType
  <2> QED BY <2>1, NotifyStateType
<1>5. CASE Killed(e)
  BY <1>0, <1>5, ProcessType DEF Killed, TypeOK, StateType
<1>6. CASE Caught(e)
  <2>1. CASE slot[br[e]] # e \/ phase[e] = "stopping"
    BY <1>0, <1>6, <2>1 DEF Caught, TypeOK, StateType
  <2>2. CASE ~(slot[br[e]] # e \/ phase[e] = "stopping")
    <3>1. GiveUp(e, ports[e], TRUE)
      BY <1>6, <2>2 DEF Caught
    <3>2. StateType' /\ Notify(br[e])
      BY <1>0, <1>6, <3>1, GiveUpType DEF Caught, TypeOK, StateType
    <3> QED BY <3>2, NotifyType
  <2> QED BY <2>1, <2>2
<1>7. CASE Reap(e)
  <2>1. StateType' /\ NotifyState(e)
    BY <1>0, <1>7, ProcessType DEF Reap, TypeOK, StateType
  <2> QED BY <2>1, NotifyStateType
<1>8. CASE Remove(e)
  <2>1. Release(e) /\ disk' \subseteq Entries
    BY <1>8 DEF Remove, RmDir, TypeOK, StateType
  <2> QED BY <1>0, <1>8, <2>1, ReleaseType DEF Remove, TypeOK, StateType
<1> QED BY <1>1, <1>2, <1>3, <1>4, <1>5, <1>6, <1>7, <1>8

LEMMA BeginStopType ==
  ASSUME TypeOK, NEW a \in Stoppers, NEW B \in SUBSET Branches,
         BeginStop(a, B), down' \in BOOLEAN
  PROVE  TypeOK'
<1> DEFINE taken == {slot[b] : b \in B} \ {NoEntry}
           freed == {e \in taken : ~child[e] /\ e \notin made}
<1>1. /\ phase' \in [Entries -> {"starting", "running", "stopping"}]
      /\ pstate' \in [Entries -> {"none", "starting", "running", "failed", "stopped"}]
      /\ child' \in [Entries -> BOOLEAN]
  BY DEF BeginStop, TypeOK, StateType
<1>2. /\ slot' \in [Branches -> Entries \cup {NoEntry}]
      /\ seen' \in [Branches -> Statuses]
  BY DEF BeginStop, TypeOK, StateType, Statuses
<1>3. reserved' \subseteq AllPorts
  BY DEF BeginStop, TypeOK, StateType
<1>4. ports' \in [Entries -> [Kinds -> AllPorts \cup {NoPort}]]
  <2>1. NoPorts \in [Kinds -> AllPorts \cup {NoPort}]
    BY DEF NoPorts
  <2> QED BY <2>1 DEF BeginStop, TypeOK, StateType
<1>5. at' \in [Stoppers -> [Branches -> {"idle", "killing", "reap", "remove"}]]
  BY DEF BeginStop, TypeOK, StateType
<1>6. on' \in [Stoppers -> [Branches -> Entries \cup {NoEntry}]]
  BY DEF BeginStop, TypeOK, StateType
<1> QED BY <1>1, <1>2, <1>3, <1>4, <1>5, <1>6 DEF BeginStop, TypeOK, StateType

LEMMA ResumeStopType ==
  ASSUME TypeOK, Stages, NEW a \in Stoppers, NEW b \in Branches, ResumeStop(a, b)
  PROVE  TypeOK'
<1> DEFINE e == on[a][b]
<1> USE DEF entryVars, procVars
<1>0. e \in Entries
  BY DEF ResumeStop, StopKilled, StopReap, StopRemove, Stages, TypeOK, StateType
<1>1. ASSUME NEW s \in {"idle", "reap", "remove"}, at' = [at EXCEPT ![a][b] = s]
      PROVE  at' \in [Stoppers -> [Branches -> {"idle", "killing", "reap", "remove"}]]
  BY <1>1 DEF TypeOK, StateType
<1>2. CASE StopKilled(a, b)
  <2>1. KillGroup(e) /\ slot' \in [Branches -> Entries \cup {NoEntry}]
    BY <1>2 DEF StopKilled, TypeOK, StateType
  <2> HIDE DEF e
  <2> QED BY <1>0, <1>1, <1>2, <2>1, ProcessType DEF StopKilled, TypeOK, StateType
<1>3. CASE StopReap(a, b)
  <2>1. ReapDir(e) /\ Exited(e)
    BY <1>3 DEF StopReap
  <2> HIDE DEF e
  <2>2. StateType' /\ NotifyState(e)
    BY <1>0, <1>1, <1>3, <2>1, ProcessType DEF StopReap, TypeOK, StateType
  <2> QED BY <1>0, <2>2, NotifyStateType
<1>4. CASE StopRemove(a, b)
  <2>1. Release(e) /\ disk' \subseteq Entries
    BY <1>4 DEF StopRemove, RmDir, TypeOK, StateType
  <2>2. on' \in [Stoppers -> [Branches -> Entries \cup {NoEntry}]]
    BY <1>4 DEF StopRemove, TypeOK, StateType
  <2> HIDE DEF e
  <2>3. StateType' /\ Notify(b)
    BY <1>0, <1>1, <1>4, <2>1, <2>2, ReleaseType DEF StopRemove, TypeOK, StateType
  <2> QED BY <2>3, NotifyType
<1> QED BY <1>2, <1>3, <1>4 DEF ResumeStop

LEMMA OtherType ==
  ASSUME CmAssumption, TypeOK, NEW e \in Entries,
         \/ \E b \in Branches : Start(e, b)
         \/ SpawnPostgres(e) \/ PostgresExits(e) \/ LeaderExits(e) \/ Forget(e)
  PROVE  TypeOK'
<1> USE DEF entryVars, procVars, stopVars
<1>1. ASSUME NEW b \in Branches, Start(e, b)
      PROVE  TypeOK'
  <2>1. "port" \in PCs
    BY DEF PCs, Starting
  <2>2. StateType' /\ Notify(b)
    BY <1>1, <2>1 DEF Start, TypeOK, StateType
  <2> QED BY <2>2, NotifyType
<1>2. CASE SpawnPostgres(e)
  BY <1>2 DEF SpawnPostgres, TypeOK, StateType
<1>3. CASE PostgresExits(e)
  BY <1>3 DEF PostgresExits, TypeOK, StateType
<1>4. CASE LeaderExits(e)
  <2>1. StateType' /\ NotifyState(e)
    BY <1>4, ProcessType DEF LeaderExits, TypeOK, StateType
  <2> QED BY <2>1, NotifyStateType
<1>5. CASE Forget(e)
  <2>1. "new" \in PCs /\ tries' \in [Entries -> 0..MaxTries]
    BY <1>5 DEF PCs, Forget, TypeOK, StateType, CmAssumption
  <2> QED BY <1>5, <2>1 DEF Forget, TypeOK, StateType
<1> QED BY <1>1, <1>2, <1>3, <1>4, <1>5

LEMMA NextType ==
  ASSUME CmAssumption, TypeOK, Stages, Next PROVE TypeOK'
<1>1. ASSUME NEW e \in Entries, Resume(e)
      PROVE  TypeOK'
  BY <1>1, SetupType, RunType DEF Resume
<1>2. ASSUME NEW b \in Branches, Stop(b)
      PROVE  TypeOK'
  <2>1. {b} \in SUBSET Branches /\ "lane" \in Stoppers /\ down' \in BOOLEAN
    BY <1>2 DEF Stop, Stoppers, TypeOK, StateType
  <2> QED BY <1>2, <2>1, BeginStopType DEF Stop
<1>3. CASE StopAll
  BY <1>3, BeginStopType DEF StopAll, Stoppers
<1> QED BY <1>1, <1>2, <1>3, OtherType, ResumeStopType DEF Next

-----------------------------------------------------------------------------
(* Ports.  Four ways to change claims; every action is one of them.          *)

LEMMA SamePorts ==
  ASSUME PortsExclusive, UNCHANGED <<reserved, ports, cand>>
  PROVE  PortsExclusive'
BY DEF PortsExclusive, PortsDisjoint, ReservedExact, Claimed, Held

\* A free port becomes the candidate of an entry that has none.
LEMMA ClaimPort ==
  ASSUME CmAssumption, TypeOK, PortsExclusive, NEW e \in Entries, NEW p \in AllPorts,
         p \notin reserved, cand[e] = NoPort, UNCHANGED ports,
         reserved' = reserved \cup {p}, cand' = [cand EXCEPT ![e] = p]
  PROVE  PortsExclusive'
<1>1. p # NoPort
  BY DEF CmAssumption, AllPorts
<1>2. \A f \in Entries : Held(f)' = Held(f)
  BY DEF Held
<1>3. Claimed(e)' = Claimed(e) \cup {p}
  BY <1>1, <1>2 DEF Claimed, TypeOK, StateType
<1>4. \A f \in Entries : f # e => Claimed(f)' = Claimed(f)
  BY <1>2 DEF Claimed, TypeOK, StateType
<1>5. \A f \in Entries : p \notin Claimed(f)
  BY DEF PortsExclusive, ReservedExact
<1>6. p \notin Held(e)'
  BY <1>2, <1>5 DEF Claimed
<1>7. ReservedExact'
  <2>1. reserved = UNION {Claimed(f) : f \in Entries}
    BY DEF PortsExclusive, ReservedExact
  <2>2. \A q : q \in reserved' <=> \E f \in Entries : q \in Claimed(f)'
    BY <2>1, <1>3, <1>4
  <2> QED BY <2>2 DEF ReservedExact
<1>8. PortsDisjoint'
  <2>1. \A f, g \in Entries : f # g => Claimed(f)' \cap Claimed(g)' = {}
    BY <1>3, <1>4, <1>5 DEF PortsExclusive, PortsDisjoint
  <2>2. \A f \in Entries : cand'[f] # NoPort => cand'[f] \notin Held(f)'
    BY <1>2, <1>6 DEF PortsExclusive, PortsDisjoint, TypeOK, StateType
  <2> QED BY <2>1, <2>2 DEF PortsExclusive, PortsDisjoint
<1> QED BY <1>7, <1>8 DEF PortsExclusive

\* An entry gives its candidate back.
LEMMA UnclaimPort ==
  ASSUME TypeOK, PortsExclusive, NEW e \in Entries,
         cand[e] # NoPort, UNCHANGED ports,
         reserved' = reserved \ {cand[e]}, cand' = [cand EXCEPT ![e] = NoPort]
  PROVE  PortsExclusive'
<1>1. \A f \in Entries : Held(f)' = Held(f)
  BY DEF Held
<1>2. Claimed(e)' = Claimed(e) \ {cand[e]}
  BY <1>1 DEF Claimed, TypeOK, StateType, PortsExclusive, PortsDisjoint
<1>3. \A f \in Entries : f # e => Claimed(f)' = Claimed(f)
  BY <1>1 DEF Claimed, TypeOK, StateType
<1>4. \A f \in Entries : f # e => cand[e] \notin Claimed(f)
  BY DEF PortsExclusive, PortsDisjoint, Claimed
<1>5. ReservedExact'
  <2>1. reserved = UNION {Claimed(f) : f \in Entries}
    BY DEF PortsExclusive, ReservedExact
  <2>2. \A q : q \in reserved' <=> \E f \in Entries : q \in Claimed(f)'
    BY <2>1, <1>2, <1>3, <1>4
  <2> QED BY <2>2 DEF ReservedExact
<1>6. PortsDisjoint'
  <2>1. \A f, g \in Entries : f # g => Claimed(f)' \cap Claimed(g)' = {}
    BY <1>2, <1>3 DEF PortsExclusive, PortsDisjoint
  <2>2. \A f \in Entries : cand'[f] # NoPort => cand'[f] \notin Held(f)'
    BY <1>1 DEF PortsExclusive, PortsDisjoint, TypeOK, StateType
  <2> QED BY <2>1, <2>2 DEF PortsExclusive, PortsDisjoint
<1> QED BY <1>5, <1>6 DEF PortsExclusive

\* A granted candidate moves to an empty field of its entry.
LEMMA RecordPort ==
  ASSUME TypeOK, PortsExclusive, NEW e \in Entries, NEW k \in Kinds,
         cand[e] # NoPort, ports[e][k] = NoPort, UNCHANGED reserved,
         ports' = [ports EXCEPT ![e] = [ports[e] EXCEPT ![k] = cand[e]]],
         cand' = [cand EXCEPT ![e] = NoPort]
  PROVE  PortsExclusive'
<1>1. \A l \in Kinds : ports'[e][l] = IF l = k THEN cand[e] ELSE ports[e][l]
  BY DEF TypeOK, StateType
<1>2. Held(e)' = Held(e) \cup {cand[e]}
  BY <1>1 DEF Held
<1>3. Claimed(e)' = Claimed(e)
  BY <1>2 DEF Claimed, TypeOK, StateType
<1>4. \A f \in Entries : f # e => Claimed(f)' = Claimed(f) /\ Held(f)' = Held(f)
  BY DEF Claimed, Held, TypeOK, StateType
<1>5. \A f \in Entries : Claimed(f)' = Claimed(f)
  BY <1>3, <1>4
<1>6. ReservedExact'
  BY <1>5 DEF PortsExclusive, ReservedExact
<1>7. PortsDisjoint'
  <2>1. \A f, g \in Entries : f # g => Claimed(f)' \cap Claimed(g)' = {}
    BY <1>5 DEF PortsExclusive, PortsDisjoint
  <2>2. \A f \in Entries : cand'[f] # NoPort => cand'[f] \notin Held(f)'
    BY <1>4 DEF PortsExclusive, PortsDisjoint, TypeOK, StateType
  <2>3. \A l, m \in Kinds : l # m /\ ports'[e][l] # NoPort => ports'[e][l] # ports'[e][m]
    <3>1. \A l \in Kinds : ports[e][l] # cand[e]
      BY DEF PortsExclusive, PortsDisjoint, Held
    <3> QED BY <1>1, <3>1 DEF PortsExclusive, PortsDisjoint
  <2>4. \A f \in Entries : f # e => ports'[f] = ports[f]
    BY DEF TypeOK, StateType
  <2> QED BY <2>1, <2>2, <2>3, <2>4 DEF PortsExclusive, PortsDisjoint
<1> QED BY <1>6, <1>7 DEF PortsExclusive

\* Any set of entries releases all three ports; candidates stay.
LEMMA ReleasePorts ==
  ASSUME TypeOK, PortsExclusive, NEW F \in SUBSET Entries, UNCHANGED cand,
         ports' = [e \in Entries |-> IF e \in F THEN NoPorts ELSE ports[e]],
         reserved' = reserved \ UNION {Held(e) : e \in F}
  PROVE  PortsExclusive'
<1>1. \A e \in F : Held(e)' = {}
  BY DEF Held, NoPorts
<1>2. \A e \in Entries \ F : Held(e)' = Held(e)
  BY DEF Held
<1>3. \A e \in F : Claimed(e)' = Claimed(e) \ Held(e)
  BY <1>1 DEF Claimed, PortsExclusive, PortsDisjoint
<1>4. \A e \in Entries \ F : Claimed(e)' = Claimed(e)
  BY <1>2 DEF Claimed
<1>5. \A e, f \in Entries : e # f => Held(e) \cap Claimed(f) = {}
  BY DEF PortsExclusive, PortsDisjoint, Claimed
<1>6. ReservedExact'
  <2>1. reserved = UNION {Claimed(f) : f \in Entries}
    BY DEF PortsExclusive, ReservedExact
  <2>2. ASSUME NEW q, q \in reserved'
        PROVE  \E f \in Entries : q \in Claimed(f)'
    BY <2>1, <2>2, <1>3, <1>4
  <2>3. ASSUME NEW q, NEW f \in Entries, q \in Claimed(f)'
        PROVE  q \in reserved'
    <3>1. q \in Claimed(f) /\ (f \in F => q \notin Held(f))
      BY <2>3, <1>3, <1>4
    <3>2. \A e \in F : q \notin Held(e)
      BY <3>1, <1>5
    <3> QED BY <2>1, <3>1, <3>2
  <2> QED BY <2>2, <2>3 DEF ReservedExact
<1>7. PortsDisjoint'
  <2>1. \A f, g \in Entries : f # g => Claimed(f)' \cap Claimed(g)' = {}
    BY <1>3, <1>4 DEF PortsExclusive, PortsDisjoint
  <2>2. \A f \in Entries : cand'[f] # NoPort => cand'[f] \notin Held(f)'
    BY <1>1, <1>2 DEF PortsExclusive, PortsDisjoint
  <2>3. \A f \in Entries : \A l, m \in Kinds :
          l # m /\ ports'[f][l] # NoPort => ports'[f][l] # ports'[f][m]
    BY DEF PortsExclusive, PortsDisjoint, NoPorts
  <2> QED BY <2>1, <2>2, <2>3 DEF PortsExclusive, PortsDisjoint
<1> QED BY <1>6, <1>7 DEF PortsExclusive

\* A whole entry lets go: its ports and the candidate it was granted.
LEMMA DropEntry ==
  ASSUME CmAssumption, TypeOK, PortsExclusive, NEW e \in Entries, NEW k \in Kinds,
         ports[e][k] = NoPort, cand[e] # NoPort,
         ports' = [ports EXCEPT ![e] = NoPorts],
         cand' = [cand EXCEPT ![e] = NoPort],
         reserved' = reserved \ {[ports[e] EXCEPT ![k] = cand[e]][l] : l \in Kinds}
  PROVE  PortsExclusive'
<1>1. NoPort \notin reserved
  BY DEF CmAssumption, TypeOK, StateType, AllPorts
<1>2. reserved' = reserved \ Claimed(e)
  BY <1>1 DEF Claimed, Held, TypeOK, StateType
<1>3. Claimed(e)' = {} /\ Held(e)' = {}
  BY DEF Claimed, Held, NoPorts, TypeOK, StateType
<1>4. \A f \in Entries : f # e => Claimed(f)' = Claimed(f) /\ Held(f)' = Held(f)
  BY DEF Claimed, Held, TypeOK, StateType
<1>5. ReservedExact'
  <2>1. reserved = UNION {Claimed(f) : f \in Entries}
    BY DEF PortsExclusive, ReservedExact
  <2>2. \A f \in Entries : f # e => Claimed(f) \cap Claimed(e) = {}
    BY DEF PortsExclusive, PortsDisjoint
  <2>3. \A q : q \in reserved' <=> \E f \in Entries : q \in Claimed(f)'
    BY <2>1, <2>2, <1>2, <1>3, <1>4
  <2> QED BY <2>3 DEF ReservedExact
<1>6. PortsDisjoint'
  <2>1. \A f, g \in Entries : f # g => Claimed(f)' \cap Claimed(g)' = {}
    BY <1>3, <1>4 DEF PortsExclusive, PortsDisjoint
  <2>2. \A f \in Entries : cand'[f] # NoPort => cand'[f] \notin Held(f)'
    BY <1>3, <1>4 DEF PortsExclusive, PortsDisjoint, TypeOK, StateType
  <2>3. \A f \in Entries : \A l, m \in Kinds :
          l # m /\ ports'[f][l] # NoPort => ports'[f][l] # ports'[f][m]
    BY DEF PortsExclusive, PortsDisjoint, NoPorts, TypeOK, StateType
  <2> QED BY <2>1, <2>2, <2>3 DEF PortsExclusive, PortsDisjoint
<1> QED BY <1>5, <1>6 DEF PortsExclusive

\* start()'s catch without a candidate in hand keeps or releases what it holds.
LEMMA GiveUpPorts ==
  ASSUME CmAssumption, TypeOK, PortsExclusive, NEW e \in Entries, NEW hasDir,
         GiveUp(e, ports[e], hasDir), UNCHANGED cand
  PROVE  PortsExclusive'
<1>1. CASE hasDir
  BY <1>1, SamePorts DEF GiveUp, TypeOK, StateType
<1>2. CASE ~hasDir
  <2>0. NoPort \notin reserved
    BY DEF CmAssumption, TypeOK, StateType, AllPorts
  <2>1. reserved' = reserved \ Held(e)
    BY <1>2, <2>0 DEF GiveUp, Held
  <2>2. ports' = [f \in Entries |-> IF f \in {e} THEN NoPorts ELSE ports[f]]
    BY <1>2 DEF GiveUp, TypeOK, StateType
  <2>3. Held(e) = UNION {Held(f) : f \in {e}}
    OBVIOUS
  <2> QED BY <2>1, <2>2, <2>3, ReleasePorts
<1> QED BY <1>1, <1>2

LEMMA ReleaseOne ==
  ASSUME TypeOK, PortsExclusive, NEW e \in Entries, Release(e), UNCHANGED cand
  PROVE  PortsExclusive'
<1>1. ports' = [f \in Entries |-> IF f \in {e} THEN NoPorts ELSE ports[f]]
  BY DEF Release, TypeOK, StateType
<1>2. reserved' = reserved \ UNION {Held(f) : f \in {e}}
  BY DEF Release
<1> QED BY <1>1, <1>2, ReleasePorts

LEMMA ResumePorts ==
  ASSUME CmAssumption, PortsInv, NEW e \in Entries, Resume(e)
  PROVE  PortsExclusive'
<1> USE DEF entryVars, procVars, stopVars
<1>0. TypeOK /\ Stages /\ PortsExclusive
  BY DEF PortsInv
<1>1. ASSUME NEW p \in AllPorts, Draw(e, p)
      PROVE  PortsExclusive'
  <2>1. CASE p \in reserved
    BY <1>0, <1>1, <2>1, SamePorts DEF Draw
  <2>2. CASE p \notin reserved
    BY <1>0, <1>1, <2>2, ClaimPort DEF Draw
  <2> QED BY <2>1, <2>2
<1>2. CASE ProbeDeclines(e)
  BY <1>0, <1>2, UnclaimPort DEF ProbeDeclines
<1>3. CASE ProbeGrants(e)
  <2> DEFINE held == [ports[e] EXCEPT ![pc[e]] = cand[e]]
  <2>1. pc[e] \in Kinds /\ ports[e][pc[e]] = NoPort /\ cand[e] # NoPort
    BY <1>0, <1>3 DEF ProbeGrants, Stages, StageOf, Kinds
  <2>2. cand' = [cand EXCEPT ![e] = NoPort]
    BY <1>3 DEF ProbeGrants
  <2>3. CASE UNCHANGED reserved /\ ports' = [ports EXCEPT ![e] = held]
    BY <1>0, <2>1, <2>2, <2>3, RecordPort
  <2>4. CASE /\ ports' = [ports EXCEPT ![e] = NoPorts]
             /\ reserved' = reserved \ {held[l] : l \in Kinds}
    BY <1>0, <2>1, <2>2, <2>4, DropEntry
  <2> QED BY <1>3, <2>3, <2>4 DEF ProbeGrants, GiveUp
<1>4. CASE Exhausted(e)
  BY <1>0, <1>4, GiveUpPorts DEF Exhausted
<1>5. CASE MakeDir(e)
  BY <1>0, <1>5, GiveUpPorts, SamePorts DEF MakeDir
<1>6. CASE MakeDirFails(e) \/ WriteConfigFails(e)
  BY <1>0, <1>6, GiveUpPorts DEF MakeDirFails, WriteConfigFails
<1>7. CASE Caught(e)
  BY <1>0, <1>7, GiveUpPorts, SamePorts DEF Caught
<1>8. CASE Remove(e)
  BY <1>0, <1>8, ReleaseOne DEF Remove
<1>9. CASE \/ WriteConfig(e) \/ Needle(e) \/ NotReady(e) \/ Ready(e) \/ ReadyFails(e)
           \/ Killed(e) \/ Reap(e)
  BY <1>0, <1>9, SamePorts
     DEF WriteConfig, Needle, NotReady, Ready, ReadyFails, Killed, Reap
<1> QED BY <1>1, <1>2, <1>3, <1>4, <1>5, <1>6, <1>7, <1>8, <1>9 DEF Resume

LEMMA BeginStopPorts ==
  ASSUME PortsInv, NEW a \in Stoppers, NEW B \in SUBSET Branches, BeginStop(a, B)
  PROVE  PortsExclusive'
<1> DEFINE taken == {slot[b] : b \in B} \ {NoEntry}
           freed == {e \in taken : ~child[e] /\ e \notin made}
<1>1. freed \in SUBSET Entries
  BY DEF PortsInv, TypeOK, StateType
<1>2. /\ ports' = [e \in Entries |-> IF e \in freed THEN NoPorts ELSE ports[e]]
      /\ reserved' = reserved \ UNION {Held(e) : e \in freed}
      /\ UNCHANGED cand
  BY DEF BeginStop
<1> HIDE DEF taken, freed
<1> QED BY <1>1, <1>2, ReleasePorts DEF PortsInv

LEMMA NextPorts ==
  ASSUME CmAssumption, PortsInv, Next PROVE PortsExclusive'
<1>0. TypeOK /\ Stages /\ PortsExclusive
  BY DEF PortsInv
<1>1. ASSUME NEW b \in Branches, Stop(b)
      PROVE  PortsExclusive'
  <2>1. {b} \in SUBSET Branches /\ "lane" \in Stoppers
    BY DEF Stoppers
  <2> QED BY <1>1, <2>1, BeginStopPorts DEF Stop
<1>2. CASE StopAll
  BY <1>2, BeginStopPorts DEF StopAll, Stoppers
<1>3. ASSUME NEW a \in Stoppers, NEW b \in Branches, ResumeStop(a, b)
      PROVE  PortsExclusive'
  <2>1. CASE StopKilled(a, b) \/ StopReap(a, b)
    BY <1>0, <2>1, SamePorts DEF StopKilled, StopReap, entryVars
  <2>2. CASE StopRemove(a, b)
    <3>1. on[a][b] \in Entries
      BY <1>0, <2>2 DEF StopRemove, Stages
    <3> QED BY <1>0, <2>2, <3>1, ReleaseOne DEF StopRemove
  <2> QED BY <1>3, <2>1, <2>2 DEF ResumeStop
<1>4. ASSUME NEW e \in Entries,
             \/ \E b \in Branches : Start(e, b)
             \/ SpawnPostgres(e) \/ PostgresExits(e) \/ LeaderExits(e) \/ Forget(e)
      PROVE  PortsExclusive'
  BY <1>0, <1>4, SamePorts
     DEF Start, SpawnPostgres, PostgresExits, LeaderExits, Forget, entryVars
<1> QED BY <1>1, <1>2, <1>3, <1>4, ResumePorts DEF Next

-----------------------------------------------------------------------------
(* Stages.                                                                   *)

LEMMA ResumeStages ==
  ASSUME CmAssumption, PortsInv, NEW e \in Entries, Resume(e)
  PROVE  Stages'
<1> USE DEF entryVars, procVars, stopVars
<1>0. TypeOK /\ Stages
  BY DEF PortsInv
<1>1. UNCHANGED <<at, on>>
  BY DEF Resume, Draw, ProbeDeclines, ProbeGrants, Exhausted, MakeDir, MakeDirFails,
         WriteConfig, WriteConfigFails, Needle, NotReady, Ready, ReadyFails, Killed,
         Caught, Reap, Remove
<1>2. \A f \in Entries : f # e => UNCHANGED <<pc[f], ports[f], cand[f]>>
  BY <1>0 DEF Resume, Draw, ProbeDeclines, ProbeGrants, Exhausted, MakeDir, MakeDirFails,
         WriteConfig, WriteConfigFails, Needle, NotReady, Ready, ReadyFails, Killed,
         Caught, Reap, Remove, GiveUp, Launch, StopProc, Release, TypeOK, StateType
<1>s. SUFFICES StageOf(pc'[e], cand'[e], ports'[e])
  BY <1>0, <1>1, <1>2 DEF Stages
<1>3. ASSUME NEW hasDir, NEW held, GiveUp(e, held, hasDir), cand'[e] = NoPort
      PROVE  StageOf(pc'[e], cand'[e], ports'[e])
  BY <1>0, <1>3 DEF GiveUp, StageOf, Kinds, TypeOK, StateType
<1>4. ASSUME NEW p \in AllPorts, Draw(e, p)
      PROVE  StageOf(pc'[e], cand'[e], ports'[e])
  BY <1>0, <1>4 DEF Draw, Stages, StageOf, TypeOK, StateType
<1>5. CASE ProbeDeclines(e)
  BY <1>0, <1>5 DEF ProbeDeclines, Stages, StageOf, TypeOK, StateType
<1>6. CASE ProbeGrants(e)
  <2> DEFINE held == [ports[e] EXCEPT ![pc[e]] = cand[e]]
  <2>1. cand'[e] = NoPort /\ pc[e] \in Kinds
    BY <1>0, <1>6 DEF ProbeGrants, Stages, StageOf, TypeOK, StateType
  <2>2. CASE Fence(e) /\ pc[e] # "http"
    <3>1. ports'[e] = held /\ pc'[e] = IF pc[e] = "port" THEN "mkdir" ELSE "http"
      BY <1>0, <1>6, <2>2 DEF ProbeGrants, TypeOK, StateType
    <3>2. pc[e] \in {"port", "metrics"}
      BY <2>1, <2>2 DEF Kinds
    <3> QED BY <1>0, <2>1, <3>1, <3>2 DEF Stages, StageOf, Kinds, TypeOK, StateType
  <2>3. CASE Fence(e) /\ pc[e] = "http"
    <3>1. pc'[e] \in {"needle", "caught"}
      BY <1>0, <1>6, <2>3 DEF ProbeGrants, Launch, TypeOK, StateType
    <3> QED BY <2>1, <3>1 DEF StageOf
  <2>4. CASE ~Fence(e)
    <3>1. GiveUp(e, held, e \in made)
      BY <1>6, <2>4 DEF ProbeGrants
    <3> QED BY <1>3, <2>1, <3>1
  <2> QED BY <2>2, <2>3, <2>4
<1>7. CASE Exhausted(e) \/ MakeDirFails(e) \/ WriteConfigFails(e)
  <2>1. cand'[e] = NoPort
    BY <1>0, <1>7 DEF Exhausted, MakeDirFails, WriteConfigFails, Stages, StageOf, Kinds
  <2> QED BY <1>3, <1>7, <2>1 DEF Exhausted, MakeDirFails, WriteConfigFails
<1>8. CASE MakeDir(e)
  <2>1. cand'[e] = NoPort
    BY <1>0, <1>8 DEF MakeDir, Stages, StageOf, Kinds
  <2>2. CASE Fence(e)
    BY <1>0, <1>8, <2>1, <2>2 DEF MakeDir, Stages, StageOf, TypeOK, StateType
  <2> QED BY <1>3, <1>8, <2>1, <2>2 DEF MakeDir
<1>9. CASE WriteConfig(e)
  BY <1>0, <1>9 DEF WriteConfig, Stages, StageOf, Kinds, TypeOK, StateType
<1>10. CASE \/ Needle(e) \/ NotReady(e) \/ Ready(e) \/ ReadyFails(e)
            \/ Killed(e) \/ Caught(e) \/ Reap(e) \/ Remove(e)
  <2>1. cand'[e] = NoPort
    BY <1>0, <1>10 DEF Needle, NotReady, Ready, ReadyFails, Killed, Caught, Reap, Remove,
                       Stages, StageOf, Kinds
  <2>2. pc'[e] \in {"waitReady", "killing", "caught", "running", "reap", "remove", "failed"}
    BY <1>0, <1>10 DEF Needle, NotReady, Ready, ReadyFails, Killed, Caught, Reap, Remove,
                       StopProc, GiveUp, TypeOK, StateType
  <2> QED BY <2>1, <2>2 DEF StageOf
<1> QED BY <1>4, <1>5, <1>6, <1>7, <1>8, <1>9, <1>10 DEF Resume

LEMMA BeginStopStages ==
  ASSUME PortsInv, NEW a \in Stoppers, NEW B \in SUBSET Branches, BeginStop(a, B)
  PROVE  Stages'
<1>0. TypeOK /\ Stages
  BY DEF PortsInv
<1>1. ASSUME NEW e \in Entries
      PROVE  StageOf(pc'[e], cand'[e], ports'[e])
  <2>1. UNCHANGED <<pc, cand>> /\ ports'[e] \in {ports[e], NoPorts}
    BY DEF BeginStop
  <2> QED BY <1>0, <2>1 DEF Stages, StageOf, NoPorts, Kinds
<1>2. ASSUME NEW c \in Stoppers, NEW b \in Branches, at'[c][b] # "idle"
      PROVE  on'[c][b] \in Entries
  <2>1. CASE c = a /\ b \in B /\ slot[b] # NoEntry
    <3>1. slot[b] \in Entries
      BY <1>0, <2>1 DEF TypeOK, StateType
    <3> QED BY <1>0, <1>2, <2>1, <3>1 DEF BeginStop, TypeOK, StateType
  <2>2. CASE ~(c = a /\ b \in B /\ slot[b] # NoEntry)
    <3>1. at'[c][b] = at[c][b] /\ on'[c][b] = on[c][b]
      BY <1>0, <2>2 DEF BeginStop, TypeOK, StateType
    <3> QED BY <1>0, <1>2, <3>1 DEF Stages
  <2> QED BY <2>1, <2>2
<1> QED BY <1>1, <1>2 DEF Stages

LEMMA NextStages ==
  ASSUME CmAssumption, PortsInv, Next PROVE Stages'
<1>0. TypeOK /\ Stages
  BY DEF PortsInv
<1>1. ASSUME NEW b \in Branches, Stop(b)
      PROVE  Stages'
  <2>1. {b} \in SUBSET Branches /\ "lane" \in Stoppers
    BY DEF Stoppers
  <2> QED BY <1>1, <2>1, BeginStopStages DEF Stop
<1>2. CASE StopAll
  BY <1>2, BeginStopStages DEF StopAll, Stoppers
<1>3. ASSUME NEW a \in Stoppers, NEW b \in Branches, ResumeStop(a, b)
      PROVE  Stages'
  <2>1. \A e \in Entries : UNCHANGED <<pc, cand>> /\ ports'[e] \in {ports[e], NoPorts}
    BY <1>0, <1>3 DEF ResumeStop, StopKilled, StopReap, StopRemove, Release, entryVars,
                      TypeOK, StateType
  <2>2. \A e \in Entries : StageOf(pc'[e], cand'[e], ports'[e])
    BY <1>0, <2>1 DEF Stages, StageOf, NoPorts, Kinds
  <2>3. \A c \in Stoppers, d \in Branches : at'[c][d] # "idle" => on'[c][d] \in Entries
    <3>1. CASE StopKilled(a, b) \/ StopReap(a, b)
      BY <1>0, <3>1 DEF StopKilled, StopReap, Stages, TypeOK, StateType
    <3>2. CASE StopRemove(a, b)
      BY <1>0, <3>2 DEF StopRemove, Stages, TypeOK, StateType
    <3> QED BY <1>3, <3>1, <3>2 DEF ResumeStop
  <2> QED BY <2>2, <2>3 DEF Stages
<1>4. ASSUME NEW e \in Entries,
             \/ \E b \in Branches : Start(e, b)
             \/ SpawnPostgres(e) \/ PostgresExits(e) \/ LeaderExits(e)
      PROVE  Stages'
  BY <1>0, <1>4 DEF Start, SpawnPostgres, PostgresExits, LeaderExits, entryVars, stopVars,
                    Stages, StageOf, Kinds, TypeOK, StateType
<1>5. ASSUME NEW e \in Entries, Forget(e)
      PROVE  Stages'
  <2>1. \A k \in Kinds : ports[e][k] = NoPort
    BY <1>5 DEF Forget, Held
  <2>2. cand[e] = NoPort
    BY <1>0, <1>5 DEF Forget, Stages, StageOf, Kinds
  <2> QED BY <1>0, <1>5, <2>1, <2>2 DEF Forget, stopVars, Stages, StageOf, Kinds, TypeOK, StateType
<1> QED BY <1>1, <1>2, <1>3, <1>4, <1>5, ResumeStages DEF Next

-----------------------------------------------------------------------------
LEMMA InitPorts == ASSUME CmAssumption, Init PROVE PortsInv
<1>1. TypeOK
  BY InitType
<1>2. Stages
  BY DEF CmAssumption, Init, Stages, StageOf, NoPorts, Kinds, Stoppers
<1>3. PortsExclusive
  BY DEF CmAssumption, Init, PortsExclusive, PortsDisjoint, ReservedExact, Claimed, Held,
         NoPorts, Kinds
<1> QED BY <1>1, <1>2, <1>3 DEF PortsInv

LEMMA PortsInvStutters ==
  ASSUME PortsInv, UNCHANGED vars PROVE PortsInv'
BY SamePorts DEF PortsInv, vars, entryVars, procVars, stopVars, TypeOK, StateType,
                 Stages, StageOf

LEMMA PortsInvariant == Spec => []PortsInv
<1>1. Init => PortsInv
  BY CmAssumption, InitPorts
<1>2. PortsInv /\ [Next]_vars => PortsInv'
  <2>1. ASSUME PortsInv, Next
        PROVE  PortsInv'
    BY <2>1, CmAssumption, NextType, NextStages, NextPorts DEF PortsInv
  <2> QED BY <2>1, PortsInvStutters
<1> QED BY <1>1, <1>2, PTL DEF Spec

\* The variables always have their types, and every status a hint announced is one
\* of EndpointStatus.
THEOREM TypeSafe == Spec => []TypeOK
<1>1. PortsInv => TypeOK
  BY DEF PortsInv
<1> QED BY <1>1, PortsInvariant, PTL

\* No port is handed out twice and reservedPorts is exactly what the entries hold:
\* for any number of branches, of start() calls in flight and of ports, and
\* whichever way start(), stop() and stopAll() interleave.
THEOREM PortsSafe == Spec => []PortsExclusive
<1>1. PortsInv => PortsExclusive
  BY DEF PortsInv
<1> QED BY <1>1, PortsInvariant, PTL

\* A stop() is final: whatever the interleaving, the start() whose entry it took
\* neither spawns a process afterwards nor commits to "running".
THEOREM StopFinal == Spec => StopIsFinal
<1> DEFINE A == \A e \in Entries :
                  phase[e] = "stopping" /\ pc'[e] # "new" =>
                    /\ phase'[e] = "stopping"
                    /\ leader[e] = "none" => leader'[e] # "alive"
<1>1. PortsInv /\ [Next]_vars => [A]_vars
  <2> SUFFICES ASSUME PortsInv, Next, NEW e \in Entries,
                      phase[e] = "stopping", pc'[e] # "new"
               PROVE  /\ phase'[e] = "stopping"
                      /\ leader[e] = "none" => leader'[e] # "alive"
    OBVIOUS
  <2> USE DEF entryVars, procVars, stopVars
  <2>0. TypeOK /\ Stages
    BY DEF PortsInv
  <2>1. ASSUME NEW f \in Entries, Resume(f)
        PROVE  /\ phase'[e] = "stopping"
               /\ leader[e] = "none" => leader'[e] # "alive"
    <3>1. CASE ProbeGrants(f)
      <4>1. UNCHANGED phase
        BY <3>1 DEF ProbeGrants
      <4>2. leader'[e] = leader[e] \/ (f = e /\ Fence(f))
        BY <2>0, <3>1 DEF ProbeGrants, Launch, TypeOK, StateType
      <4> QED BY <4>1, <4>2 DEF Fence
    <3>4. CASE MakeDir(f)
      BY <3>4 DEF MakeDir
    <3>5. CASE Ready(f)
      <4>1. UNCHANGED leader /\ (UNCHANGED phase \/ (Fence(f) /\ phase' = [phase EXCEPT ![f] = "running"]))
        BY <3>5 DEF Ready
      <4> QED BY <2>0, <4>1 DEF Fence, TypeOK, StateType
    <3>2. CASE NotReady(f) \/ Killed(f) \/ Reap(f)
      BY <2>0, <3>2 DEF NotReady, Killed, Reap, KillGroup, ReapDir, TypeOK, StateType
    <3>3. CASE \/ \E p \in AllPorts : Draw(f, p)
               \/ ProbeDeclines(f) \/ Exhausted(f) \/ MakeDirFails(f)
               \/ WriteConfig(f) \/ WriteConfigFails(f)
               \/ Needle(f) \/ ReadyFails(f) \/ Caught(f) \/ Remove(f)
      BY <3>3 DEF Draw, ProbeDeclines, Exhausted, MakeDirFails, WriteConfig,
                  WriteConfigFails, Needle, ReadyFails, Caught, Remove
    <3> QED BY <2>1, <3>1, <3>2, <3>3, <3>4, <3>5 DEF Resume
  <2>2. ASSUME NEW a \in Stoppers, NEW B \in SUBSET Branches, BeginStop(a, B)
        PROVE  phase'[e] = "stopping" /\ UNCHANGED leader
    BY <2>0, <2>2 DEF BeginStop, TypeOK, StateType
  <2>3. ASSUME NEW b \in Branches, Stop(b)
        PROVE  phase'[e] = "stopping" /\ UNCHANGED leader
    <3>1. {b} \in SUBSET Branches /\ "lane" \in Stoppers
      BY DEF Stoppers
    <3> QED BY <2>2, <2>3, <3>1 DEF Stop
  <2>4. CASE StopAll
    BY <2>2, <2>4 DEF StopAll, Stoppers
  <2>5. ASSUME NEW a \in Stoppers, NEW b \in Branches, ResumeStop(a, b)
        PROVE  /\ phase'[e] = "stopping"
               /\ leader[e] = "none" => leader'[e] # "alive"
    BY <2>0, <2>5 DEF ResumeStop, StopKilled, StopReap, StopRemove, KillGroup, ReapDir,
                      TypeOK, StateType
  <2>6. ASSUME NEW f \in Entries,
               \/ \E b \in Branches : Start(f, b)
               \/ SpawnPostgres(f) \/ PostgresExits(f) \/ LeaderExits(f) \/ Forget(f)
        PROVE  /\ phase'[e] = "stopping"
               /\ leader[e] = "none" => leader'[e] # "alive"
    <3>1. CASE Forget(f)
      <4>1. f # e
        BY <2>0, <3>1 DEF Forget, TypeOK, StateType
      <4> QED BY <2>0, <3>1, <4>1 DEF Forget, TypeOK, StateType
    <3>2. CASE LeaderExits(f)
      BY <2>0, <3>2 DEF LeaderExits, TypeOK, StateType
    <3>3. CASE (\E b \in Branches : Start(f, b)) \/ SpawnPostgres(f) \/ PostgresExits(f)
      BY <3>3 DEF Start, SpawnPostgres, PostgresExits
    <3> QED BY <2>6, <3>1, <3>2, <3>3
  <2> QED BY <2>1, <2>3, <2>4, <2>5, <2>6 DEF Next
<1>2. Spec => []PortsInv
  BY PortsInvariant
<1> QED BY <1>1, <1>2, PTL DEF Spec, StopIsFinal

=============================================================================
