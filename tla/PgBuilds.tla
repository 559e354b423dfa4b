------------------------------- MODULE PgBuilds -------------------------------
(* The Postgres builds of one major: BuildRegistry and Provisioner              *)
(* (compute/builds) over the table pg_builds, the volume that holds the         *)
(* extracted builds, and the endpoint starts that run them.  Every await of a   *)
(* pull, of activate() and of remove() is a control state.                      *)
(*                                                                             *)
(* runMutation's promise chain is an owner here, as a branch's lane is in       *)
(* Branches.  A directory is there or not; rm() and rename() take effect at     *)
(* some moment of their await (fs: it has passed), so a crash may find them done *)
(* or not.  A rm() that fails removes nothing.  An image is its digest.         *)
EXTENDS Naturals, FiniteSets

CONSTANTS Ids, Digests, Clients, Starts,
          MinorOf,       \* the minor version in an image
          Mislabelled,   \* the images whose Postgres is of another major
          BakedMinors,   \* the minors that container images ship; 0: the major is dropped
          Baked,         \* the id of the baked build
          NoRow, NoDigest, NoOne, Pipe,
          Crashes,       \* may the daemon die and restart?
          RmFails        \* may rm() fail?

Tmp(d) == <<"tmp", d>>
Dir(d) == <<"final", d>>
NoPath == <<>>
Paths  == {NoPath} \cup {Tmp(d) : d \in Digests} \cup {Dir(d) : d \in Digests}

RowType == [st : {"downloading", "validating", "ready", "failed", "skipped"},
            dig : Digests \cup {NoDigest}, path : Paths, minor : Nat, active : BOOLEAN]

ASSUME PbAssumption ==
  /\ MinorOf \in [Digests -> Nat \ {0}]
  /\ Mislabelled \subseteq Digests
  /\ BakedMinors \subseteq Nat
  /\ NoRow \notin RowType
  /\ Baked \notin Ids /\ NoDigest \notin Digests /\ Pipe \notin Clients
  /\ NoOne \notin Clients \cup {Pipe}
  /\ Crashes \in BOOLEAN /\ RmFails \in BOOLEAN

VARIABLES
  row,       \* table pg_builds: id -> status, image digest, path, minor, active
  disk,      \* the directories on the volume
  lastRun,   \* pg_majors.last_run_minor; 0: none
  degraded,  \* the major is in BuildRegistry.degraded
  pull,      \* the pull in flight: where runPipeline is suspended, its row, its digest
  client,    \* activate() and remove() calls
  lane,      \* whose turn it is on the mutation lane
  run,       \* endpoint starts and running endpoints
  passed,    \* history: the images that passed the validation gate
  raced      \* history: the active build was changed below that of a start in flight

vars == <<row, disk, lastRun, degraded, pull, client, lane, run, passed, raced>>

Rows      == Ids \cup {Baked}
Live(r)   == {i \in Rows : r[i] # NoRow}
Ready(r)  == {i \in Live(r) : r[i].st = "ready"}
FreeIds   == {i \in Ids : row[i] = NoRow /\ pull.id # i}
Claims(r, p) == {i \in Live(r) : r[i].path = p}

Build(st, d, p, m) == [st |-> st, dig |-> d, path |-> p, minor |-> m, active |-> FALSE]
Idle  == [pc |-> "idle", id |-> Baked, dig |-> NoDigest, fs |-> FALSE]
Quiet == [pc |-> "idle", kind |-> "none", id |-> Baked, consent |-> FALSE, fs |-> FALSE]
Down  == [pc |-> "down", path |-> NoPath, minor |-> 0]

\* setActiveExclusive; with no winner, clearActive.
Exclusive(r, winners) ==
  [i \in Rows |-> IF r[i] = NoRow THEN NoRow ELSE [r[i] EXCEPT !.active = i \in winners]]

\* byActivePreference: the newest minor, the baked build first; a set of at most one.
Winners(r) ==
  LET best == {i \in Ready(r) : \A j \in Ready(r) :
                 r[i].minor > r[j].minor \/ (r[i].minor = r[j].minor /\ (i = Baked \/ j # Baked))}
  IN IF best = {} THEN {{}} ELSE {{i} : i \in best}

\* UPDATE ... WHERE id = ?: nothing to do for a row that is gone.
Set(i, b) == row' = [row EXCEPT ![i] = IF @ = NoRow THEN NoRow ELSE b]

Init ==
  /\ \E m \in BakedMinors \ {0} :
       row = [i \in Rows |-> IF i = Baked
                             THEN [Build("ready", NoDigest, NoPath, m) EXCEPT !.active = TRUE]
                             ELSE NoRow]
  /\ disk = {}
  /\ lastRun = 0
  /\ degraded = FALSE
  /\ pull = Idle
  /\ client = [c \in Clients |-> Quiet]
  /\ lane = NoOne
  /\ run = [s \in Starts |-> Down]
  /\ passed = {}
  /\ raced = FALSE

-----------------------------------------------------------------------------
(* Provisioner.pull and runPipeline.                                         *)

PullAt(pc) == pull.pc = pc
PullGo(pc) == pull' = [pull EXCEPT !.pc = pc, !.fs = FALSE]
Mine       == row[pull.id]

UnchangedByPull == UNCHANGED <<lastRun, degraded, client, run, raced>>

\* The awaited rm() or rename() takes effect; a rename() does not replace a directory.
PullFs ==
  LET d == pull.dig IN
  /\ ~pull.fs
  /\ pull' = [pull EXCEPT !.fs = TRUE]
  /\ \/ (\E pc \in {"mislabelled", "dupe", "staging"} : PullAt(pc)) /\ disk' = disk \ {Tmp(d)}
     \/ (\E pc \in {"discard", "undoing"} : PullAt(pc)) /\ disk' = disk \ {Dir(d)}
     \/ PullAt("rename") /\ Dir(d) \notin disk /\ disk' = (disk \ {Tmp(d)}) \cup {Dir(d)}
  /\ UNCHANGED <<row, lane, passed>> /\ UnchangedByPull

\* ... and answers, or has none and throws.
FsDone   == pull.fs /\ UNCHANGED disk
RmThrows(p) == RmFails /\ p \in disk /\ ~pull.fs /\ UNCHANGED disk

\* Mutant: the row names a staging directory before its digest is known.
PullClaimsEarly ==
  /\ PullAt("idle")
  /\ Cardinality(FreeIds) > 1
  /\ \E i \in FreeIds :
       /\ row' = [row EXCEPT ![i] = Build("downloading", NoDigest, Tmp(NoDigest), 0)]
       /\ pull' = [Idle EXCEPT !.pc = "resolve", !.id = i]
  /\ UNCHANGED <<disk, lane, passed>> /\ UnchangedByPull

\* One pull at a time; its row is there before pull() returns.  (An id stays free
\* for what a restart adopts.)
Pull ==
  /\ PullAt("idle")
  /\ Cardinality(FreeIds) > 1
  /\ \E i \in FreeIds :
       /\ row' = [row EXCEPT ![i] = Build("downloading", NoDigest, NoPath, 0)]
       /\ pull' = [Idle EXCEPT !.pc = "resolve", !.id = i]
  /\ UNCHANGED <<disk, lane, passed>> /\ UnchangedByPull

\* The preflight or resolveDigest fails.
ResolveFails ==
  /\ PullAt("resolve")
  /\ Set(pull.id, [Mine EXCEPT !.st = "failed"])
  /\ pull' = Idle
  /\ UNCHANGED <<disk, lane, passed>> /\ UnchangedByPull

\* resolveDigest answers: an installed image is a no-op, recorded as such.
Resolved(d) ==
  LET same == {i \in Ready(row) : row[i].dig = d} IN
  /\ PullAt("resolve")
  /\ IF same # {}
     THEN /\ \E i \in same : Set(pull.id, Build("skipped", d, NoPath, row[i].minor))
          /\ pull' = [pull EXCEPT !.pc = "prune", !.dig = d]
     ELSE /\ Set(pull.id, [Mine EXCEPT !.dig = d, !.path = Tmp(d)])
          /\ pull' = [pull EXCEPT !.pc = "extract", !.dig = d]
  /\ UNCHANGED <<disk, lane, passed>> /\ UnchangedByPull

\* recordSkip's prune of older no-ops, in the lane.
Prune ==
  /\ PullAt("prune")
  /\ lane = NoOne
  /\ row' = [i \in Rows |->
       IF i # pull.id /\ row[i] # NoRow /\ row[i].st = "skipped" /\ row[i].dig = pull.dig
                      /\ ~row[i].active
       THEN NoRow ELSE row[i]]
  /\ pull' = Idle
  /\ UNCHANGED <<disk, lane, passed>> /\ UnchangedByPull

\* A download or a validation takes longer than a rm() that was under way.
Settled(p) == \A c \in Clients : client[c].pc = "rm" /\ ~client[c].fs => row[client[c].id].path # p

\* pullPrefix refuses to extract over a directory.
Extracted ==
  /\ PullAt("extract")
  /\ Tmp(pull.dig) \notin disk
  /\ Settled(Tmp(pull.dig))
  /\ disk' = disk \cup {Tmp(pull.dig)}
  /\ PullGo("detect")
  /\ UNCHANGED <<row, lane, passed>> /\ UnchangedByPull

\* detectVersion answers: another major, a minor there already is, or a new build.
Detected ==
  LET d    == pull.dig
      dupe == \E i \in Ready(row) \ {pull.id} : row[i].minor = MinorOf[d] IN
  /\ PullAt("detect")
  /\ PullGo(CASE d \in Mislabelled -> "mislabelled"
              [] d \notin Mislabelled /\ dupe -> "dupe"
              [] OTHER -> "rename")
  /\ UNCHANGED <<row, disk, lane, passed>> /\ UnchangedByPull

Dropped ==
  /\ FsDone
  /\ \/ /\ PullAt("mislabelled")
        /\ Set(pull.id, [Mine EXCEPT !.path = NoPath, !.st = "failed"])
        /\ pull' = Idle
     \/ /\ PullAt("dupe")
        /\ Set(pull.id, [Mine EXCEPT !.path = NoPath, !.st = "skipped",
                                     !.minor = MinorOf[pull.dig]])
        /\ PullGo("prune")
  /\ UNCHANGED <<lane, passed>> /\ UnchangedByPull

\* Mutant: the row is ready as soon as it has its directory.
RenamedUnclaimed ==
  /\ PullAt("rename")
  /\ FsDone
  /\ Set(pull.id, [Mine EXCEPT !.minor = MinorOf[pull.dig], !.st = "ready", !.path = Dir(pull.dig)])
  /\ PullGo("gate")
  /\ UNCHANGED <<lane, passed>> /\ UnchangedByPull

\* rename() answers.
Renamed ==
  /\ PullAt("rename")
  /\ FsDone
  /\ Set(pull.id, [Mine EXCEPT !.minor = MinorOf[pull.dig], !.st = "validating",
                               !.path = Dir(pull.dig)])
  /\ PullGo("gate")
  /\ UNCHANGED <<lane, passed>> /\ UnchangedByPull

\* Something threw before the rename: the staging directory goes.
StagingThrows ==
  /\ \E pc \in {"extract", "detect", "rename"} : PullAt(pc)
  /\ ~pull.fs
  /\ Set(pull.id, [Mine EXCEPT !.st = "failed"])
  /\ PullGo("staging")
  /\ UNCHANGED <<disk, lane, passed>> /\ UnchangedByPull

\* ... also when the rm() of a build to drop throws: it is tried again.
DropThrows ==
  /\ PullAt("mislabelled") \/ PullAt("dupe")
  /\ RmThrows(Tmp(pull.dig))
  /\ Set(pull.id, [Mine EXCEPT !.st = "failed"])
  /\ PullGo("staging")
  /\ UNCHANGED <<lane, passed>> /\ UnchangedByPull

\* The row gives its claim up only with the directory.
StagingGone ==
  /\ PullAt("staging")
  /\ \/ /\ FsDone
        /\ Set(pull.id, [Mine EXCEPT !.path = IF @ = Tmp(pull.dig) THEN NoPath ELSE @])
     \/ RmThrows(Tmp(pull.dig)) /\ UNCHANGED row
  /\ pull' = Idle
  /\ UNCHANGED <<lane, passed>> /\ UnchangedByPull

\* The gate runs the Postgres that is in the directory ...
GatePasses ==
  /\ PullAt("gate")
  /\ Dir(pull.dig) \in disk /\ Settled(Dir(pull.dig))
  /\ Set(pull.id, [Mine EXCEPT !.st = "ready"])
  /\ passed' = passed \cup {pull.dig}
  /\ PullGo("activate")
  /\ UNCHANGED <<disk, lane>> /\ UnchangedByPull

\* ... and may fail, or time out.
GateFails ==
  /\ PullAt("gate")
  /\ PullGo("discard")
  /\ UNCHANGED <<row, disk, lane, passed>> /\ UnchangedByPull

Discarded ==
  /\ PullAt("discard")
  /\ \/ /\ FsDone
        /\ Set(pull.id, [Mine EXCEPT !.path = NoPath, !.st = "failed"])
        /\ pull' = Idle
     \/ /\ RmThrows(Dir(pull.dig))
        /\ Set(pull.id, [Mine EXCEPT !.st = "failed"])
        /\ PullGo("undo")
  /\ UNCHANGED <<lane, passed>> /\ UnchangedByPull

-----------------------------------------------------------------------------
(* The active build.                                                         *)

Downgrade(i) == row[i].minor < lastRun

\* BuildRegistry.activate on a row it accepts.
Activate(i) ==
  /\ row' = Exclusive(row, {i})
  /\ lastRun' = IF Downgrade(i) THEN row[i].minor ELSE lastRun
  /\ degraded' = FALSE
  /\ raced' = \E s \in Starts : run[s].pc = "starting" /\ run[s].minor > row[i].minor

\* A validated pull activates itself, unless that is a downgrade.  A row that was
\* removed while it waited for the lane is an error.
AutoActivate ==
  /\ PullAt("activate")
  /\ lane = NoOne
  /\ IF Mine = NoRow
     THEN /\ PullGo("undo")
          /\ UNCHANGED <<row, lastRun, degraded, lane, raced>>
     ELSE /\ lane' = Pipe
          /\ PullGo("compose")
          /\ IF Downgrade(pull.id)
             THEN UNCHANGED <<row, lastRun, degraded, raced>>
             ELSE Activate(pull.id)
  /\ UNCHANGED <<disk, client, run, passed>>

\* recomposeDistrib, whether it throws or not.
PullComposed ==
  /\ PullAt("compose")
  /\ lane' = NoOne
  /\ pull' = Idle
  /\ UNCHANGED <<row, disk, passed>> /\ UnchangedByPull

\* The compensation of a failure after the rename, in the lane.
Undo ==
  /\ PullAt("undo")
  /\ lane = NoOne
  /\ lane' = Pipe
  /\ PullGo("undoing")
  /\ UNCHANGED <<row, disk, passed>> /\ UnchangedByPull

\* Here the claim goes even if the rm() failed.
Undone ==
  /\ PullAt("undoing")
  /\ FsDone \/ RmThrows(Dir(pull.dig))
  /\ Set(pull.id, [Mine EXCEPT !.path = NoPath])
  /\ lane' = NoOne
  /\ pull' = Idle
  /\ UNCHANGED passed /\ UnchangedByPull

-----------------------------------------------------------------------------
(* activate() and remove().                                                  *)

Ask(c, k, i, consent) ==
  /\ client[c].pc = "idle"
  /\ row[i] # NoRow
  /\ client' = [client EXCEPT ![c] = [Quiet EXCEPT !.pc = "queued", !.kind = k,
                                                   !.id = i, !.consent = consent]]
  /\ UNCHANGED <<row, disk, lastRun, degraded, pull, lane, run, passed, raced>>

MyTurn(c) == client[c].pc = "queued" /\ lane = NoOne

Activatable(c) ==
  LET i == client[c].id IN
  i \in Ready(row) /\ (Downgrade(i) => client[c].consent)

\* Mutant: it is not looked at whether the build is active.
RemovableActive(i) ==
  /\ row[i] # NoRow /\ i # Baked
  /\ row[i].st \notin {"downloading", "validating"}
  /\ row[i].path # NoPath => \A s \in Starts : run[s].path # row[i].path

\* assertRemovable
Removable(i) ==
  /\ row[i] # NoRow /\ i # Baked
  /\ ~row[i].active
  /\ row[i].st \notin {"downloading", "validating"}
  /\ row[i].path # NoPath => \A s \in Starts : run[s].path # row[i].path

Refuse(c) ==
  /\ MyTurn(c)
  /\ \/ client[c].kind = "activate" /\ ~Activatable(c)
     \/ client[c].kind = "remove" /\ ~Removable(client[c].id)
  /\ client' = [client EXCEPT ![c] = Quiet]
  /\ UNCHANGED <<row, disk, lastRun, degraded, pull, lane, run, passed, raced>>

ActivateTurn(c) ==
  /\ MyTurn(c)
  /\ client[c].kind = "activate"
  /\ Activatable(c)
  /\ Activate(client[c].id)
  /\ client' = [client EXCEPT ![c].pc = "compose"]
  /\ lane' = c
  /\ UNCHANGED <<disk, pull, run, passed>>

\* Mutant: whoever else claims the directory, it goes.
RemoveShared(c) ==
  LET i == client[c].id IN
  /\ MyTurn(c)
  /\ client[c].kind = "remove"
  /\ Removable(i)
  /\ lane' = c
  /\ client' = [client EXCEPT ![c].pc = "rm"]
  /\ UNCHANGED <<row, disk, lastRun, degraded, pull, run, passed, raced>>

\* The row's directory goes first, if no other row claims it.
Remove(c) ==
  LET i == client[c].id IN
  /\ MyTurn(c)
  /\ client[c].kind = "remove"
  /\ Removable(i)
  /\ lane' = c
  /\ IF row[i].path # NoPath /\ Claims(row, row[i].path) = {i}
     THEN client' = [client EXCEPT ![c].pc = "rm"] /\ UNCHANGED row
     ELSE client' = [client EXCEPT ![c].pc = "compose"] /\ row' = [row EXCEPT ![i] = NoRow]
  /\ UNCHANGED <<disk, lastRun, degraded, pull, run, passed, raced>>

RemoveFs(c) ==
  /\ client[c].pc = "rm" /\ ~client[c].fs
  /\ client' = [client EXCEPT ![c].fs = TRUE]
  /\ disk' = disk \ {row[client[c].id].path}
  /\ UNCHANGED <<row, lastRun, degraded, pull, lane, run, passed, raced>>

Removed(c) ==
  LET i == client[c].id IN
  /\ client[c].pc = "rm"
  /\ \/ /\ client[c].fs
        /\ row' = [row EXCEPT ![i] = NoRow]
        /\ client' = [client EXCEPT ![c].pc = "compose"]
        /\ UNCHANGED lane
     \/ /\ RmFails /\ ~client[c].fs
        /\ client' = [client EXCEPT ![c] = Quiet]
        /\ lane' = NoOne
        /\ UNCHANGED row
  /\ UNCHANGED <<disk, lastRun, degraded, pull, run, passed, raced>>

\* recomposeDistrib, whether it throws or not.
Composed(c) ==
  /\ client[c].pc = "compose"
  /\ client' = [client EXCEPT ![c] = Quiet]
  /\ lane' = NoOne
  /\ UNCHANGED <<row, disk, lastRun, degraded, pull, run, passed, raced>>

-----------------------------------------------------------------------------
(* Endpoints.                                                                *)

UnchangedByRun == UNCHANGED <<row, disk, degraded, pull, client, lane, passed, raced>>

\* startLocked: pgbinFor and the compute's reservation, with no await in between.
Start(s) ==
  /\ run[s].pc = "down"
  /\ \E i \in Ready(row) :
       /\ row[i].active
       /\ run' = [run EXCEPT ![s] = [pc |-> "starting", path |-> row[i].path,
                                     minor |-> row[i].minor]]
  /\ UNCHANGED lastRun /\ UnchangedByRun

\* The compute is ready: recordRun raises the high-water mark.
Started(s) ==
  /\ run[s].pc = "starting"
  /\ run' = [run EXCEPT ![s].pc = "running"]
  /\ lastRun' = IF run[s].minor > lastRun THEN run[s].minor ELSE lastRun
  /\ UnchangedByRun

\* The start fails, or the endpoint is stopped.
Stop(s) ==
  /\ run[s].pc # "down"
  /\ run' = [run EXCEPT ![s] = Down]
  /\ UNCHANGED lastRun /\ UnchangedByRun

-----------------------------------------------------------------------------
(* A restart: the boot order of index.ts, nothing else running yet.           *)

\* seedBaked, of an image with minor m.
Seeded(r, m) ==
  [r EXCEPT ![Baked] = IF m = 0 THEN [@ EXCEPT !.st = "failed"]
                                ELSE [@ EXCEPT !.st = "ready", !.minor = m]]

\* adoptVolumeBuilds: a directory no row claims becomes a build (mislabelled ones are
\* skipped), and a ready build without its directory fails.
Unclaimed == {d \in Digests \ Mislabelled : Dir(d) \in disk /\ Claims(row, Dir(d)) = {}}
Adopted(r, id) ==
  [i \in Rows |->
    IF \E d \in Unclaimed : id[d] = i
    THEN LET d == CHOOSE d \in Unclaimed : id[d] = i IN Build("ready", d, Dir(d), MinorOf[d])
    ELSE IF i # Baked /\ i \in Ready(r) /\ r[i].path \notin disk
    THEN [r[i] EXCEPT !.st = "failed"]
    ELSE r[i]]

\* failInterrupted: a pull that was in flight has failed; its directory goes, if no
\* other row claims it and (the rows in kept) its rm() does not fail.
Interrupted(r)     == {i \in Live(r) : r[i].st \in {"downloading", "validating"}}
Reclaimed(r, kept) == {i \in Interrupted(r) \ kept : Claims(r, r[i].path) \subseteq Interrupted(r)}
Failed(r, kept) ==
  [i \in Rows |->
    IF i \in Interrupted(r)
    THEN [r[i] EXCEPT !.st = "failed", !.path = IF i \in Reclaimed(r, kept) THEN NoPath ELSE @]
    ELSE r[i]]

\* Mutant: the pick is not compared with the high-water mark.
BelowMarkNever(r) == FALSE

\* resolveActives flags a pick below the high-water mark.
BelowMark(r) == \E i \in Ready(r) : r[i].active /\ r[i].minor < lastRun

\* gcCandidates: the inactive downloaded builds, less the newest (one of them).
Olds(r) ==
  LET idle == {i \in Ready(r) \ {Baked} : ~r[i].active} IN
  IF idle = {} THEN {{}}
  ELSE {idle \ {i} : i \in {i \in idle : \A j \in idle : r[i].minor >= r[j].minor}}
Collected(r, old) == [i \in Rows |-> IF i \in old THEN NoRow ELSE r[i]]

Restart ==
  /\ Crashes
  /\ \E m \in BakedMinors, id \in [Unclaimed -> FreeIds] :
     \E adopted \in {Adopted(Seeded(row, m), id)} :
     \E kept \in SUBSET (IF RmFails THEN Interrupted(adopted) ELSE {}) :
     \E failed \in {Failed(adopted, kept)} :
     \E resolved \in {Exclusive(failed, w) : w \in Winners(failed)} :
     \E old \in Olds(resolved) :
       /\ \A d, e \in Unclaimed : d # e => id[d] # id[e]
       /\ \A i \in kept : adopted[i].path \in disk
       /\ row' = Collected(resolved, old)
       /\ degraded' = BelowMark(resolved)
       /\ disk' = disk \ ({Tmp(d) : d \in Digests}
                            \cup {adopted[i].path : i \in Reclaimed(adopted, kept)}
                            \cup {resolved[i].path : i \in old})
  /\ pull' = Idle
  /\ client' = [c \in Clients |-> Quiet]
  /\ lane' = NoOne
  /\ run' = [s \in Starts |-> Down]
  /\ raced' = FALSE
  /\ UNCHANGED <<lastRun, passed>>

-----------------------------------------------------------------------------
Pipeline ==
  \/ Pull \/ PullFs \/ ResolveFails \/ (\E d \in Digests : Resolved(d)) \/ Prune
  \/ Extracted \/ Detected \/ Dropped \/ Renamed
  \/ StagingThrows \/ DropThrows \/ StagingGone
  \/ GatePasses \/ GateFails \/ Discarded
  \/ AutoActivate \/ PullComposed \/ Undo \/ Undone

Next ==
  \/ Pipeline
  \/ \E c \in Clients, i \in Rows, consent \in BOOLEAN : Ask(c, "activate", i, consent)
  \/ \E c \in Clients, i \in Rows : Ask(c, "remove", i, FALSE)
  \/ \E c \in Clients : Refuse(c) \/ ActivateTurn(c) \/ Remove(c) \/ RemoveFs(c) \/ Removed(c) \/ Composed(c)
  \/ \E s \in Starts : Start(s) \/ Started(s) \/ Stop(s)
  \/ Restart

Spec == Init /\ [][Next]_vars

-----------------------------------------------------------------------------
(* Properties.                                                               *)

TypeOK ==
  /\ row \in [Rows -> {NoRow} \cup RowType]
  /\ disk \subseteq Paths \ {NoPath}
  /\ lastRun \in Nat
  /\ degraded \in BOOLEAN
  /\ pull \in [pc : {"idle", "resolve", "prune", "extract", "detect", "mislabelled", "dupe",
                     "rename", "staging", "gate", "discard", "activate", "compose",
                     "undo", "undoing"},
               id : Rows, dig : Digests \cup {NoDigest}, fs : BOOLEAN]
  /\ client \in [Clients -> [pc : {"idle", "queued", "rm", "compose"},
                             kind : {"none", "activate", "remove"},
                             id : Rows, consent : BOOLEAN, fs : BOOLEAN]]
  /\ lane \in Clients \cup {NoOne, Pipe}
  /\ run \in [Starts -> [pc : {"down", "starting", "running"}, path : Paths, minor : Nat]]
  /\ passed \subseteq Digests
  /\ raced \in BOOLEAN

\* The active build is installed, whatever is being removed, failed or collected.
ActiveUsable ==
  \A i \in Live(row) : row[i].active =>
    row[i].st = "ready" /\ (i # Baked => row[i].path \in disk)

\* The files of a build are never deleted under an endpoint that starts or runs on it.
InUseKept == \A s \in Starts : run[s].path # NoPath => run[s].path \in disk

\* Only the pull itself takes its directory away.
PullKeepsFiles ==
  /\ PullAt("detect") => Tmp(pull.dig) \in disk
  /\ PullAt("rename") => (IF pull.fs THEN Dir(pull.dig) ELSE Tmp(pull.dig)) \in disk
  /\ PullAt("gate")   => Dir(pull.dig) \in disk

\* No remove, failure or activation takes the files of a build away that is active,
\* that an endpoint runs on, or that is being pulled.
FilesKept == ActiveUsable /\ InUseKept /\ PullKeepsFiles

\* "Every pull is validated end-to-end [...] before it becomes activatable."
Validated == \A i \in Ready(row) \ {Baked} : row[i].dig \in passed

\* "Downgrades are never silent": an active build below the last-run minor is flagged.
Silent == ~degraded /\ \E i \in Ready(row) : row[i].active /\ Downgrade(i)
\* It is not after one interleaving only: the start that raised the mark was in flight
\* when the active build was changed.
SilentOnlyByRace == Silent => raced

=============================================================================
