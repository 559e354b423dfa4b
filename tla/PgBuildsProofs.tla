---------------------------- MODULE PgBuildsProofs ----------------------------
(* Proofs about PgBuilds, for any number of builds, images, clients and          *)
(* endpoints, with or without crashes and failing removals: the rows agree with    *)
(* the volume, no files go from under the active build or an endpoint, and a        *)
(* downgrade is flagged.  What holds only without crashes says so.                 *)
EXTENDS PgBuilds, TLAPS

-----------------------------------------------------------------------------
(* The inductive invariant.                                                  *)

Pcs == {"idle", "resolve", "prune", "extract", "detect", "mislabelled", "dupe", "rename",
        "staging", "gate", "discard", "activate", "compose", "undo", "undoing"}

\* What a row says of its build: the directory of a ready or validating one is that of
\* its image; the baked build has none.
RowsForm(r) ==
  /\ r \in [Rows -> {NoRow} \cup RowType]
  /\ r[Baked] # NoRow /\ r[Baked].st \in {"ready", "failed"} /\ r[Baked].path = NoPath
  /\ \A i \in Rows \ {Baked} : r[i] # NoRow =>
       /\ r[i].st \in {"ready", "validating"} => r[i].dig \in Digests /\ r[i].path = Dir(r[i].dig)
       /\ r[i].st = "downloading" => \A d \in Digests : r[i].path # Dir(d)

\* Only a ready build is active.
RowsOK(r) ==
  /\ RowsForm(r)
  /\ \A i \in Rows : r[i] # NoRow /\ r[i].active => r[i].st = "ready"

\* At most one build is active, and no two ready ones are of one image.
Distinct(r) == \A i, j \in Ready(r) \ {Baked} : r[i].dig = r[j].dig => i = j
OneActive(r) == \A i, j \in Live(r) : r[i].active /\ r[j].active => i = j

\* A row being removed holds the lane, and nobody begins to rely on its directory.
RmOK ==
  \A c \in Clients : client[c].pc = "rm" =>
    LET i == client[c].id IN
    /\ i # Baked /\ row[i] # NoRow /\ ~row[i].active
    /\ row[i].st \notin {"downloading", "validating"}
    /\ ~client[c].fs => \A k \in Ready(row) \ {Baked, i} : row[k].path # row[i].path

\* The lane has one owner.
LaneOK ==
  /\ \A c \in Clients : client[c].pc \in {"rm", "compose"} => lane = c
  /\ PullAt("compose") \/ PullAt("undoing") => lane = Pipe

\* A ready build is on disk until a removal has taken it; so is one that an endpoint
\* starts or runs on, which no removal is after.
Removing(i) == \E c \in Clients : client[c].pc = "rm" /\ client[c].id = i
Gone(i)     == \E c \in Clients : client[c].pc = "rm" /\ client[c].id = i /\ client[c].fs
OnDisk == \A i \in Ready(row) \ {Baked} : row[i].path \in disk \/ Gone(i)
InUse  == \A s \in Starts : run[s].path # NoPath =>
            \E i \in Ready(row) \ {Baked} : row[i].path = run[s].path /\ ~Removing(i)

\* Neither the mark nor a start in flight is above the active build.
MarkOK ==
  ~raced /\ ~degraded =>
    \A i \in Ready(row) : row[i].active =>
      /\ row[i].minor >= lastRun
      /\ \A s \in Starts : run[s].pc = "starting" => run[s].minor <= row[i].minor

\* What the pull has made of its row, and what it may rely on.
PullOK ==
  /\ IF PullAt("idle") THEN pull.id = Baked ELSE pull.id \in Ids
  /\ pull.pc \notin {"idle", "resolve"} => pull.dig \in Digests
  /\ PullAt("resolve") => Mine # NoRow /\ Mine.st = "downloading" /\ Mine.path = NoPath
  /\ pull.pc \in {"extract", "detect", "mislabelled", "dupe", "rename"} =>
       Mine # NoRow /\ Mine.st = "downloading" /\ Mine.dig = pull.dig /\ Mine.path = Tmp(pull.dig)
  /\ pull.pc \in {"gate", "discard"} =>
       Mine # NoRow /\ Mine.st = "validating" /\ Mine.dig = pull.dig
  /\ PullAt("staging") => Mine = NoRow \/ (Mine.st = "failed" /\ Mine.path = Tmp(pull.dig))
  /\ PullAt("prune") => Mine = NoRow \/ (Mine.st = "skipped" /\ Mine.path = NoPath)
  /\ PullAt("activate") \/ PullAt("compose") => Mine = NoRow \/ Mine.st = "ready"
  /\ PullAt("undo") \/ PullAt("undoing") => Mine = NoRow \/ Mine.st = "failed"

\* No ready build has the image of the pull, once it is known not to be installed.
AloneOK ==
  pull.pc \notin {"idle", "resolve", "prune"} =>
    \A i \in Ready(row) \ {pull.id} : row[i].dig # pull.dig

\* The staging directory of the pull is there, and nobody is about to remove it.
StagingOK ==
  /\ PullAt("detect") \/ (PullAt("rename") /\ ~pull.fs) => Tmp(pull.dig) \in disk
  /\ PullAt("detect") \/ PullAt("rename") => Settled(Tmp(pull.dig))

\* Without crashes only the pull's own row claims the directory of a build that is not
\* ready; so the one it validates stays, and what is ready has passed.
NoCrashOK ==
  ~Crashes =>
    /\ \A i \in Live(row) \ {pull.id}, d \in Digests : row[i].path = Dir(d) => row[i].st = "ready"
    /\ PullAt("gate") \/ (PullAt("rename") /\ pull.fs) => Dir(pull.dig) \in disk
    /\ Validated

ReadyInv == Distinct(row) /\ OneActive(row) /\ OnDisk /\ InUse /\ MarkOK
ClaimInv == RmOK /\ LaneOK
PullInv  == PullOK /\ AloneOK /\ StagingOK /\ NoCrashOK
Inv == TypeOK /\ RowsOK(row) /\ ReadyInv /\ ClaimInv /\ PullInv

-----------------------------------------------------------------------------
(* Rows and paths.                                                           *)

LEMMA PathFacts ==
  /\ \A d, e : (Dir(d) = Dir(e) => d = e) /\ (Tmp(d) = Tmp(e) => d = e) /\ Tmp(d) # Dir(e)
  /\ \A d : Dir(d) # NoPath /\ Tmp(d) # NoPath
  /\ \A d \in Digests : Dir(d) \in Paths /\ Tmp(d) \in Paths
  /\ NoPath \in Paths
BY DEF Dir, Tmp, NoPath, Paths

LEMMA RowFacts ==
  ASSUME PbAssumption, NEW r, RowsOK(r), NEW i \in Rows, r[i] # NoRow
  PROVE  /\ r[i] \in RowType
         /\ r[i].dig \in Digests \cup {NoDigest} /\ r[i].path \in Paths /\ r[i].minor \in Nat
         /\ r[i].active \in BOOLEAN
BY DEF RowsOK, RowsForm, RowType

LEMMA BuildFacts ==
  ASSUME NEW st \in {"downloading", "validating", "ready", "failed", "skipped"},
         NEW d \in Digests \cup {NoDigest}, NEW p \in Paths, NEW m \in Nat
  PROVE  /\ Build(st, d, p, m) \in RowType
         /\ Build(st, d, p, m).st = st /\ Build(st, d, p, m).dig = d
         /\ Build(st, d, p, m).path = p /\ Build(st, d, p, m).minor = m
         /\ Build(st, d, p, m).active = FALSE
BY DEF Build, RowType

\* UPDATE of one row.
LEMMA SetFacts ==
  ASSUME PbAssumption, RowsOK(row), NEW i \in Rows, NEW b, Set(i, b)
  PROVE  /\ \A j \in Rows \ {i} : row'[j] = row[j]
         /\ row[i] = NoRow => row' = row
         /\ row[i] # NoRow => row'[i] = b
         /\ b \in RowType => row' \in [Rows -> {NoRow} \cup RowType]
<1>1. row \in [Rows -> {NoRow} \cup RowType]
  BY DEF RowsOK, RowsForm
<1>2. row' = [row EXCEPT ![i] = IF row[i] = NoRow THEN NoRow ELSE b]
  BY DEF Set
<1>3. row[i] = NoRow => row' = row
  BY <1>1, <1>2
<1> QED BY <1>1, <1>2, <1>3

LEMMA PullGoFacts ==
  ASSUME TypeOK, NEW pc \in Pcs
  PROVE  LET q == [pull EXCEPT !.pc = pc, !.fs = FALSE] IN
         /\ q \in [pc : Pcs, id : Rows, dig : Digests \cup {NoDigest}, fs : BOOLEAN]
         /\ q.pc = pc /\ q.fs = FALSE /\ q.id = pull.id /\ q.dig = pull.dig
<1>1. pull \in [pc : Pcs, id : Rows, dig : Digests \cup {NoDigest}, fs : BOOLEAN]
  BY DEF TypeOK, Pcs
<1> HIDE DEF Pcs
<1> QED BY <1>1

LEMMA IdleFacts ==
  /\ Idle \in [pc : Pcs, id : Rows, dig : Digests \cup {NoDigest}, fs : BOOLEAN]
  /\ Idle.pc = "idle" /\ Idle.id = Baked
BY DEF Idle, Pcs, Rows

LEMMA QuietFacts ==
  /\ Quiet \in [pc : {"idle", "queued", "rm", "compose"}, kind : {"none", "activate", "remove"},
                id : Rows, consent : BOOLEAN, fs : BOOLEAN]
  /\ Quiet.pc = "idle"
BY DEF Quiet, Rows

\* A row that is not ready, or not there, is set to another that is not ready: the
\* ready ones, and all that is said of them, are as they were.
NotReady(r, i) == r[i] = NoRow \/ r[i].st # "ready"
Busy(r, i)     == r[i] = NoRow \/ r[i].st \in {"downloading", "validating"}

LEMMA OtherReady ==
  ASSUME PbAssumption, Inv, RowsOK(row'), NEW i \in Ids,
         \A j \in Rows \ {i} : row'[j] = row[j],
         NotReady(row, i), NotReady(row', i)
  PROVE  /\ Ready(row') = Ready(row) /\ i \notin Ready(row)
         /\ \A k \in Ready(row) : row'[k] = row[k]
         /\ OneActive(row') /\ Distinct(row')
<1>1. Ready(row') = Ready(row) /\ i \notin Ready(row) /\ Ready(row) \subseteq Rows
  BY DEF Ready, Live, NotReady, Rows
<1>2. \A k \in Ready(row) : row'[k] = row[k]
  BY <1>1
<1>3. ASSUME NEW k \in Live(row'), row'[k].active
      PROVE  k \in Live(row) /\ row[k].active
  <2>1. k \in Rows /\ row'[k] # NoRow /\ row'[k].st = "ready"
    BY <1>3 DEF Live, RowsOK, RowsForm
  <2>2. k # i
    BY <2>1 DEF NotReady
  <2> QED BY <1>3, <2>1, <2>2 DEF Live
<1>4. OneActive(row')
  BY <1>3 DEF Inv, ReadyInv, OneActive
<1>5. Distinct(row')
  BY <1>1, <1>2 DEF Inv, ReadyInv, Distinct
<1> QED BY <1>1, <1>2, <1>4, <1>5

LEMMA OtherRow ==
  ASSUME PbAssumption, Inv, RowsOK(row'), NEW i \in Ids,
         \A j \in Rows \ {i} : row'[j] = row[j],
         NotReady(row, i), NotReady(row', i),
         Busy(row, i) \/ (~Busy(row', i) /\ row'[i].path \in {row[i].path, NoPath}),
         UNCHANGED <<lastRun, degraded, client, run, raced>>,
         \A k \in Ready(row) \ {Baked} : row[k].path \in disk => row[k].path \in disk'
  PROVE  ReadyInv' /\ RmOK'
<1>1. /\ Ready(row') = Ready(row) /\ i \notin Ready(row) /\ Ready(row) \subseteq Rows
      /\ \A k \in Ready(row) : row'[k] = row[k]
      /\ OneActive(row') /\ Distinct(row')
  BY OtherReady DEF Ready, Live
<1>2. \A k : Removing(k)' = Removing(k) /\ Gone(k)' = Gone(k)
  BY DEF Removing, Gone
<1>3. OnDisk' /\ InUse'
  BY <1>1, <1>2 DEF Inv, ReadyInv, OnDisk, InUse
<1>4. MarkOK'
  BY <1>1 DEF Inv, ReadyInv, MarkOK
<1>5. RmOK'
  <2> SUFFICES ASSUME NEW c \in Clients, client[c].pc = "rm", NEW k, k = client[c].id
               PROVE  /\ k # Baked /\ row'[k] # NoRow /\ ~row'[k].active
                      /\ row'[k].st \notin {"downloading", "validating"}
                      /\ ~client[c].fs => \A j \in Ready(row) \ {Baked, k} : row[j].path # row'[k].path
    BY <1>1 DEF RmOK
  <2>1. /\ k # Baked /\ row[k] # NoRow /\ ~row[k].active
        /\ row[k].st \notin {"downloading", "validating"}
        /\ ~client[c].fs => \A j \in Ready(row) \ {Baked, k} : row[j].path # row[k].path
    BY DEF Inv, ClaimInv, RmOK
  <2>2. CASE k # i
    <3>1. k \in Rows
      BY DEF Inv, TypeOK
    <3> QED BY <2>1, <2>2, <3>1
  <2>3. CASE k = i
    <3>1. ~Busy(row', i) /\ row'[i].path \in {row[i].path, NoPath} /\ i \in Rows
      BY <2>1, <2>3 DEF Busy, Rows
    <3>2. row'[i] # NoRow /\ row'[i].st \notin {"downloading", "validating", "ready"}
      BY <3>1 DEF Busy, NotReady
    <3>3. ~row'[i].active
      BY <3>1, <3>2 DEF RowsOK, RowsForm
    <3>4. \A j \in Ready(row) \ {Baked} : row[j].path # NoPath
      BY PathFacts DEF Inv, RowsOK, RowsForm, Ready, Live
    <3> QED BY <2>1, <2>3, <3>1, <3>2, <3>3, <3>4
  <2> QED BY <2>2, <2>3
<1> QED BY <1>1, <1>3, <1>4, <1>5 DEF ReadyInv

-----------------------------------------------------------------------------
(* Steps of the pull on its own row.                                         *)

LEMMA RowExcept ==
  ASSUME NEW b \in RowType, NEW s \in {"downloading", "validating", "ready", "failed", "skipped"},
         NEW d \in Digests, NEW p \in Paths, NEW m \in Nat
  PROVE  /\ [b EXCEPT !.st = s] \in RowType
         /\ [b EXCEPT !.st = s].st = s /\ [b EXCEPT !.st = s].dig = b.dig
         /\ [b EXCEPT !.st = s].path = b.path /\ [b EXCEPT !.st = s].active = b.active
         /\ [b EXCEPT !.st = s].minor = b.minor
         /\ [b EXCEPT !.dig = d, !.path = p] \in RowType
         /\ [b EXCEPT !.dig = d, !.path = p].st = b.st /\ [b EXCEPT !.dig = d, !.path = p].dig = d
         /\ [b EXCEPT !.dig = d, !.path = p].path = p
         /\ [b EXCEPT !.dig = d, !.path = p].active = b.active
         /\ [b EXCEPT !.path = p, !.st = s] \in RowType
         /\ [b EXCEPT !.path = p, !.st = s].st = s /\ [b EXCEPT !.path = p, !.st = s].path = p
         /\ [b EXCEPT !.path = p, !.st = s].dig = b.dig
         /\ [b EXCEPT !.path = p, !.st = s].active = b.active
         /\ [b EXCEPT !.path = p, !.st = s, !.minor = m] \in RowType
         /\ [b EXCEPT !.path = p, !.st = s, !.minor = m].st = s
         /\ [b EXCEPT !.path = p, !.st = s, !.minor = m].path = p
         /\ [b EXCEPT !.path = p, !.st = s, !.minor = m].active = b.active
         /\ [b EXCEPT !.minor = m, !.st = s, !.path = p] \in RowType
         /\ [b EXCEPT !.minor = m, !.st = s, !.path = p].st = s
         /\ [b EXCEPT !.minor = m, !.st = s, !.path = p].dig = b.dig
         /\ [b EXCEPT !.minor = m, !.st = s, !.path = p].path = p
         /\ [b EXCEPT !.minor = m, !.st = s, !.path = p].active = b.active
         /\ [b EXCEPT !.path = p] \in RowType
         /\ [b EXCEPT !.path = p].st = b.st /\ [b EXCEPT !.path = p].path = p
         /\ [b EXCEPT !.path = p].active = b.active
BY DEF RowType

LEMMA RowSet ==
  ASSUME PbAssumption, Inv, NEW i \in Ids, NEW b, Set(i, b), NotReady(row, i),
         row[i] # NoRow =>
           /\ b \in RowType /\ b.st # "ready" /\ b.active = row[i].active
           /\ b.st = "validating" => b.dig \in Digests /\ b.path = Dir(b.dig)
           /\ b.st = "downloading" => \A d \in Digests : b.path # Dir(d)
  PROVE  /\ RowsOK(row') /\ NotReady(row', i)
         /\ \A j \in Rows \ {i} : row'[j] = row[j]
         /\ row[i] = NoRow => row' = row
         /\ row[i] # NoRow => row'[i] = b
<1>1. RowsOK(row) /\ i \in Rows /\ i # Baked
  BY DEF Inv, PbAssumption, Rows
<1>2. CASE row[i] = NoRow
  BY <1>1, <1>2, SetFacts DEF NotReady
<1>3. CASE row[i] # NoRow
  <2>1. /\ row' \in [Rows -> {NoRow} \cup RowType] /\ row'[i] = b
        /\ \A j \in Rows \ {i} : row'[j] = row[j]
    BY <1>1, <1>3, SetFacts
  <2>2. ~b.active
    BY <1>1, <1>3 DEF NotReady, RowsOK, RowsForm
  <2>3. RowsOK(row')
    BY <1>1, <1>3, <2>1, <2>2 DEF RowsOK, RowsForm, Rows
  <2> QED BY <1>3, <2>1, <2>3 DEF NotReady
<1> QED BY <1>2, <1>3

\* What a step of the pull must show, beside what it does to its row.
PullType == [pc : Pcs, id : Rows, dig : Digests \cup {NoDigest}, fs : BOOLEAN]
Before   == {"idle", "resolve", "prune"}

Stays(p, q) == q.pc \in Before \/ (p.pc \notin Before /\ q.id = p.id /\ q.dig = p.dig)

LEMMA PullSets ==
  ASSUME PbAssumption, Inv, RowsOK(row'), pull.id \in Ids,
         \A j \in Rows \ {pull.id} : row'[j] = row[j],
         NotReady(row, pull.id), NotReady(row', pull.id),
         Busy(row, pull.id) \/ (~Busy(row', pull.id) /\ row'[pull.id].path \in {Mine.path, NoPath}),
         UnchangedByPull, passed' = passed, disk' \subseteq Paths \ {NoPath},
         \A k \in Ready(row) \ {Baked} : row[k].path \in disk => row[k].path \in disk',
         lane' \in Clients \cup {NoOne, Pipe}, LaneOK', pull' \in PullType, PullOK',
         pull'.pc \notin {"detect", "rename"},
         Stays(pull, pull') \/ \A i \in Ready(row) : row[i].dig # pull'.dig,
         ~Crashes => \/ pull'.id = pull.id
                     \/ row'[pull.id] = NoRow
                     \/ \A d \in Digests : row'[pull.id].path # Dir(d),
         ~Crashes /\ pull'.pc = "gate" => Dir(pull'.dig) \in disk'
  PROVE  Inv'
<1>1. ReadyInv' /\ RmOK'
  BY OtherRow DEF UnchangedByPull, Mine
<1>2. Ready(row') = Ready(row) /\ \A k \in Ready(row) : row'[k] = row[k]
  BY OtherReady
<1>3. TypeOK'
  BY DEF Inv, TypeOK, RowsOK, RowsForm, UnchangedByPull, PullType, Pcs
<1>4. AloneOK'
  BY <1>2 DEF Inv, PullInv, AloneOK, Stays, Before, PullType
<1>5. StagingOK'
  BY DEF StagingOK, PullAt
<1>6. NoCrashOK'
  <2> SUFFICES ASSUME ~Crashes PROVE NoCrashOK'
    BY DEF NoCrashOK
  <2>1. ASSUME NEW i \in Live(row') \ {pull'.id}, NEW d \in Digests, row'[i].path = Dir(d)
        PROVE  row'[i].st = "ready"
    <3>1. i \in Rows /\ row'[i] # NoRow
      BY DEF Live
    <3>2. i # pull.id
      BY <2>1, <3>1
    <3> QED BY <2>1, <3>1, <3>2 DEF Inv, PullInv, NoCrashOK, Live
  <2>2. Validated'
    BY <1>2 DEF Inv, PullInv, NoCrashOK, Validated
  <2> QED BY <2>1, <2>2 DEF NoCrashOK, PullAt
<1> QED BY <1>1, <1>3, <1>4, <1>5, <1>6 DEF Inv, ClaimInv, PullInv

\* Steps that leave the rows alone.
LEMMA RowsSame ==
  ASSUME Inv, UNCHANGED <<row, lastRun, degraded, client, run, raced>>,
         \A k \in Ready(row) \ {Baked} : row[k].path \in disk => row[k].path \in disk'
  PROVE  RowsOK(row') /\ ReadyInv' /\ RmOK'
<1>1. \A k : Removing(k)' = Removing(k) /\ Gone(k)' = Gone(k)
  BY DEF Removing, Gone
<1>2. OnDisk' /\ InUse'
  BY <1>1 DEF Inv, ReadyInv, OnDisk, InUse
<1>3. MarkOK' /\ RmOK'
  BY DEF Inv, ReadyInv, MarkOK, ClaimInv, RmOK
<1>4. RowsOK(row') /\ Distinct(row') /\ OneActive(row')
  BY DEF Inv, ReadyInv
<1> QED BY <1>2, <1>3, <1>4 DEF ReadyInv

LEMMA PullMoves ==
  ASSUME PbAssumption, Inv, row' = row, UnchangedByPull, passed' = passed,
         disk' \subseteq Paths \ {NoPath},
         \A k \in Ready(row) \ {Baked} : row[k].path \in disk => row[k].path \in disk',
         lane' \in Clients \cup {NoOne, Pipe}, LaneOK', pull' \in PullType, PullOK', StagingOK',
         Stays(pull, pull'),
         ~Crashes => \/ pull'.id = pull.id
                     \/ Mine = NoRow \/ Mine.st = "ready"
                     \/ \A d \in Digests : Mine.path # Dir(d),
         ~Crashes /\ (pull'.pc = "gate" \/ (pull'.pc = "rename" /\ pull'.fs)) =>
            Dir(pull'.dig) \in disk'
  PROVE  Inv'
<1>1. RowsOK(row') /\ ReadyInv' /\ RmOK'
  BY RowsSame DEF UnchangedByPull
<1>2. TypeOK'
  BY DEF Inv, TypeOK, UnchangedByPull, PullType, Pcs
<1>3. AloneOK'
  BY DEF Inv, PullInv, AloneOK, Stays, Before, PullType
<1>4. NoCrashOK'
  <2> SUFFICES ASSUME ~Crashes PROVE NoCrashOK'
    BY DEF NoCrashOK
  <2>1. ASSUME NEW i \in Live(row) \ {pull'.id}, NEW d \in Digests, row[i].path = Dir(d)
        PROVE  row[i].st = "ready"
    BY <2>1 DEF Inv, PullInv, NoCrashOK, Live, Mine
  <2>2. Validated'
    BY DEF Inv, PullInv, NoCrashOK, Validated
  <2> QED BY <2>1, <2>2 DEF NoCrashOK, PullAt
<1> QED BY <1>1, <1>2, <1>3, <1>4 DEF Inv, ClaimInv, PullInv

LEMMA MineFacts ==
  ASSUME PbAssumption, Inv
  PROVE  /\ pull.id \in Rows /\ pull \in PullType /\ RowsOK(row) /\ disk \subseteq Paths \ {NoPath}
         /\ Mine # NoRow =>
              /\ Mine \in RowType /\ Mine.path \in Paths
              /\ pull.id # Baked /\ Mine.st = "validating" =>
                   Mine.dig \in Digests /\ Mine.path = Dir(Mine.dig)
         /\ lane \in Clients \cup {NoOne, Pipe}
<1>1. pull \in PullType /\ disk \subseteq Paths \ {NoPath} /\ lane \in Clients \cup {NoOne, Pipe}
  BY DEF Inv, TypeOK, PullType, Pcs
<1>2. pull.id \in Rows
  BY <1>1 DEF PullType
<1>3. RowsOK(row)
  BY DEF Inv
<1> QED BY <1>1, <1>2, <1>3, RowFacts DEF Mine, RowsOK, RowsForm

LEMMA GoFacts ==
  ASSUME Inv, NEW pc \in Pcs, PullGo(pc)
  PROVE  /\ pull' \in PullType /\ pull'.pc = pc /\ pull'.fs = FALSE
         /\ pull'.id = pull.id /\ pull'.dig = pull.dig
BY PullGoFacts DEF PullGo, PullType, Inv

LEMMA LaneSame ==
  ASSUME Inv, UNCHANGED <<client, lane>>, pull'.pc \notin {"compose", "undoing"}
  PROVE  LaneOK'
BY DEF Inv, ClaimInv, LaneOK, PullAt

\* Staging directories are not those of ready builds.
LEMMA TmpFree ==
  ASSUME PbAssumption, Inv, NEW d
  PROVE  \A k \in Ready(row) \ {Baked} : row[k].path \in disk => row[k].path \in disk \ {Tmp(d)}
BY PathFacts DEF Inv, RowsOK, RowsForm, Ready, Live

LEMMA DirFree ==
  ASSUME PbAssumption, Inv, pull.pc \notin Before, NotReady(row, pull.id)
  PROVE  \A k \in Ready(row) \ {Baked} :
           row[k].path \in disk => row[k].path \in disk \ {Dir(pull.dig)}
<1>1. SUFFICES ASSUME NEW k \in Ready(row) \ {Baked} PROVE row[k].path # Dir(pull.dig)
  OBVIOUS
<1>2. k # pull.id /\ row[k].path = Dir(row[k].dig)
  BY DEF Inv, RowsOK, RowsForm, Ready, Live, NotReady
<1>3. row[k].dig # pull.dig
  BY <1>2 DEF Inv, PullInv, AloneOK, Before
<1> QED BY <1>2, <1>3, PathFacts

LEMMA PullFsInv == ASSUME PbAssumption, Inv, PullFs PROVE Inv'
<1>1. /\ pull' = [pull EXCEPT !.fs = TRUE] /\ ~pull.fs /\ row' = row /\ lane' = lane
      /\ passed' = passed /\ UnchangedByPull
  BY DEF PullFs
<1>2. /\ pull' \in PullType /\ pull'.pc = pull.pc /\ pull'.fs = TRUE
      /\ pull'.id = pull.id /\ pull'.dig = pull.dig
  BY <1>1, MineFacts DEF PullType
<1>3. LaneOK' /\ PullOK'
  BY <1>1, <1>2 DEF UnchangedByPull, Inv, ClaimInv, LaneOK, PullInv, PullOK, PullAt, Mine
<1>4. Stays(pull, pull')
  BY <1>2 DEF Stays
<1>5. CASE (\E pc \in {"mislabelled", "dupe", "staging"} : PullAt(pc)) /\ disk' = disk \ {Tmp(pull.dig)}
  <2>1. StagingOK'
    BY <1>2, <1>5 DEF StagingOK, PullAt
  <2>2. pull'.pc \notin {"gate", "rename"}
    BY <1>2, <1>5 DEF PullAt
  <2> QED BY <1>1, <1>2, <1>3, <1>4, <1>5, <2>1, <2>2, MineFacts, TmpFree, PullMoves
<1>6. CASE (\E pc \in {"discard", "undoing"} : PullAt(pc)) /\ disk' = disk \ {Dir(pull.dig)}
  <2>1. StagingOK'
    BY <1>2, <1>6 DEF StagingOK, PullAt
  <2>2. pull'.pc \notin {"gate", "rename"} /\ pull.pc \notin Before /\ NotReady(row, pull.id)
    BY <1>2, <1>6 DEF PullAt, Before, NotReady, Inv, PullInv, PullOK, Mine
  <2> QED BY <1>1, <1>2, <1>3, <1>4, <1>6, <2>1, <2>2, MineFacts, DirFree, PullMoves
<1>7. CASE PullAt("rename") /\ Dir(pull.dig) \notin disk
           /\ disk' = (disk \ {Tmp(pull.dig)}) \cup {Dir(pull.dig)}
  <2>1. pull.pc = "rename" /\ pull.dig \in Digests
    BY <1>7 DEF PullAt, Inv, PullInv, PullOK
  <2>2. StagingOK'
    BY <1>1, <1>2, <2>1 DEF StagingOK, PullAt, Settled, UnchangedByPull, Inv, PullInv
  <2>3. disk' \subseteq Paths \ {NoPath} /\ Dir(pull'.dig) \in disk'
    BY <1>2, <1>7, <2>1, MineFacts, PathFacts
  <2>4. \A k \in Ready(row) \ {Baked} : row[k].path \in disk => row[k].path \in disk'
    BY <1>7, TmpFree
  <2> QED BY <1>1, <1>2, <1>3, <1>4, <2>2, <2>3, <2>4, MineFacts, PullMoves
<1> QED BY <1>5, <1>6, <1>7 DEF PullFs

LEMMA ExtractedInv == ASSUME PbAssumption, Inv, Extracted PROVE Inv'
<1>1. /\ PullGo("detect") /\ disk' = disk \cup {Tmp(pull.dig)} /\ row' = row /\ lane' = lane
      /\ passed' = passed /\ UnchangedByPull /\ pull.pc = "extract" /\ Settled(Tmp(pull.dig))
  BY DEF Extracted, PullAt
<1>2. /\ pull' \in PullType /\ pull'.pc = "detect" /\ pull'.id = pull.id /\ pull'.dig = pull.dig
  BY <1>1, GoFacts DEF Pcs
<1>3. pull.dig \in Digests /\ PullOK'
  BY <1>1, <1>2 DEF Inv, PullInv, PullOK, PullAt, Mine
<1>4. LaneOK' /\ StagingOK' /\ Stays(pull, pull')
  BY <1>1, <1>2, LaneSame DEF StagingOK, PullAt, Settled, Stays, Before, UnchangedByPull
<1>5. disk' \subseteq Paths \ {NoPath}
  BY <1>1, <1>3, MineFacts, PathFacts
<1> QED BY <1>1, <1>2, <1>3, <1>4, <1>5, MineFacts, PullMoves

LEMMA DetectedInv == ASSUME PbAssumption, Inv, Detected PROVE Inv'
<1>1. /\ row' = row /\ lane' = lane /\ disk' = disk
      /\ passed' = passed /\ UnchangedByPull /\ pull.pc = "detect"
  BY DEF Detected, PullAt
<1>2. PICK pc \in {"mislabelled", "dupe", "rename"} : PullGo(pc)
  BY DEF Detected
<1>3. /\ pull' \in PullType /\ pull'.pc = pc /\ pull'.fs = FALSE
      /\ pull'.id = pull.id /\ pull'.dig = pull.dig
  BY <1>2, GoFacts DEF Pcs
<1>4. LaneOK' /\ PullOK' /\ Stays(pull, pull')
  BY <1>1, <1>3, LaneSame DEF UnchangedByPull, Inv, PullInv, PullOK, PullAt, Mine, Stays, Before
<1>5. StagingOK'
  BY <1>1, <1>3 DEF StagingOK, PullAt, Settled, UnchangedByPull, Inv, PullInv
<1> QED BY <1>1, <1>3, <1>4, <1>5, MineFacts, PullMoves

LEMMA GateFailsInv == ASSUME PbAssumption, Inv, GateFails PROVE Inv'
<1>1. /\ row' = row /\ lane' = lane /\ disk' = disk /\ PullGo("discard")
      /\ passed' = passed /\ UnchangedByPull /\ pull.pc = "gate"
  BY DEF GateFails, PullAt
<1>2. /\ pull' \in PullType /\ pull'.pc = "discard" /\ pull'.id = pull.id /\ pull'.dig = pull.dig
  BY <1>1, GoFacts DEF Pcs
<1>3. LaneOK' /\ PullOK' /\ Stays(pull, pull') /\ StagingOK'
  BY <1>1, <1>2, LaneSame DEF UnchangedByPull, Inv, PullInv, PullOK, PullAt, Mine, Stays, Before,
                              StagingOK
<1> QED BY <1>1, <1>2, <1>3, MineFacts, PullMoves

LEMMA PullComposedInv == ASSUME PbAssumption, Inv, PullComposed PROVE Inv'
<1>1. /\ row' = row /\ lane' = NoOne /\ disk' = disk /\ pull' = Idle
      /\ passed' = passed /\ UnchangedByPull /\ pull.pc = "compose" /\ lane = Pipe
  BY DEF PullComposed, PullAt, Inv, ClaimInv, LaneOK
<1>2. LaneOK'
  BY <1>1, IdleFacts DEF UnchangedByPull, Inv, ClaimInv, LaneOK, PullAt, PbAssumption
<1>3. PullOK' /\ Stays(pull, pull') /\ StagingOK' /\ pull' \in PullType /\ pull'.pc = "idle"
  BY <1>1, IdleFacts DEF PullOK, PullAt, Stays, Before, StagingOK, PullType
<1>4. Mine = NoRow \/ Mine.st = "ready"
  BY <1>1 DEF Inv, PullInv, PullOK, PullAt
<1> QED BY <1>1, <1>2, <1>3, <1>4, MineFacts, PullMoves

LEMMA UndoInv == ASSUME PbAssumption, Inv, Undo PROVE Inv'
<1>1. /\ row' = row /\ lane' = Pipe /\ disk' = disk /\ PullGo("undoing")
      /\ passed' = passed /\ UnchangedByPull /\ pull.pc = "undo" /\ lane = NoOne
  BY DEF Undo, PullAt
<1>2. /\ pull' \in PullType /\ pull'.pc = "undoing" /\ pull'.id = pull.id /\ pull'.dig = pull.dig
  BY <1>1, GoFacts DEF Pcs
<1>3. LaneOK'
  BY <1>1, <1>2 DEF UnchangedByPull, Inv, ClaimInv, LaneOK, PullAt, PbAssumption
<1>4. PullOK' /\ Stays(pull, pull') /\ StagingOK'
  BY <1>1, <1>2 DEF Inv, PullInv, PullOK, PullAt, Mine, Stays, Before, StagingOK
<1> QED BY <1>1, <1>2, <1>3, <1>4, MineFacts, PullMoves

\* What PullOK says of the row in each state, with its record type.
LEMMA AtPull ==
  ASSUME PbAssumption, Inv, ~PullAt("idle")
  PROVE  /\ pull.id \in Ids /\ pull.id \in Rows /\ row[pull.id] = Mine
         /\ pull.pc # "resolve" => pull.dig \in Digests /\ Tmp(pull.dig) \in Paths /\ Dir(pull.dig) \in Paths
         /\ Mine # NoRow => Mine \in RowType
         /\ NoPath \in Paths
BY MineFacts, PathFacts DEF Inv, PullInv, PullOK, PullAt, Mine, Rows

LEMMA ResolveFailsInv == ASSUME PbAssumption, Inv, ResolveFails PROVE Inv'
<1> DEFINE b == [Mine EXCEPT !.st = "failed"]
<1>1. /\ Set(pull.id, b) /\ pull' = Idle /\ disk' = disk /\ lane' = lane
      /\ passed' = passed /\ UnchangedByPull /\ pull.pc = "resolve"
  BY DEF ResolveFails, PullAt
<1>2. Mine # NoRow /\ Mine.st = "downloading" /\ Mine.path = NoPath
  BY <1>1 DEF Inv, PullInv, PullOK, PullAt
<1>3. pull.id \in Ids /\ row[pull.id] = Mine /\ Mine \in RowType
  BY <1>1, <1>2, AtPull DEF PullAt
<1>4. b \in RowType /\ b.st = "failed" /\ b.active = Mine.active /\ b.path = NoPath
  BY <1>2, <1>3 DEF RowType
<1>5. NotReady(row, pull.id) /\ Busy(row, pull.id)
  BY <1>2, <1>3 DEF NotReady, Busy
<1> HIDE DEF b
<1>6. /\ RowsOK(row') /\ NotReady(row', pull.id) /\ \A j \in Rows \ {pull.id} : row'[j] = row[j]
      /\ row'[pull.id] = b
  BY <1>1, <1>2, <1>3, <1>4, <1>5, RowSet
<1>7. PullOK' /\ Stays(pull, pull') /\ pull' \in PullType /\ pull'.pc = "idle" /\ LaneOK'
  BY <1>1, IdleFacts, LaneSame DEF PullOK, PullAt, Stays, Before, PullType, UnchangedByPull
<1> QED BY <1>1, <1>3, <1>4, <1>5, <1>6, <1>7, MineFacts, PathFacts, PullSets

LEMMA ResolvedInv == ASSUME PbAssumption, Inv, NEW d \in Digests, Resolved(d) PROVE Inv'
<1> DEFINE same == {i \in Ready(row) : row[i].dig = d}
<1>1. /\ disk' = disk /\ lane' = lane /\ passed' = passed /\ UnchangedByPull /\ pull.pc = "resolve"
  BY DEF Resolved, PullAt
<1>2. Mine # NoRow /\ Mine.st = "downloading" /\ Mine.path = NoPath
  BY <1>1 DEF Inv, PullInv, PullOK, PullAt
<1>3. pull.id \in Ids /\ row[pull.id] = Mine /\ Mine \in RowType /\ ~Mine.active
  BY <1>1, <1>2, AtPull, MineFacts DEF PullAt, RowsOK, RowsForm
<1>4. NotReady(row, pull.id) /\ Busy(row, pull.id)
  BY <1>2, <1>3 DEF NotReady, Busy
<1>5. pull \in PullType /\ pull.id \in Rows /\ disk \subseteq Paths \ {NoPath} /\ lane' \in Clients \cup {NoOne, Pipe}
  BY <1>1, MineFacts
<1>6. CASE same # {}
  <2>1. /\ \E i \in same : Set(pull.id, Build("skipped", d, NoPath, row[i].minor))
        /\ pull' = [pull EXCEPT !.pc = "prune", !.dig = d]
    BY <1>6 DEF Resolved
  <2>2. PICK i \in same : Set(pull.id, Build("skipped", d, NoPath, row[i].minor))
    BY <2>1
  <2> DEFINE b == Build("skipped", d, NoPath, row[i].minor)
  <2>3. i \in Rows /\ row[i] # NoRow
    BY DEF Ready, Live
  <2>4. row[i].minor \in Nat
    BY <2>3, MineFacts, RowFacts
  <2>5. b \in RowType /\ b.st = "skipped" /\ b.active = FALSE /\ b.path = NoPath
    BY <2>4, PathFacts DEF Build, RowType
  <2>6. b.active = Mine.active
    BY <1>3, <2>5 DEF RowType
  <2> HIDE DEF b
  <2>7. /\ RowsOK(row') /\ NotReady(row', pull.id) /\ \A j \in Rows \ {pull.id} : row'[j] = row[j]
        /\ row'[pull.id] = b
    BY <1>2, <1>3, <1>4, <2>2, <2>5, <2>6, RowSet DEF b
  <2>8. pull' \in PullType /\ pull'.pc = "prune" /\ pull'.id = pull.id /\ pull'.dig = d
    BY <1>5, <2>1 DEF PullType, Pcs
  <2>9. PullOK' /\ Stays(pull, pull') /\ LaneOK'
    BY <1>1, <1>3, <2>5, <2>7, <2>8, LaneSame DEF PullOK, PullAt, Mine, Stays, Before, UnchangedByPull
  <2> QED BY <1>1, <1>3, <1>4, <1>5, <2>7, <2>8, <2>9, PullSets
<1>7. CASE same = {}
  <2> DEFINE b == [Mine EXCEPT !.dig = d, !.path = Tmp(d)]
  <2>1. Set(pull.id, b) /\ pull' = [pull EXCEPT !.pc = "extract", !.dig = d]
    BY <1>7 DEF Resolved
  <2>2. /\ b \in RowType /\ b.st = "downloading" /\ b.active = Mine.active /\ b.path = Tmp(d)
        /\ b.dig = d
    <3>1. Tmp(d) \in Paths
      BY PathFacts
    <3> QED BY <1>2, <1>3, <3>1 DEF RowType
  <2> HIDE DEF b
  <2>3. /\ RowsOK(row') /\ NotReady(row', pull.id) /\ \A j \in Rows \ {pull.id} : row'[j] = row[j]
        /\ row'[pull.id] = b
    BY <1>2, <1>3, <1>4, <2>1, <2>2, PathFacts, RowSet
  <2>4. pull' \in PullType /\ pull'.pc = "extract" /\ pull'.id = pull.id /\ pull'.dig = d
    BY <1>5, <2>1 DEF PullType, Pcs
  <2>5. b # NoRow
    BY <2>2 DEF PbAssumption
  <2>6. PullOK' /\ LaneOK'
    BY <1>1, <1>3, <2>2, <2>3, <2>4, <2>5, LaneSame DEF PullOK, PullAt, Mine, UnchangedByPull
  <2>7. \A i \in Ready(row) : row[i].dig # pull'.dig
    BY <1>7, <2>4
  <2> QED BY <1>1, <1>3, <1>4, <1>5, <2>3, <2>4, <2>6, <2>7, PullSets
<1> QED BY <1>6, <1>7

\* The steps that leave the row failed or skipped share what they show.
LEMMA PullDrops ==
  ASSUME PbAssumption, Inv, NEW b, Set(pull.id, b), pull.pc \notin Before \cup {"activate", "compose"},
         Mine # NoRow => /\ b \in RowType /\ b.st \in {"failed", "skipped"}
                         /\ b.active = Mine.active /\ b.path \in {Mine.path, NoPath},
         UnchangedByPull, passed' = passed, disk' = disk,
         lane' \in Clients \cup {NoOne, Pipe}, LaneOK', pull' \in PullType, PullOK',
         pull'.pc \notin {"detect", "rename", "gate"}, Stays(pull, pull'),
         pull'.id = pull.id \/ (Mine # NoRow => \A d \in Digests : b.path # Dir(d))
  PROVE  Inv'
<1>1. pull.id \in Ids /\ row[pull.id] = Mine
  BY AtPull DEF PullAt, Before
<1>2. NotReady(row, pull.id)
  BY <1>1 DEF NotReady, Inv, PullInv, PullOK, PullAt, Before, PullType, Pcs, TypeOK
<1>3. /\ RowsOK(row') /\ NotReady(row', pull.id) /\ \A j \in Rows \ {pull.id} : row'[j] = row[j]
      /\ row[pull.id] = NoRow => row' = row
      /\ row[pull.id] # NoRow => row'[pull.id] = b
  BY <1>1, <1>2, RowSet
<1>4. Busy(row, pull.id) \/ (~Busy(row', pull.id) /\ row'[pull.id].path \in {Mine.path, NoPath})
  BY <1>1, <1>3 DEF Busy, PbAssumption
<1>5. \/ pull'.id = pull.id
      \/ row'[pull.id] = NoRow
      \/ \A d \in Digests : row'[pull.id].path # Dir(d)
  BY <1>1, <1>3
<1> QED BY <1>1, <1>2, <1>3, <1>4, <1>5, MineFacts, PullSets

LEMMA PullOwns ==
  ASSUME PbAssumption, Inv, UNCHANGED client, lane' = NoOne, PullAt("compose") \/ PullAt("undoing"),
         pull'.pc \notin {"compose", "undoing"}
  PROVE  LaneOK'
BY DEF Inv, ClaimInv, LaneOK, PullAt, PbAssumption

LEMMA ToIdle ==
  ASSUME pull' = Idle
  PROVE  PullOK' /\ Stays(pull, pull') /\ pull' \in PullType /\ pull'.pc = "idle" /\ StagingOK'
BY IdleFacts DEF PullOK, PullAt, Stays, Before, PullType, StagingOK

LEMMA DroppedInv == ASSUME PbAssumption, Inv, Dropped PROVE Inv'
<1>1. /\ lane' = lane /\ passed' = passed /\ UnchangedByPull /\ disk' = disk
      /\ pull.pc \in {"mislabelled", "dupe"}
  BY DEF Dropped, FsDone, PullAt
<1>2. /\ pull.id \in Ids /\ row[pull.id] = Mine /\ Mine # NoRow /\ Mine \in RowType /\ NoPath \in Paths
      /\ pull.dig \in Digests /\ Mine.dig = pull.dig
  BY <1>1, AtPull DEF PullAt, Inv, PullInv, PullOK
<1>3. lane' \in Clients \cup {NoOne, Pipe}
  BY <1>1, MineFacts
<1>4. CASE PullAt("mislabelled") /\ pull' = Idle /\ Set(pull.id, [Mine EXCEPT !.path = NoPath, !.st = "failed"])
  <2> DEFINE b == [Mine EXCEPT !.path = NoPath, !.st = "failed"]
  <2>1. b \in RowType /\ b.st = "failed" /\ b.active = Mine.active /\ b.path = NoPath
    BY <1>2 DEF RowType
  <2>2. Set(pull.id, b)
    BY <1>4
  <2> HIDE DEF b
  <2>3. LaneOK' /\ PullOK' /\ pull' \in PullType /\ pull'.pc = "idle" /\ Stays(pull, pull')
    BY <1>1, <1>4, ToIdle, LaneSame DEF UnchangedByPull
  <2> QED BY <1>1, <1>3, <2>1, <2>2, <2>3, PathFacts, PullDrops DEF Before
<1>5. CASE /\ PullAt("dupe") /\ PullGo("prune")
           /\ Set(pull.id, [Mine EXCEPT !.path = NoPath, !.st = "skipped", !.minor = MinorOf[pull.dig]])
  <2> DEFINE b == [Mine EXCEPT !.path = NoPath, !.st = "skipped", !.minor = MinorOf[pull.dig]]
  <2>1. MinorOf[pull.dig] \in Nat
    BY <1>2 DEF PbAssumption
  <2>2. b \in RowType /\ b.st = "skipped" /\ b.active = Mine.active /\ b.path = NoPath
    BY <1>2, <2>1 DEF RowType
  <2>3. Set(pull.id, b)
    BY <1>5
  <2> HIDE DEF b
  <2>4. /\ pull' \in PullType /\ pull'.pc = "prune" /\ pull'.id = pull.id /\ pull'.dig = pull.dig
    BY <1>5, GoFacts DEF Pcs
  <2>5. row'[pull.id] = b
    BY <1>2, <2>3, MineFacts, SetFacts
  <2>6. LaneOK' /\ PullOK' /\ Stays(pull, pull')
    BY <1>1, <1>2, <2>2, <2>4, <2>5, LaneSame DEF UnchangedByPull, PullOK, PullAt, Mine, Stays, Before
  <2> QED BY <1>1, <1>3, <2>2, <2>3, <2>4, <2>6, PullDrops DEF Before
<1> QED BY <1>4, <1>5 DEF Dropped

\* The row fails and the staging directory is to go.
LEMMA ToStaging ==
  ASSUME PbAssumption, Inv, Set(pull.id, [Mine EXCEPT !.st = "failed"]), PullGo("staging"),
         pull.pc \in {"extract", "detect", "rename", "mislabelled", "dupe"},
         disk' = disk, lane' = lane, passed' = passed, UnchangedByPull
  PROVE  Inv'
<1> DEFINE b == [Mine EXCEPT !.st = "failed"]
<1>1. /\ pull.id \in Ids /\ row[pull.id] = Mine /\ Mine # NoRow /\ Mine \in RowType
      /\ pull.dig \in Digests /\ Mine.path = Tmp(pull.dig)
  BY AtPull DEF PullAt, Inv, PullInv, PullOK
<1>2. b \in RowType /\ b.st = "failed" /\ b.active = Mine.active /\ b.path = Mine.path
  BY <1>1 DEF RowType
<1>3. Set(pull.id, b)
  OBVIOUS
<1> HIDE DEF b
<1>4. /\ pull' \in PullType /\ pull'.pc = "staging" /\ pull'.id = pull.id /\ pull'.dig = pull.dig
  BY GoFacts DEF Pcs
<1>5. row'[pull.id] = b
  BY <1>1, <1>3, MineFacts, SetFacts
<1>6. LaneOK' /\ PullOK' /\ Stays(pull, pull')
  BY <1>1, <1>2, <1>4, <1>5, LaneSame DEF UnchangedByPull, PullOK, PullAt, Mine, Stays, Before
<1> QED BY <1>2, <1>3, <1>4, <1>6, MineFacts, PullDrops DEF Before

LEMMA StagingGoneInv == ASSUME PbAssumption, Inv, StagingGone PROVE Inv'
<1>1. /\ lane' = lane /\ passed' = passed /\ UnchangedByPull /\ disk' = disk
      /\ pull.pc = "staging" /\ pull' = Idle
  BY DEF StagingGone, FsDone, RmThrows, PullAt
<1>2. LaneOK' /\ PullOK' /\ pull' \in PullType /\ pull'.pc = "idle" /\ Stays(pull, pull') /\ StagingOK'
  BY <1>1, ToIdle, LaneSame DEF UnchangedByPull
<1>3. /\ row[pull.id] = Mine /\ NoPath \in Paths
      /\ Mine # NoRow => Mine \in RowType /\ Mine.st = "failed" /\ Mine.path = Tmp(pull.dig)
  BY <1>1, AtPull DEF PullAt, Inv, PullInv, PullOK
<1>4. lane' \in Clients \cup {NoOne, Pipe} /\ disk' \subseteq Paths \ {NoPath}
  BY <1>1, MineFacts
<1>5. CASE Set(pull.id, [Mine EXCEPT !.path = IF @ = Tmp(pull.dig) THEN NoPath ELSE @])
  <2> DEFINE b == [Mine EXCEPT !.path = IF Mine.path = Tmp(pull.dig) THEN NoPath ELSE Mine.path]
  <2>1. Set(pull.id, b)
    BY <1>5
  <2>2. Mine # NoRow => b \in RowType /\ b.st = "failed" /\ b.active = Mine.active /\ b.path = NoPath
    BY <1>3 DEF RowType
  <2> HIDE DEF b
  <2> QED BY <1>1, <1>2, <1>4, <2>1, <2>2, PathFacts, PullDrops DEF Before
<1>6. CASE row' = row
  BY <1>1, <1>2, <1>3, <1>4, <1>6, PathFacts, PullMoves
<1> QED BY <1>5, <1>6 DEF StagingGone

LEMMA DiscardedInv == ASSUME PbAssumption, Inv, Discarded PROVE Inv'
<1>1. /\ lane' = lane /\ passed' = passed /\ UnchangedByPull /\ disk' = disk /\ pull.pc = "discard"
  BY DEF Discarded, FsDone, RmThrows, PullAt
<1>2. /\ pull.id \in Ids /\ row[pull.id] = Mine /\ Mine # NoRow /\ Mine \in RowType /\ NoPath \in Paths
      /\ pull.dig \in Digests
  BY <1>1, AtPull DEF PullAt, Inv, PullInv, PullOK
<1>3. lane' \in Clients \cup {NoOne, Pipe}
  BY <1>1, MineFacts
<1>4. CASE pull' = Idle /\ Set(pull.id, [Mine EXCEPT !.path = NoPath, !.st = "failed"])
  <2> DEFINE b == [Mine EXCEPT !.path = NoPath, !.st = "failed"]
  <2>1. b \in RowType /\ b.st = "failed" /\ b.active = Mine.active /\ b.path = NoPath
    BY <1>2 DEF RowType
  <2>2. Set(pull.id, b)
    BY <1>4
  <2> HIDE DEF b
  <2>3. LaneOK' /\ PullOK' /\ pull' \in PullType /\ pull'.pc = "idle" /\ Stays(pull, pull')
    BY <1>1, <1>4, ToIdle, LaneSame DEF UnchangedByPull
  <2> QED BY <1>1, <1>3, <2>1, <2>2, <2>3, PathFacts, PullDrops DEF Before
<1>5. CASE PullGo("undo") /\ Set(pull.id, [Mine EXCEPT !.st = "failed"])
  <2> DEFINE b == [Mine EXCEPT !.st = "failed"]
  <2>1. b \in RowType /\ b.st = "failed" /\ b.active = Mine.active /\ b.path = Mine.path
    BY <1>2 DEF RowType
  <2>2. Set(pull.id, b)
    BY <1>5
  <2> HIDE DEF b
  <2>3. /\ pull' \in PullType /\ pull'.pc = "undo" /\ pull'.id = pull.id /\ pull'.dig = pull.dig
    BY <1>5, GoFacts DEF Pcs
  <2>4. row'[pull.id] = b
    BY <1>2, <2>2, MineFacts, SetFacts
  <2>5. LaneOK' /\ PullOK' /\ Stays(pull, pull')
    BY <1>1, <1>2, <2>1, <2>3, <2>4, LaneSame DEF UnchangedByPull, PullOK, PullAt, Mine, Stays, Before
  <2> QED BY <1>1, <1>3, <2>1, <2>2, <2>3, <2>5, PullDrops DEF Before
<1> QED BY <1>4, <1>5 DEF Discarded

LEMMA UndoneInv == ASSUME PbAssumption, Inv, Undone PROVE Inv'
<1> DEFINE b == [Mine EXCEPT !.path = NoPath]
<1>1. /\ lane' = NoOne /\ passed' = passed /\ UnchangedByPull /\ disk' = disk
      /\ pull.pc = "undoing" /\ pull' = Idle /\ Set(pull.id, b)
  BY DEF Undone, FsDone, RmThrows, PullAt
<1>2. /\ NoPath \in Paths
      /\ Mine # NoRow => Mine \in RowType /\ Mine.st = "failed"
  BY <1>1, AtPull DEF PullAt, Inv, PullInv, PullOK
<1>3. Mine # NoRow => b \in RowType /\ b.st = "failed" /\ b.active = Mine.active /\ b.path = NoPath
  BY <1>2 DEF RowType
<1> HIDE DEF b
<1>4. PullOK' /\ pull' \in PullType /\ pull'.pc = "idle" /\ Stays(pull, pull')
  BY <1>1, ToIdle
<1>5. LaneOK'
  BY <1>1, <1>4, PullOwns DEF UnchangedByPull, PullAt
<1> QED BY <1>1, <1>3, <1>4, <1>5, PathFacts, PullDrops DEF Before

LEMMA RenamedInv == ASSUME PbAssumption, Inv, Renamed PROVE Inv'
<1> DEFINE b == [Mine EXCEPT !.minor = MinorOf[pull.dig], !.st = "validating", !.path = Dir(pull.dig)]
<1>1. /\ lane' = lane /\ passed' = passed /\ UnchangedByPull /\ disk' = disk
      /\ pull.pc = "rename" /\ pull.fs /\ PullGo("gate") /\ Set(pull.id, b)
  BY DEF Renamed, FsDone, PullAt
<1>2. /\ pull.id \in Ids /\ row[pull.id] = Mine /\ Mine # NoRow /\ Mine \in RowType
      /\ pull.dig \in Digests /\ Dir(pull.dig) \in Paths /\ Mine.st = "downloading"
      /\ Mine.dig = pull.dig
  BY <1>1, AtPull DEF PullAt, Inv, PullInv, PullOK
<1>3. MinorOf[pull.dig] \in Nat
  BY <1>2 DEF PbAssumption
<1>4. /\ b \in RowType /\ b.st = "validating" /\ b.active = Mine.active /\ b.path = Dir(pull.dig)
      /\ b.dig = pull.dig
  BY <1>2, <1>3 DEF RowType
<1> HIDE DEF b
<1>5. NotReady(row, pull.id) /\ Busy(row, pull.id)
  BY <1>2 DEF NotReady, Busy
<1>6. /\ RowsOK(row') /\ NotReady(row', pull.id) /\ \A j \in Rows \ {pull.id} : row'[j] = row[j]
      /\ row'[pull.id] = b
  BY <1>1, <1>2, <1>4, <1>5, RowSet
<1>7. /\ pull' \in PullType /\ pull'.pc = "gate" /\ pull'.id = pull.id /\ pull'.dig = pull.dig
  BY <1>1, GoFacts DEF Pcs
<1>8. b # NoRow
  BY <1>4 DEF PbAssumption
<1>9. LaneOK' /\ PullOK' /\ Stays(pull, pull')
  BY <1>1, <1>2, <1>4, <1>6, <1>7, <1>8, LaneSame DEF UnchangedByPull, PullOK, PullAt, Mine, Stays, Before
<1>10. ~Crashes => Dir(pull'.dig) \in disk'
  BY <1>1, <1>7 DEF Inv, PullInv, NoCrashOK, PullAt
<1> QED BY <1>1, <1>2, <1>5, <1>6, <1>7, <1>9, <1>10, MineFacts, PullSets

LEMMA NobodyRemoves ==
  ASSUME PbAssumption, Inv, lane = NoOne
  PROVE  \A c \in Clients : client[c].pc \notin {"rm", "compose"}
BY DEF Inv, ClaimInv, LaneOK, PbAssumption

LEMMA PullBeginsInv == ASSUME PbAssumption, Inv, Pull PROVE Inv'
<1> DEFINE b == Build("downloading", NoDigest, NoPath, 0)
<1>1. /\ disk' = disk /\ lane' = lane /\ passed' = passed /\ UnchangedByPull /\ pull.pc = "idle"
  BY DEF Pull, PullAt
<1>2. PICK i \in FreeIds : row' = [row EXCEPT ![i] = b] /\ pull' = [Idle EXCEPT !.pc = "resolve", !.id = i]
  BY DEF Pull
<1>3. i \in Ids /\ i \in Rows /\ row[i] = NoRow /\ i # Baked /\ RowsOK(row)
  BY DEF FreeIds, Rows, PbAssumption, Inv
<1>4. b \in RowType /\ b.st = "downloading" /\ b.active = FALSE /\ b.path = NoPath /\ b # NoRow
  <2>1. b \in RowType /\ b.st = "downloading" /\ b.active = FALSE /\ b.path = NoPath
    BY PathFacts DEF Build, RowType
  <2> QED BY <2>1 DEF PbAssumption
<1> HIDE DEF b
<1>5. /\ row' \in [Rows -> {NoRow} \cup RowType] /\ row'[i] = b
      /\ \A j \in Rows \ {i} : row'[j] = row[j]
  BY <1>2, <1>3, <1>4 DEF RowsOK, RowsForm
<1>6. RowsOK(row')
  BY <1>3, <1>4, <1>5, PathFacts DEF RowsOK, RowsForm, Rows
<1>7. NotReady(row, i) /\ NotReady(row', i) /\ Busy(row, i)
  BY <1>3, <1>4, <1>5 DEF NotReady, Busy
<1>8. ReadyInv' /\ RmOK'
  BY <1>1, <1>3, <1>5, <1>6, <1>7, OtherRow DEF UnchangedByPull
<1>9. Ready(row') = Ready(row) /\ \A k \in Ready(row) : row'[k] = row[k]
  BY <1>3, <1>5, <1>6, <1>7, OtherReady
<1>10. pull' \in PullType /\ pull'.pc = "resolve" /\ pull'.id = i
  <2>1. Idle \in PullType
    BY IdleFacts DEF PullType
  <2> QED BY <1>2, <1>3, <2>1 DEF PullType, Pcs
<1>11. TypeOK'
  BY <1>1, <1>5, <1>10 DEF Inv, TypeOK, UnchangedByPull, PullType, Pcs
<1>12. LaneOK'
  BY <1>1, <1>10, LaneSame DEF UnchangedByPull
<1>13. PullOK' /\ AloneOK' /\ StagingOK'
  BY <1>3, <1>4, <1>5, <1>10 DEF PullOK, PullAt, Mine, AloneOK, StagingOK
<1>14. NoCrashOK'
  <2> SUFFICES ASSUME ~Crashes PROVE NoCrashOK'
    BY DEF NoCrashOK
  <2>1. ASSUME NEW k \in Live(row') \ {i}, NEW d \in Digests, row'[k].path = Dir(d)
        PROVE  row'[k].st = "ready"
    <3>1. k \in Rows /\ row[k] = row'[k] /\ k \in Live(row)
      BY <1>5, <2>1 DEF Live
    <3>2. k # pull.id
      BY <1>1, <2>1, <3>1, PathFacts DEF Inv, PullInv, PullOK, PullAt, RowsOK, RowsForm
    <3> QED BY <2>1, <3>1, <3>2 DEF Inv, PullInv, NoCrashOK
  <2>2. Validated'
    BY <1>1, <1>9 DEF Inv, PullInv, NoCrashOK, Validated
  <2> QED BY <1>10, <2>1, <2>2 DEF NoCrashOK, PullAt
<1> QED BY <1>6, <1>8, <1>11, <1>12, <1>13, <1>14 DEF Inv, ClaimInv, PullInv

LEMMA PruneInv == ASSUME PbAssumption, Inv, Prune PROVE Inv'
<1>1. /\ disk' = disk /\ lane' = lane /\ passed' = passed /\ UnchangedByPull /\ pull.pc = "prune"
      /\ lane = NoOne /\ pull' = Idle
  BY DEF Prune, PullAt
<1>2. /\ row' \in [Rows -> {NoRow} \cup RowType] /\ RowsOK(row)
      /\ \A i \in Rows : row'[i] = row[i] \/ (row'[i] = NoRow /\ row[i] # NoRow /\ row[i].st = "skipped")
  BY DEF Prune, Inv, RowsOK, RowsForm
<1>3. Ready(row') = Ready(row) /\ \A k \in Ready(row) : row'[k] = row[k]
  BY <1>2 DEF Ready, Live
<1>4. \A k \in Live(row') : k \in Live(row) /\ row'[k] = row[k]
  BY <1>2 DEF Live
<1>5. RowsOK(row')
  BY <1>2 DEF RowsOK, RowsForm, Rows
<1>6. Distinct(row') /\ OneActive(row')
  BY <1>3, <1>4 DEF Inv, ReadyInv, Distinct, OneActive
<1>7. \A k : Removing(k)' = Removing(k) /\ Gone(k)' = Gone(k)
  BY <1>1 DEF Removing, Gone, UnchangedByPull
<1>8. OnDisk' /\ InUse' /\ MarkOK'
  BY <1>1, <1>3, <1>7 DEF Inv, ReadyInv, OnDisk, InUse, MarkOK, UnchangedByPull
<1>9. RmOK' /\ LaneOK'
  BY <1>1, NobodyRemoves, IdleFacts DEF RmOK, LaneOK, UnchangedByPull, PullAt
<1>10. PullOK' /\ pull' \in PullType /\ pull'.pc = "idle" /\ StagingOK' /\ pull'.id = Baked
  BY <1>1, ToIdle, IdleFacts
<1>11. TypeOK'
  BY <1>1, <1>2, <1>10 DEF Inv, TypeOK, UnchangedByPull, PullType, Pcs
<1>12. AloneOK'
  BY <1>10 DEF AloneOK
<1>13. NoCrashOK'
  <2> SUFFICES ASSUME ~Crashes PROVE NoCrashOK'
    BY DEF NoCrashOK
  <2>1. ASSUME NEW k \in Live(row'), NEW d \in Digests, row'[k].path = Dir(d)
        PROVE  row'[k].st = "ready"
    <3>1. k \in Live(row) /\ row'[k] = row[k]
      BY <1>4
    <3>2. k # pull.id
      BY <1>1, <2>1, <3>1, PathFacts DEF Inv, PullInv, PullOK, PullAt, Mine, Live
    <3> QED BY <2>1, <3>1, <3>2 DEF Inv, PullInv, NoCrashOK
  <2>2. Validated'
    BY <1>1, <1>3 DEF Inv, PullInv, NoCrashOK, Validated
  <2> QED BY <1>10, <2>1, <2>2 DEF NoCrashOK, PullAt
<1> QED BY <1>5, <1>6, <1>8, <1>9, <1>10, <1>11, <1>12, <1>13 DEF Inv, ReadyInv, ClaimInv, PullInv

LEMMA GatePassesInv == ASSUME PbAssumption, Inv, GatePasses PROVE Inv'
<1> DEFINE b == [Mine EXCEPT !.st = "ready"]
<1>1. /\ disk' = disk /\ lane' = lane /\ passed' = passed \cup {pull.dig} /\ UnchangedByPull
      /\ pull.pc = "gate" /\ PullGo("activate") /\ Set(pull.id, b)
      /\ Dir(pull.dig) \in disk /\ Settled(Dir(pull.dig))
  BY DEF GatePasses, PullAt
<1>2. /\ pull.id \in Ids /\ pull.id \in Rows /\ pull.id # Baked /\ row[pull.id] = Mine /\ Mine # NoRow
      /\ Mine \in RowType /\ pull.dig \in Digests /\ Mine.st = "validating" /\ Mine.dig = pull.dig
      /\ Mine.path = Dir(pull.dig) /\ ~Mine.active /\ RowsOK(row)
  BY <1>1, AtPull, MineFacts DEF PullAt, Inv, PullInv, PullOK, RowsOK, RowsForm, PbAssumption
<1>3. /\ b \in RowType /\ b.st = "ready" /\ b.active = Mine.active /\ b.path = Dir(pull.dig)
      /\ b.dig = pull.dig
  BY <1>2 DEF RowType
<1> HIDE DEF b
<1>4. /\ row' \in [Rows -> {NoRow} \cup RowType] /\ row'[pull.id] = b /\ b # NoRow
      /\ \A j \in Rows \ {pull.id} : row'[j] = row[j]
  BY <1>1, <1>2, <1>3, SetFacts DEF PbAssumption
<1>5. RowsOK(row')
  BY <1>2, <1>3, <1>4 DEF RowsOK, RowsForm, Rows
<1>6. /\ Ready(row') = Ready(row) \cup {pull.id} /\ pull.id \notin Ready(row)
      /\ \A k \in Ready(row) : row'[k] = row[k]
  BY <1>2, <1>3, <1>4 DEF Ready, Live
<1>7. \A k \in Live(row') : row'[k].active => k \in Live(row) /\ row[k].active /\ row'[k] = row[k]
  BY <1>2, <1>3, <1>4 DEF Live
<1>8. Distinct(row') /\ OneActive(row')
  <2>1. \A k \in Ready(row) : row[k].dig # pull.dig
    BY <1>1, <1>6 DEF Inv, PullInv, AloneOK
  <2>2. Distinct(row')
    BY <1>3, <1>4, <1>6, <2>1 DEF Inv, ReadyInv, Distinct
  <2> QED BY <1>7, <2>2 DEF Inv, ReadyInv, OneActive
<1>9. \A k : Removing(k)' = Removing(k) /\ Gone(k)' = Gone(k)
  BY <1>1 DEF Removing, Gone, UnchangedByPull
<1>10. OnDisk' /\ InUse'
  BY <1>1, <1>3, <1>4, <1>6, <1>9 DEF Inv, ReadyInv, OnDisk, InUse, UnchangedByPull
<1>11. MarkOK'
  BY <1>1, <1>2, <1>3, <1>4, <1>6 DEF Inv, ReadyInv, MarkOK, UnchangedByPull
<1>12. RmOK'
  <2> SUFFICES ASSUME NEW c \in Clients, client[c].pc = "rm", NEW k, k = client[c].id
               PROVE  /\ k # Baked /\ row'[k] # NoRow /\ ~row'[k].active
                      /\ row'[k].st \notin {"downloading", "validating"}
                      /\ ~client[c].fs => \A j \in Ready(row') \ {Baked, k} : row'[j].path # row'[k].path
    BY <1>1 DEF RmOK, UnchangedByPull
  <2>1. /\ k # Baked /\ row[k] # NoRow /\ ~row[k].active
        /\ row[k].st \notin {"downloading", "validating"} /\ k \in Rows
        /\ ~client[c].fs => \A j \in Ready(row) \ {Baked, k} : row[j].path # row[k].path
    BY DEF Inv, ClaimInv, RmOK, TypeOK
  <2>2. k # pull.id
    BY <1>2, <2>1
  <2>3. ~client[c].fs => row[k].path # Dir(pull.dig)
    BY <1>1 DEF Settled
  <2> QED BY <1>3, <1>4, <1>6, <2>1, <2>2, <2>3
<1>13. /\ pull' \in PullType /\ pull'.pc = "activate" /\ pull'.id = pull.id /\ pull'.dig = pull.dig
  BY <1>1, GoFacts DEF Pcs
<1>14. TypeOK'
  BY <1>1, <1>2, <1>4, <1>13 DEF Inv, TypeOK, UnchangedByPull, PullType, Pcs
<1>15. LaneOK' /\ PullOK' /\ StagingOK'
  BY <1>1, <1>2, <1>3, <1>4, <1>13, LaneSame DEF UnchangedByPull, PullOK, PullAt, Mine, StagingOK
<1>16. AloneOK'
  BY <1>1, <1>6, <1>13 DEF Inv, PullInv, AloneOK
<1>17. NoCrashOK'
  <2> SUFFICES ASSUME ~Crashes PROVE NoCrashOK'
    BY DEF NoCrashOK
  <2>1. \A k \in Live(row') \ {pull.id}, d \in Digests : row'[k].path = Dir(d) => row'[k].st = "ready"
    BY <1>4 DEF Inv, PullInv, NoCrashOK, Live
  <2>2. Validated'
    BY <1>1, <1>3, <1>4, <1>6 DEF Inv, PullInv, NoCrashOK, Validated
  <2> QED BY <1>13, <2>1, <2>2 DEF NoCrashOK, PullAt
<1> QED BY <1>5, <1>8, <1>10, <1>11, <1>12, <1>14, <1>15, <1>16, <1>17
        DEF Inv, ReadyInv, ClaimInv, PullInv

-----------------------------------------------------------------------------
(* Activation.                                                               *)

LEMMA ActiveSet ==
  ASSUME NEW b \in RowType, NEW a \in BOOLEAN
  PROVE  LET q == [b EXCEPT !.active = a] IN
         /\ q \in RowType /\ q.active = a
         /\ q.st = b.st /\ q.dig = b.dig /\ q.path = b.path /\ q.minor = b.minor
BY DEF RowType

LEMMA ExclusiveFacts ==
  ASSUME PbAssumption, NEW r, RowsForm(r), NEW w \in SUBSET Ready(r), NEW q, q = Exclusive(r, w)
  PROVE  /\ RowsOK(q) /\ Ready(q) = Ready(r) /\ Live(q) = Live(r)
         /\ \A k \in Live(r) : /\ q[k].st = r[k].st /\ q[k].dig = r[k].dig
                               /\ q[k].path = r[k].path /\ q[k].minor = r[k].minor
                               /\ q[k].active <=> k \in w
<1>1. r \in [Rows -> {NoRow} \cup RowType]
  BY DEF RowsOK, RowsForm
<1>2. ASSUME NEW k \in Rows, r[k] # NoRow
      PROVE  /\ q[k] \in RowType /\ (q[k].active <=> k \in w)
             /\ q[k].st = r[k].st /\ q[k].dig = r[k].dig
             /\ q[k].path = r[k].path /\ q[k].minor = r[k].minor
  <2>1. r[k] \in RowType /\ q[k] = [r[k] EXCEPT !.active = k \in w]
    BY <1>1, <1>2 DEF Exclusive
  <2>2. (k \in w) \in BOOLEAN
    OBVIOUS
  <2>3. /\ [r[k] EXCEPT !.active = k \in w] \in RowType
        /\ [r[k] EXCEPT !.active = k \in w].active = (k \in w)
        /\ [r[k] EXCEPT !.active = k \in w].st = r[k].st
        /\ [r[k] EXCEPT !.active = k \in w].dig = r[k].dig
        /\ [r[k] EXCEPT !.active = k \in w].path = r[k].path
        /\ [r[k] EXCEPT !.active = k \in w].minor = r[k].minor
    BY <2>1, <2>2, ActiveSet
  <2> QED BY <2>1, <2>3, Zenon
<1>3. \A k \in Rows : q[k] = NoRow <=> r[k] = NoRow
  BY <1>2 DEF Exclusive, PbAssumption
<1>4. q \in [Rows -> {NoRow} \cup RowType]
  <2>1. \A k \in Rows : q[k] \in {NoRow} \cup RowType
    BY <1>2, <1>3
  <2>2. q = [k \in Rows |-> q[k]]
    BY DEF Exclusive
  <2> QED BY <2>1, <2>2
<1>5. Live(q) = Live(r)
  BY <1>3 DEF Live
<1>6. Ready(q) = Ready(r)
  BY <1>2, <1>5 DEF Ready, Live
<1>7. RowsOK(q)
  <2>1. Baked \in Rows
    BY DEF Rows
  <2>2. q[Baked] # NoRow /\ q[Baked].st \in {"ready", "failed"} /\ q[Baked].path = NoPath
    BY <1>2, <1>3, <2>1 DEF RowsOK, RowsForm
  <2>3. \A i \in Rows : q[i] # NoRow /\ q[i].active => q[i].st = "ready"
    BY <1>2, <1>3 DEF Ready, Live
  <2>4. \A i \in Rows \ {Baked} : q[i] # NoRow =>
          /\ q[i].st \in {"ready", "validating"} => q[i].dig \in Digests /\ q[i].path = Dir(q[i].dig)
          /\ q[i].st = "downloading" => \A d \in Digests : q[i].path # Dir(d)
    <3> SUFFICES ASSUME NEW i \in Rows \ {Baked}, q[i] # NoRow
                 PROVE  /\ q[i].st \in {"ready", "validating"} => q[i].dig \in Digests /\ q[i].path = Dir(q[i].dig)
                        /\ q[i].st = "downloading" => \A d \in Digests : q[i].path # Dir(d)
      OBVIOUS
    <3>1. r[i] # NoRow
      BY <1>3
    <3>2. q[i].st = r[i].st /\ q[i].dig = r[i].dig /\ q[i].path = r[i].path
      BY <1>2, <3>1
    <3> QED BY <3>1, <3>2 DEF RowsOK, RowsForm
  <2> QED BY <1>4, <2>2, <2>3, <2>4 DEF RowsOK, RowsForm
<1> QED BY <1>2, <1>5, <1>6, <1>7 DEF Live

\* BuildRegistry.activate, in the lane: nothing is being removed.
LEMMA Activated ==
  ASSUME PbAssumption, Inv, NEW i \in Ready(row), Activate(i),
         \A c \in Clients : client[c].pc # "rm" /\ client'[c].pc # "rm",
         UNCHANGED <<disk, run>>
  PROVE  /\ RowsOK(row') /\ ReadyInv' /\ RmOK'
         /\ Ready(row') = Ready(row) /\ Live(row') = Live(row)
         /\ \A k \in Live(row) : /\ row'[k].st = row[k].st /\ row'[k].dig = row[k].dig
                                 /\ row'[k].path = row[k].path
         /\ lastRun' \in Nat /\ degraded' \in BOOLEAN /\ raced' \in BOOLEAN
<1>1. RowsOK(row) /\ {i} \in SUBSET Ready(row) /\ i \in Rows /\ row[i] # NoRow /\ Ready(row) \subseteq Live(row)
  BY DEF Inv, Ready, Live
<1>2. row[i].minor \in Nat /\ lastRun \in Nat
  BY <1>1, RowFacts DEF Inv, TypeOK
<1>3. row' = Exclusive(row, {i})
  BY DEF Activate
<1>4. /\ RowsOK(row') /\ Ready(row') = Ready(row) /\ Live(row') = Live(row)
      /\ \A k \in Live(row) : /\ row'[k].st = row[k].st /\ row'[k].dig = row[k].dig
                              /\ row'[k].path = row[k].path /\ row'[k].minor = row[k].minor
                              /\ row'[k].active <=> k \in {i}
  BY <1>1, <1>3, ExclusiveFacts DEF RowsOK
<1>5. Distinct(row') /\ OneActive(row')
  BY <1>1, <1>4 DEF Inv, ReadyInv, Distinct, OneActive
<1>6. \A k : ~Removing(k) /\ ~Removing(k)' /\ ~Gone(k) /\ ~Gone(k)'
  BY DEF Removing, Gone
<1>7. OnDisk' /\ InUse'
  BY <1>1, <1>4, <1>6 DEF Inv, ReadyInv, OnDisk, InUse
<1>8. lastRun' = IF row[i].minor < lastRun THEN row[i].minor ELSE lastRun
  BY DEF Activate, Downgrade
<1>9. degraded' \in BOOLEAN /\ raced' \in BOOLEAN
  BY DEF Activate
<1>10. MarkOK'
  <2> SUFFICES ASSUME ~raced', ~degraded', NEW k \in Ready(row'), row'[k].active
               PROVE  /\ row'[k].minor >= lastRun'
                      /\ \A s \in Starts : run'[s].pc = "starting" => run'[s].minor <= row'[k].minor
    BY DEF MarkOK
  <2>1. k = i /\ row'[k].minor = row[i].minor
    BY <1>1, <1>4
  <2>2. \A s \in Starts : run[s].pc = "starting" => run[s].minor \in Nat /\ ~(run[s].minor > row[i].minor)
    BY DEF Activate, Inv, TypeOK
  <2> QED BY <1>2, <1>8, <2>1, <2>2
<1>11. RmOK'
  BY DEF RmOK
<1> QED BY <1>2, <1>4, <1>5, <1>7, <1>8, <1>9, <1>10, <1>11 DEF ReadyInv

\* What the pull relies on, when others delete rows that are not busy, or activate some.
LEMMA PullKept ==
  ASSUME PbAssumption, Inv, UNCHANGED <<pull, passed>>, RowsOK(row'),
         \A k \in Live(row') : /\ k \in Live(row) /\ row'[k].st = row[k].st
                               /\ row'[k].dig = row[k].dig /\ row'[k].path = row[k].path,
         \A k \in Live(row) \ Live(row') : row[k].st \notin {"downloading", "validating"}
  PROVE  PullOK' /\ AloneOK' /\ (disk' = disk => NoCrashOK')
<1>1. pull.id \in Rows
  BY MineFacts
<1>2. Mine' # NoRow => Mine # NoRow /\ Mine'.st = Mine.st /\ Mine'.dig = Mine.dig /\ Mine'.path = Mine.path
  BY <1>1 DEF Mine, Live
<1>3. Mine # NoRow /\ Mine.st \in {"downloading", "validating"} => Mine' # NoRow
  BY <1>1 DEF Mine, Live
<1>4. PullOK'
  BY <1>2, <1>3 DEF Inv, PullInv, PullOK, PullAt
<1>5. \A k \in Ready(row') : k \in Ready(row) /\ row'[k].dig = row[k].dig
  BY DEF Ready
<1>6. AloneOK'
  BY <1>5 DEF Inv, PullInv, AloneOK
<1>7. ASSUME disk' = disk PROVE NoCrashOK'
  BY <1>5, <1>7 DEF Inv, PullInv, NoCrashOK, Validated, PullAt
<1> QED BY <1>4, <1>6, <1>7

LEMMA SettledKept ==
  ASSUME PbAssumption, Inv, UNCHANGED pull, disk' = disk,
         \A c \in Clients : client'[c].pc = "rm" /\ ~client'[c].fs =>
           /\ client[c].pc = "rm" /\ ~client[c].fs
           /\ row'[client'[c].id].path = row[client[c].id].path
  PROVE  StagingOK'
BY DEF Inv, PullInv, StagingOK, PullAt, Settled

LEMMA AutoActivateInv == ASSUME PbAssumption, Inv, AutoActivate PROVE Inv'
<1>1. /\ pull.pc = "activate" /\ lane = NoOne /\ UNCHANGED <<disk, client, run, passed>>
  BY DEF AutoActivate, PullAt
<1>2. \A c \in Clients : client[c].pc \notin {"rm", "compose"}
  BY <1>1, NobodyRemoves
<1>3. Mine = NoRow \/ Mine.st = "ready"
  BY <1>1 DEF Inv, PullInv, PullOK, PullAt
<1>4. CASE Mine = NoRow
  <2>1. PullGo("undo") /\ UNCHANGED <<row, lastRun, degraded, lane, raced>>
    BY <1>4 DEF AutoActivate
  <2>2. /\ pull' \in PullType /\ pull'.pc = "undo" /\ pull'.id = pull.id /\ pull'.dig = pull.dig
    BY <2>1, GoFacts DEF Pcs
  <2>3. LaneOK' /\ PullOK' /\ Stays(pull, pull') /\ StagingOK' /\ UnchangedByPull
    BY <1>1, <1>4, <2>1, <2>2, LaneSame DEF Inv, PullInv, PullOK, PullAt, Mine, Stays, Before,
                                            StagingOK, UnchangedByPull
  <2> QED BY <1>1, <2>1, <2>2, <2>3, MineFacts, PullMoves
<1>5. CASE Mine # NoRow
  <2>1. lane' = Pipe /\ PullGo("compose")
    BY <1>5 DEF AutoActivate
  <2>2. /\ pull' \in PullType /\ pull'.pc = "compose" /\ pull'.id = pull.id /\ pull'.dig = pull.dig
    BY <2>1, GoFacts DEF Pcs
  <2>3. LaneOK' /\ StagingOK'
    BY <1>1, <1>2, <2>1, <2>2 DEF LaneOK, PullAt, StagingOK
  <2>4. CASE UNCHANGED <<row, lastRun, degraded, raced>>
    <3>1. PullOK' /\ Stays(pull, pull') /\ UnchangedByPull
      BY <1>1, <1>3, <2>2, <2>4 DEF Inv, PullInv, PullOK, PullAt, Mine, Stays, Before, UnchangedByPull
    <3> QED BY <1>1, <2>1, <2>2, <2>3, <2>4, <3>1, MineFacts, PullMoves
  <2>5. CASE Activate(pull.id)
    <3>1. pull.id \in Ready(row)
      BY <1>3, <1>5, MineFacts DEF Mine, Ready, Live
    <3>2. /\ RowsOK(row') /\ ReadyInv' /\ RmOK' /\ Ready(row') = Ready(row) /\ Live(row') = Live(row)
          /\ \A k \in Live(row) : /\ row'[k].st = row[k].st /\ row'[k].dig = row[k].dig
                                  /\ row'[k].path = row[k].path
          /\ lastRun' \in Nat /\ degraded' \in BOOLEAN /\ raced' \in BOOLEAN
      BY <1>1, <1>2, <2>5, <3>1, Activated
    <3>3. TypeOK'
      BY <1>1, <2>1, <2>2, <3>2 DEF Inv, TypeOK, RowsOK, RowsForm, PullType, Pcs
    <3>4. PullOK'
      BY <1>1, <1>3, <1>5, <2>2, <3>1, <3>2 DEF Inv, PullInv, PullOK, PullAt, Mine, Ready
    <3>5. AloneOK'
      BY <1>1, <2>2, <3>2 DEF Inv, PullInv, AloneOK, Ready
    <3>6. NoCrashOK'
      BY <1>1, <2>2, <3>2 DEF Inv, PullInv, NoCrashOK, Validated, PullAt, Ready
    <3> QED BY <2>3, <3>2, <3>3, <3>4, <3>5, <3>6 DEF Inv, ClaimInv, PullInv
  <2> QED BY <1>5, <2>4, <2>5 DEF AutoActivate
<1> QED BY <1>4, <1>5

LEMMA PipelineInv == ASSUME PbAssumption, Inv, Pipeline PROVE Inv'
<1>1. CASE StagingThrows
  <2>1. pull.pc \in {"extract", "detect", "rename"}
    BY <1>1 DEF StagingThrows, PullAt
  <2> QED BY <1>1, <2>1, ToStaging DEF StagingThrows
<1>2. CASE DropThrows
  BY <1>2, ToStaging DEF DropThrows, PullAt, RmThrows
<1> QED BY <1>1, <1>2, PullBeginsInv, PullFsInv, ResolveFailsInv, ResolvedInv, PruneInv, ExtractedInv,
           DetectedInv, DroppedInv, RenamedInv, StagingGoneInv, GatePassesInv, GateFailsInv,
           DiscardedInv, AutoActivateInv, PullComposedInv, UndoInv, UndoneInv DEF Pipeline

-----------------------------------------------------------------------------
(* activate() and remove().                                                  *)

ClientType == [pc : {"idle", "queued", "rm", "compose"}, kind : {"none", "activate", "remove"},
               id : Rows, consent : BOOLEAN, fs : BOOLEAN]

LEMMA ClientSet ==
  ASSUME Inv, NEW c \in Clients, NEW q \in ClientType, client' = [client EXCEPT ![c] = q]
  PROVE  /\ client' \in [Clients -> ClientType] /\ client'[c] = q
         /\ \A e \in Clients \ {c} : client'[e] = client[e]
<1>1. client \in [Clients -> ClientType]
  BY DEF Inv, TypeOK, ClientType
<1> QED BY <1>1

LEMMA ClientGo ==
  ASSUME Inv, NEW c \in Clients
  PROVE  /\ \A pc \in {"idle", "queued", "rm", "compose"} :
              LET q == [client[c] EXCEPT !.pc = pc] IN
              q \in ClientType /\ q.pc = pc /\ q.id = client[c].id /\ q.fs = client[c].fs
         /\ LET q == [client[c] EXCEPT !.fs = TRUE] IN
              q \in ClientType /\ q.pc = client[c].pc /\ q.id = client[c].id /\ q.fs = TRUE
         /\ client[c].id \in Rows
<1>1. client[c] \in ClientType
  BY DEF Inv, TypeOK, ClientType
<1> QED BY <1>1 DEF ClientType

\* A client begins or ends a call, with the rows and the volume as they are.
LEMMA ClientStep ==
  ASSUME PbAssumption, Inv, NEW c \in Clients, NEW q \in ClientType, client' = [client EXCEPT ![c] = q],
         UNCHANGED <<row, disk, lastRun, degraded, pull, run, passed, raced>>,
         q.pc \in {"idle", "queued"},
         \/ lane' = lane /\ client[c].pc \notin {"rm", "compose"}
         \/ lane' = NoOne /\ client[c].pc = "compose"
         \/ lane' = NoOne /\ client[c].pc = "rm" /\ ~client[c].fs
  PROVE  Inv'
<1>1. /\ client' \in [Clients -> ClientType] /\ client'[c] = q
      /\ \A e \in Clients \ {c} : client'[e] = client[e]
  BY ClientSet
<1>2. \A e \in Clients : client'[e].pc = "rm" => client[e] = client'[e] /\ e # c
  BY <1>1
<1>3. \A k : (Removing(k)' => Removing(k)) /\ (Gone(k)' => Gone(k))
  BY <1>2 DEF Removing, Gone
<1>4. \A k : Gone(k) => Gone(k)'
  BY <1>1 DEF Gone
<1>5. OnDisk' /\ InUse'
  BY <1>3, <1>4 DEF Inv, ReadyInv, OnDisk, InUse
<1>6. Distinct(row') /\ OneActive(row') /\ MarkOK' /\ RowsOK(row')
  BY DEF Inv, ReadyInv, MarkOK
<1>7. RmOK'
  BY <1>2 DEF Inv, ClaimInv, RmOK
<1>8. LaneOK'
  <2>1. CASE lane' = lane
    BY <1>1, <2>1 DEF Inv, ClaimInv, LaneOK, PullAt
  <2>2. CASE lane' = NoOne /\ client[c].pc \in {"rm", "compose"}
    BY <1>1, <2>2 DEF Inv, ClaimInv, LaneOK, PullAt, PbAssumption
  <2> QED BY <2>1, <2>2
<1>9. TypeOK'
  BY <1>1 DEF Inv, TypeOK, ClientType
<1>10. PullOK' /\ AloneOK' /\ NoCrashOK'
  BY <1>6, PullKept
<1>11. StagingOK'
  BY <1>2, SettledKept
<1> QED BY <1>5, <1>6, <1>7, <1>8, <1>9, <1>10, <1>11 DEF Inv, ReadyInv, ClaimInv, PullInv

LEMMA AskInv ==
  ASSUME PbAssumption, Inv, NEW c \in Clients, NEW k \in {"activate", "remove"}, NEW i \in Rows,
         NEW consent \in BOOLEAN, Ask(c, k, i, consent)
  PROVE  Inv'
<1> DEFINE q == [Quiet EXCEPT !.pc = "queued", !.kind = k, !.id = i, !.consent = consent]
<1>1. q \in ClientType /\ q.pc = "queued"
  BY DEF Quiet, ClientType
<1>2. /\ client' = [client EXCEPT ![c] = q] /\ client[c].pc = "idle"
      /\ UNCHANGED <<row, disk, lastRun, degraded, pull, lane, run, passed, raced>>
  BY DEF Ask
<1> HIDE DEF q
<1> QED BY <1>1, <1>2, ClientStep

LEMMA RefuseInv == ASSUME PbAssumption, Inv, NEW c \in Clients, Refuse(c) PROVE Inv'
<1>1. /\ client' = [client EXCEPT ![c] = Quiet] /\ client[c].pc = "queued"
      /\ UNCHANGED <<row, disk, lastRun, degraded, pull, lane, run, passed, raced>>
  BY DEF Refuse, MyTurn
<1> QED BY <1>1, QuietFacts, ClientStep DEF ClientType

LEMMA ComposedInv == ASSUME PbAssumption, Inv, NEW c \in Clients, Composed(c) PROVE Inv'
<1>1. /\ client' = [client EXCEPT ![c] = Quiet] /\ client[c].pc = "compose" /\ lane' = NoOne
      /\ UNCHANGED <<row, disk, lastRun, degraded, pull, run, passed, raced>>
  BY DEF Composed
<1> QED BY <1>1, QuietFacts, ClientStep DEF ClientType

\* The lane is taken by c.
LEMMA LaneTaken ==
  ASSUME PbAssumption, Inv, NEW c \in Clients, lane = NoOne, lane' = c, pull' = pull,
         \A e \in Clients \ {c} : client'[e] = client[e]
  PROVE  LaneOK'
BY NobodyRemoves DEF Inv, ClaimInv, LaneOK, PullAt, PbAssumption

LEMMA ActivateTurnInv == ASSUME PbAssumption, Inv, NEW c \in Clients, ActivateTurn(c) PROVE Inv'
<1>1. /\ lane = NoOne /\ lane' = c /\ Activate(client[c].id) /\ client[c].id \in Ready(row)
      /\ client' = [client EXCEPT ![c] = [client[c] EXCEPT !.pc = "compose"]]
      /\ UNCHANGED <<disk, pull, run, passed>>
  BY DEF ActivateTurn, MyTurn, Activatable
<1>2. /\ client' \in [Clients -> ClientType] /\ client'[c].pc = "compose"
      /\ \A e \in Clients \ {c} : client'[e] = client[e]
  BY <1>1, ClientGo, ClientSet
<1>3. \A e \in Clients : client[e].pc # "rm" /\ client'[e].pc # "rm"
  BY <1>1, <1>2, NobodyRemoves
<1>4. /\ RowsOK(row') /\ ReadyInv' /\ RmOK' /\ Ready(row') = Ready(row) /\ Live(row') = Live(row)
      /\ \A k \in Live(row) : /\ row'[k].st = row[k].st /\ row'[k].dig = row[k].dig
                              /\ row'[k].path = row[k].path
      /\ lastRun' \in Nat /\ degraded' \in BOOLEAN /\ raced' \in BOOLEAN
  BY <1>1, <1>3, Activated
<1>5. TypeOK'
  BY <1>1, <1>2, <1>4 DEF Inv, TypeOK, RowsOK, RowsForm, ClientType
<1>6. PullOK' /\ AloneOK' /\ NoCrashOK'
  BY <1>1, <1>4, PullKept
<1>7. LaneOK' /\ StagingOK'
  BY <1>1, <1>2, <1>3, LaneTaken, SettledKept
<1> QED BY <1>4, <1>5, <1>6, <1>7 DEF Inv, ClaimInv, PullInv

\* DELETE of a row that is not active.
LEMMA RowDeleted ==
  ASSUME PbAssumption, Inv, NEW i \in Rows \ {Baked}, row' = [row EXCEPT ![i] = NoRow],
         UNCHANGED <<lastRun, degraded, run, raced>>
  PROVE  /\ RowsOK(row') /\ Distinct(row') /\ OneActive(row') /\ MarkOK'
         /\ Ready(row') = Ready(row) \ {i} /\ Live(row') = Live(row) \ {i}
         /\ \A k \in Rows \ {i} : row'[k] = row[k]
<1>1. row \in [Rows -> {NoRow} \cup RowType] /\ Baked \in Rows
  BY DEF Inv, RowsOK, RowsForm, Rows
<1>2. row'[i] = NoRow /\ \A k \in Rows \ {i} : row'[k] = row[k]
  BY <1>1
<1>3. Ready(row') = Ready(row) \ {i} /\ Live(row') = Live(row) \ {i}
  BY <1>2 DEF Ready, Live
<1>4. RowsOK(row')
  BY <1>1, <1>2 DEF Inv, RowsOK, RowsForm
<1>5. Distinct(row') /\ OneActive(row') /\ MarkOK'
  BY <1>2, <1>3 DEF Inv, ReadyInv, Distinct, OneActive, MarkOK, Ready, Live
<1> QED BY <1>2, <1>3, <1>4, <1>5

LEMMA RemoveInv == ASSUME PbAssumption, Inv, NEW c \in Clients, Remove(c) PROVE Inv'
<1> DEFINE i == client[c].id
<1>1. /\ lane = NoOne /\ lane' = c /\ Removable(i)
      /\ UNCHANGED <<disk, lastRun, degraded, pull, run, passed, raced>>
  BY DEF Remove, MyTurn
<1>2. i \in Rows /\ \A e \in Clients : client[e].pc \notin {"rm", "compose"}
  BY <1>1, ClientGo, NobodyRemoves
<1>3. /\ row[i] # NoRow /\ i # Baked /\ ~row[i].active
      /\ row[i].st \notin {"downloading", "validating"}
      /\ row[i].path # NoPath => \A s \in Starts : run[s].path # row[i].path
  BY <1>1 DEF Removable
<1>4. \A k : ~Removing(k) /\ ~Gone(k)
  BY <1>2 DEF Removing, Gone
<1> HIDE DEF i
<1>5. CASE client' = [client EXCEPT ![c].pc = "rm"] /\ row' = row /\ Claims(row, row[i].path) = {i}
           /\ row[i].path # NoPath
  <2>1. client' = [client EXCEPT ![c] = [client[c] EXCEPT !.pc = "rm"]]
    BY <1>5
  <2>2. /\ client' \in [Clients -> ClientType] /\ client'[c].pc = "rm" /\ client'[c].id = i
        /\ \A e \in Clients \ {c} : client'[e] = client[e]
    BY <2>1, ClientGo, ClientSet DEF i
  <2>3. \A k \in Live(row) \ {i} : row[k].path # row[i].path
    BY <1>5 DEF Claims
  <2>4. RmOK'
    BY <1>2, <1>3, <1>5, <2>2, <2>3 DEF RmOK, Ready
  <2>5. \A k : Removing(k)' => k = i
    BY <1>2, <2>2 DEF Removing
  <2>6. InUse'
    <3> SUFFICES ASSUME NEW s \in Starts, run[s].path # NoPath
                 PROVE  \E k \in Ready(row) \ {Baked} : row[k].path = run[s].path /\ ~Removing(k)'
      BY <1>1, <1>5 DEF InUse
    <3>1. PICK k \in Ready(row) \ {Baked} : row[k].path = run[s].path
      BY DEF Inv, ReadyInv, InUse
    <3>2. k # i
      BY <1>3, <1>5, <3>1
    <3> QED BY <2>5, <3>1, <3>2
  <2>7. OnDisk'
    BY <1>1, <1>4, <1>5 DEF Inv, ReadyInv, OnDisk
  <2>8. RowsOK(row') /\ Distinct(row') /\ OneActive(row') /\ MarkOK'
    BY <1>1, <1>5 DEF Inv, ReadyInv, MarkOK
  <2>9. TypeOK'
    BY <1>1, <1>5, <2>2 DEF Inv, TypeOK, ClientType
  <2>10. PullOK' /\ AloneOK' /\ NoCrashOK'
    BY <1>1, <1>5, <2>8, PullKept
  <2>11. StagingOK'
    <3>1. ASSUME PullAt("detect") \/ PullAt("rename") PROVE row[i].path # Tmp(pull.dig)
      <4>1. /\ row[pull.id] # NoRow /\ row[pull.id].st = "downloading"
            /\ row[pull.id].path = Tmp(pull.dig) /\ pull.id \in Rows
        BY <3>1, MineFacts DEF Inv, PullInv, PullOK, PullAt, Mine
      <4>2. pull.id # i /\ pull.id \in Live(row)
        BY <1>3, <4>1 DEF Live
      <4> QED BY <2>3, <4>1, <4>2
    <3>2. \A e \in Clients : client'[e].pc = "rm" => client'[e].id = i
      BY <1>2, <2>2
    <3> QED BY <1>1, <1>5, <3>1, <3>2 DEF Inv, PullInv, StagingOK, PullAt, Settled
  <2> QED BY <1>1, <2>2, <2>4, <2>6, <2>7, <2>8, <2>9, <2>10, <2>11, LaneTaken
          DEF Inv, ReadyInv, ClaimInv, PullInv
<1>6. CASE client' = [client EXCEPT ![c].pc = "compose"] /\ row' = [row EXCEPT ![i] = NoRow]
  <2>1. client' = [client EXCEPT ![c] = [client[c] EXCEPT !.pc = "compose"]]
    BY <1>6
  <2>2. /\ client' \in [Clients -> ClientType] /\ client'[c].pc = "compose"
        /\ \A e \in Clients \ {c} : client'[e] = client[e]
    BY <2>1, ClientGo, ClientSet
  <2>3. \A e \in Clients : client'[e].pc # "rm"
    BY <1>2, <2>2
  <2>4. /\ RowsOK(row') /\ Distinct(row') /\ OneActive(row') /\ MarkOK'
        /\ Ready(row') = Ready(row) \ {i} /\ Live(row') = Live(row) \ {i}
        /\ \A k \in Rows \ {i} : row'[k] = row[k]
    BY <1>1, <1>2, <1>3, <1>6, RowDeleted
  <2>5. \A k : ~Removing(k)' /\ ~Gone(k)'
    BY <2>3 DEF Removing, Gone
  <2>6. Ready(row) \subseteq Rows
    BY DEF Ready, Live
  <2>7. OnDisk'
    BY <1>1, <1>4, <2>4, <2>6 DEF Inv, ReadyInv, OnDisk
  <2>8. InUse'
    <3> SUFFICES ASSUME NEW s \in Starts, run[s].path # NoPath
                 PROVE  \E k \in Ready(row') \ {Baked} : row'[k].path = run[s].path
      BY <1>1, <2>5 DEF InUse
    <3>1. PICK k \in Ready(row) \ {Baked} : row[k].path = run[s].path
      BY DEF Inv, ReadyInv, InUse
    <3>2. k # i
      BY <1>3, <3>1
    <3> QED BY <2>4, <2>6, <3>1, <3>2
  <2>9. TypeOK' /\ RmOK'
    BY <1>1, <2>2, <2>3, <2>4 DEF Inv, TypeOK, ClientType, RowsOK, RowsForm, RmOK
  <2>10. PullOK' /\ AloneOK' /\ NoCrashOK'
    <3>1. /\ \A k \in Live(row') : k \in Live(row) /\ row'[k] = row[k]
          /\ \A k \in Live(row) \ Live(row') : row[k].st \notin {"downloading", "validating"}
      BY <1>3, <2>4 DEF Live
    <3> QED BY <1>1, <2>4, <3>1, PullKept
  <2>11. StagingOK' /\ LaneOK'
    BY <1>1, <2>2, <2>3, SettledKept, LaneTaken
  <2> QED BY <2>4, <2>7, <2>8, <2>9, <2>10, <2>11 DEF Inv, ReadyInv, ClaimInv, PullInv
<1> QED BY <1>5, <1>6 DEF Remove, i

LEMMA RemoveFsInv == ASSUME PbAssumption, Inv, NEW c \in Clients, RemoveFs(c) PROVE Inv'
<1> DEFINE i == client[c].id
<1>1. /\ client[c].pc = "rm" /\ ~client[c].fs
      /\ client' = [client EXCEPT ![c] = [client[c] EXCEPT !.fs = TRUE]]
      /\ disk' = disk \ {row[i].path}
      /\ UNCHANGED <<row, lastRun, degraded, pull, lane, run, passed, raced>>
  BY DEF RemoveFs
<1>2. i \in Rows
  BY ClientGo
<1> HIDE DEF i
<1>3. /\ client' \in [Clients -> ClientType] /\ client'[c].pc = "rm" /\ client'[c].fs = TRUE
      /\ client'[c].id = client[c].id /\ client'[c].id = i
      /\ \A e \in Clients \ {c} : client'[e] = client[e]
  BY <1>1, ClientGo, ClientSet DEF i
<1>4. /\ i # Baked /\ row[i] # NoRow /\ ~row[i].active
      /\ row[i].st \notin {"downloading", "validating"}
      /\ \A k \in Ready(row) \ {Baked, i} : row[k].path # row[i].path
  BY <1>1 DEF Inv, ClaimInv, RmOK, i
<1>5. \A k : Removing(k)' = Removing(k)
  BY <1>1, <1>3 DEF Removing
<1>6. \A k : Gone(k) => Gone(k)'
  BY <1>1, <1>3 DEF Gone
<1>7. \A k : k = i => Gone(k)'
  BY <1>3 DEF Gone
<1>8. OnDisk' /\ InUse'
  BY <1>1, <1>4, <1>5, <1>6, <1>7 DEF Inv, ReadyInv, OnDisk, InUse
<1>9. Distinct(row') /\ OneActive(row') /\ MarkOK' /\ RowsOK(row')
  BY <1>1 DEF Inv, ReadyInv, MarkOK
<1>10. RmOK' /\ LaneOK'
  BY <1>1, <1>3 DEF Inv, ClaimInv, RmOK, LaneOK, PullAt
<1>11. TypeOK'
  BY <1>1, <1>3 DEF Inv, TypeOK, ClientType
<1>12. PullOK' /\ AloneOK'
  BY <1>1, <1>9, PullKept
<1>13. StagingOK'
  <2>1. Settled(Tmp(pull.dig)) => Settled(Tmp(pull.dig))'
    BY <1>1, <1>3 DEF Settled
  <2>2. Settled(Tmp(pull.dig)) => row[i].path # Tmp(pull.dig)
    BY <1>1 DEF Settled, i
  <2> QED BY <1>1, <2>1, <2>2 DEF Inv, PullInv, StagingOK, PullAt
<1>14. NoCrashOK'
  <2> SUFFICES ASSUME ~Crashes PROVE NoCrashOK'
    BY DEF NoCrashOK
  <2>1. ASSUME PullAt("gate") \/ (PullAt("rename") /\ pull.fs) PROVE row[i].path # Dir(pull.dig)
    <3>1. /\ row[pull.id] # NoRow /\ row[pull.id].st \in {"downloading", "validating"}
          /\ pull.dig \in Digests
      BY <2>1 DEF Inv, PullInv, PullOK, PullAt, Mine
    <3>2. SUFFICES ASSUME row[i].path = Dir(pull.dig) PROVE FALSE
      OBVIOUS
    <3>3. i # pull.id /\ i \in Live(row)
      BY <1>2, <1>4, <3>1 DEF Live
    <3>4. row[i].st = "ready"
      BY <3>1, <3>2, <3>3 DEF Inv, PullInv, NoCrashOK
    <3>5. row[i].path = Dir(row[i].dig) /\ i \in Ready(row)
      BY <1>2, <1>4, <3>4 DEF Inv, RowsOK, RowsForm, Ready, Live
    <3>6. row[i].dig = pull.dig
      BY <3>2, <3>5, PathFacts
    <3> QED BY <2>1, <3>3, <3>5, <3>6 DEF Inv, PullInv, AloneOK, PullAt
  <2> QED BY <1>1, <2>1 DEF Inv, PullInv, NoCrashOK, PullAt, Validated
<1> QED BY <1>8, <1>9, <1>10, <1>11, <1>12, <1>13, <1>14 DEF Inv, ReadyInv, ClaimInv, PullInv

LEMMA RemovedInv == ASSUME PbAssumption, Inv, NEW c \in Clients, Removed(c) PROVE Inv'
<1> DEFINE i == client[c].id
<1>1. /\ client[c].pc = "rm"
      /\ UNCHANGED <<disk, lastRun, degraded, pull, run, passed, raced>>
  BY DEF Removed
<1>2. i \in Rows
  BY ClientGo
<1>3. /\ i # Baked /\ row[i] # NoRow /\ ~row[i].active
      /\ row[i].st \notin {"downloading", "validating"}
  BY <1>1 DEF Inv, ClaimInv, RmOK
<1>4. CASE ~client[c].fs /\ client' = [client EXCEPT ![c] = Quiet] /\ lane' = NoOne /\ row' = row
  BY <1>1, <1>4, QuietFacts, ClientStep DEF ClientType
<1> HIDE DEF i
<1>5. CASE row' = [row EXCEPT ![i] = NoRow] /\ client' = [client EXCEPT ![c].pc = "compose"]
           /\ lane' = lane
  <2>1. client' = [client EXCEPT ![c] = [client[c] EXCEPT !.pc = "compose"]]
    BY <1>5
  <2>2. /\ client' \in [Clients -> ClientType] /\ client'[c].pc = "compose"
        /\ \A e \in Clients \ {c} : client'[e] = client[e]
    BY <2>1, ClientGo, ClientSet
  <2>3. lane = c /\ \A e \in Clients : client'[e].pc # "rm"
    BY <1>1, <2>2 DEF Inv, ClaimInv, LaneOK
  <2>4. /\ RowsOK(row') /\ Distinct(row') /\ OneActive(row') /\ MarkOK'
        /\ Ready(row') = Ready(row) \ {i} /\ Live(row') = Live(row) \ {i}
        /\ \A k \in Rows \ {i} : row'[k] = row[k]
    BY <1>1, <1>2, <1>3, <1>5, RowDeleted
  <2>5. \A k : ~Removing(k)' /\ ~Gone(k)'
    BY <2>3 DEF Removing, Gone
  <2>6. \A e \in Clients : client[e].pc = "rm" => e = c
    BY <2>3 DEF Inv, ClaimInv, LaneOK
  <2>7. Removing(i) /\ \A k : Gone(k) => k = i
    BY <1>1, <2>6 DEF Removing, Gone, i
  <2>8. Ready(row) \subseteq Rows
    BY DEF Ready, Live
  <2>9. OnDisk'
    BY <1>1, <2>4, <2>7, <2>8 DEF Inv, ReadyInv, OnDisk
  <2>10. InUse'
    <3> SUFFICES ASSUME NEW s \in Starts, run[s].path # NoPath
                 PROVE  \E k \in Ready(row') \ {Baked} : row'[k].path = run[s].path
      BY <1>1, <2>5 DEF InUse
    <3>1. PICK k \in Ready(row) \ {Baked} : row[k].path = run[s].path /\ ~Removing(k)
      BY DEF Inv, ReadyInv, InUse
    <3>2. k # i
      BY <2>7, <3>1
    <3> QED BY <2>4, <2>8, <3>1, <3>2
  <2>11. TypeOK' /\ RmOK'
    BY <1>1, <1>5, <2>2, <2>3, <2>4 DEF Inv, TypeOK, ClientType, RowsOK, RowsForm, RmOK
  <2>12. PullOK' /\ AloneOK' /\ NoCrashOK'
    <3>1. /\ \A k \in Live(row') : k \in Live(row) /\ row'[k] = row[k]
          /\ \A k \in Live(row) \ Live(row') : row[k].st \notin {"downloading", "validating"}
      BY <1>3, <2>4 DEF Live
    <3> QED BY <1>1, <2>4, <3>1, PullKept
  <2>13. StagingOK'
    BY <1>1, <2>3, SettledKept
  <2>14. LaneOK'
    BY <1>1, <1>5, <2>2, <2>3 DEF Inv, ClaimInv, LaneOK, PullAt, PbAssumption
  <2> QED BY <2>4, <2>9, <2>10, <2>11, <2>12, <2>13, <2>14 DEF Inv, ReadyInv, ClaimInv, PullInv
<1> QED BY <1>4, <1>5 DEF Removed, i

-----------------------------------------------------------------------------
(* Endpoints.                                                                *)

RunType == [pc : {"down", "starting", "running"}, path : Paths, minor : Nat]

LEMMA RunStep ==
  ASSUME PbAssumption, Inv, UnchangedByRun, NEW s \in Starts, NEW q \in RunType,
         run' = [run EXCEPT ![s] = q], lastRun' \in Nat, MarkOK',
         q.path # NoPath => \E i \in Ready(row) \ {Baked} : row[i].path = q.path /\ ~Removing(i)
  PROVE  Inv'
<1>1. run \in [Starts -> RunType]
  BY DEF Inv, TypeOK, RunType
<1>2. run' \in [Starts -> RunType] /\ run'[s] = q /\ \A t \in Starts \ {s} : run'[t] = run[t]
  BY <1>1
<1>3. TypeOK'
  BY <1>2 DEF Inv, TypeOK, RunType, UnchangedByRun
<1>4. \A k : Removing(k)' = Removing(k) /\ Gone(k)' = Gone(k)
  BY DEF Removing, Gone, UnchangedByRun
<1>5. OnDisk' /\ InUse'
  BY <1>2, <1>4 DEF Inv, ReadyInv, OnDisk, InUse, UnchangedByRun
<1>6. RowsOK(row') /\ Distinct(row') /\ OneActive(row') /\ RmOK' /\ LaneOK'
  BY DEF Inv, ReadyInv, ClaimInv, RmOK, LaneOK, PullAt, UnchangedByRun
<1>7. PullInv'
  BY DEF Inv, PullInv, PullOK, AloneOK, StagingOK, NoCrashOK, PullAt, Mine, Settled, Validated,
         UnchangedByRun
<1> QED BY <1>3, <1>5, <1>6, <1>7 DEF Inv, ReadyInv, ClaimInv

LEMMA StartInv == ASSUME PbAssumption, Inv, NEW s \in Starts, Start(s) PROVE Inv'
<1>1. lastRun' = lastRun /\ UnchangedByRun
  BY DEF Start
<1>2. PICK i \in Ready(row) :
        /\ row[i].active
        /\ run' = [run EXCEPT ![s] = [pc |-> "starting", path |-> row[i].path, minor |-> row[i].minor]]
  BY DEF Start
<1> DEFINE q == [pc |-> "starting", path |-> row[i].path, minor |-> row[i].minor]
<1>3. i \in Rows /\ row[i] # NoRow /\ RowsOK(row)
  BY DEF Ready, Live, Inv
<1>4. q \in RunType /\ q.pc = "starting" /\ q.path = row[i].path /\ q.minor = row[i].minor
      /\ row[i].minor \in Nat
  BY <1>3, RowFacts DEF RunType
<1> HIDE DEF q
<1>5. run \in [Starts -> RunType] /\ lastRun \in Nat
  BY DEF Inv, TypeOK, RunType
<1>6. run'[s] = q /\ \A t \in Starts \ {s} : run'[t] = run[t]
  BY <1>2, <1>5 DEF q
<1>7. MarkOK'
  <2> SUFFICES ASSUME ~raced, ~degraded, NEW k \in Ready(row), row[k].active
               PROVE  /\ row[k].minor >= lastRun
                      /\ \A t \in Starts : run'[t].pc = "starting" => run'[t].minor <= row[k].minor
    BY <1>1 DEF MarkOK, UnchangedByRun
  <2>1. k = i
    BY <1>2, <1>3 DEF Inv, ReadyInv, OneActive, Ready, Live
  <2>2. /\ row[k].minor >= lastRun
        /\ \A t \in Starts : run[t].pc = "starting" => run[t].minor <= row[k].minor
    BY DEF Inv, ReadyInv, MarkOK
  <2> QED BY <1>4, <1>6, <2>1, <2>2
<1>8. ASSUME q.path # NoPath
      PROVE  \E k \in Ready(row) \ {Baked} : row[k].path = q.path /\ ~Removing(k)
  <2>1. i # Baked
    BY <1>4, <1>8 DEF Inv, RowsOK, RowsForm
  <2>2. ~Removing(i)
    BY <1>2 DEF Removing, Inv, ClaimInv, RmOK
  <2> QED BY <1>4, <2>1, <2>2
<1> QED BY <1>1, <1>2, <1>4, <1>5, <1>7, <1>8, RunStep DEF q

LEMMA StartedInv == ASSUME PbAssumption, Inv, NEW s \in Starts, Started(s) PROVE Inv'
<1> DEFINE q == [run[s] EXCEPT !.pc = "running"]
<1>1. /\ run[s].pc = "starting" /\ run' = [run EXCEPT ![s] = q] /\ UnchangedByRun
      /\ lastRun' = IF run[s].minor > lastRun THEN run[s].minor ELSE lastRun
  BY DEF Started
<1>2. run \in [Starts -> RunType] /\ lastRun \in Nat
  BY DEF Inv, TypeOK, RunType
<1>3. q \in RunType /\ q.pc = "running" /\ q.path = run[s].path /\ run[s].minor \in Nat
  BY <1>2 DEF RunType
<1> HIDE DEF q
<1>4. run'[s] = q /\ \A t \in Starts \ {s} : run'[t] = run[t]
  BY <1>1, <1>2
<1>5. MarkOK'
  <2> SUFFICES ASSUME ~raced, ~degraded, NEW k \in Ready(row), row[k].active
               PROVE  /\ row[k].minor >= lastRun'
                      /\ \A t \in Starts : run'[t].pc = "starting" => run'[t].minor <= row[k].minor
    BY <1>1 DEF MarkOK, UnchangedByRun
  <2>1. /\ row[k].minor >= lastRun
        /\ \A t \in Starts : run[t].pc = "starting" => run[t].minor <= row[k].minor
    BY DEF Inv, ReadyInv, MarkOK
  <2>2. row[k].minor \in Nat
    BY RowFacts DEF Inv, Ready, Live
  <2> QED BY <1>1, <1>2, <1>3, <1>4, <2>1, <2>2
<1>6. lastRun' \in Nat
  BY <1>1, <1>2, <1>3
<1>7. q.path # NoPath => \E k \in Ready(row) \ {Baked} : row[k].path = q.path /\ ~Removing(k)
  BY <1>3 DEF Inv, ReadyInv, InUse
<1> QED BY <1>1, <1>3, <1>5, <1>6, <1>7, RunStep

LEMMA StopInv == ASSUME PbAssumption, Inv, NEW s \in Starts, Stop(s) PROVE Inv'
<1>1. run' = [run EXCEPT ![s] = Down] /\ UnchangedByRun /\ lastRun' = lastRun
  BY DEF Stop
<1>2. Down \in RunType /\ Down.pc = "down" /\ Down.path = NoPath
  BY PathFacts DEF Down, RunType
<1>3. run \in [Starts -> RunType] /\ lastRun \in Nat
  BY DEF Inv, TypeOK, RunType
<1>4. run'[s] = Down /\ \A t \in Starts \ {s} : run'[t] = run[t]
  BY <1>1, <1>3
<1>5. MarkOK'
  BY <1>1, <1>2, <1>4 DEF Inv, ReadyInv, MarkOK, UnchangedByRun
<1> QED BY <1>1, <1>2, <1>3, <1>5, RunStep

-----------------------------------------------------------------------------
(* A restart: the boot passes, one after the other.                           *)

LEMMA SeededFacts ==
  ASSUME PbAssumption, Inv, NEW m \in BakedMinors, NEW r, r = Seeded(row, m)
  PROVE  RowsForm(r) /\ \A k \in Rows \ {Baked} : r[k] = row[k]
<1>1. RowsForm(row) /\ Baked \in Rows /\ m \in Nat
  BY DEF Inv, RowsOK, Rows, PbAssumption
<1>2. row \in [Rows -> {NoRow} \cup RowType] /\ row[Baked] \in RowType /\ row[Baked].path = NoPath
  BY <1>1 DEF RowsForm
<1> DEFINE b == IF m = 0 THEN [row[Baked] EXCEPT !.st = "failed"]
                         ELSE [row[Baked] EXCEPT !.st = "ready", !.minor = m]
<1>3. r = [row EXCEPT ![Baked] = b]
  BY DEF Seeded
<1>4. b \in RowType /\ b.st \in {"ready", "failed"} /\ b.path = NoPath
  BY <1>1, <1>2 DEF RowType
<1>5. b # NoRow
  BY <1>4 DEF PbAssumption
<1> HIDE DEF b
<1>6. /\ r \in [Rows -> {NoRow} \cup RowType] /\ r[Baked] = b
      /\ \A k \in Rows \ {Baked} : r[k] = row[k]
  BY <1>1, <1>2, <1>3, <1>4
<1> QED BY <1>1, <1>4, <1>5, <1>6 DEF RowsForm

LEMMA AdoptedFacts ==
  ASSUME PbAssumption, Inv, NEW r, RowsForm(r), \A k \in Rows \ {Baked} : r[k] = row[k],
         NEW id \in [Unclaimed -> FreeIds],
         \A d, e \in Unclaimed : d # e => id[d] # id[e],
         NEW q, q = Adopted(r, id)
  PROVE  /\ RowsForm(q) /\ Distinct(q)
         /\ \A i \in Ready(q) \ {Baked} : q[i].path \in disk
<1>1. /\ r \in [Rows -> {NoRow} \cup RowType] /\ Unclaimed \subseteq Digests
      /\ \A d \in Unclaimed : id[d] \in Ids /\ id[d] \in Rows /\ id[d] # Baked
      /\ Baked \in Rows
  BY DEF RowsForm, Unclaimed, FreeIds, Rows, PbAssumption
<1>2. ASSUME NEW d \in Unclaimed
      PROVE  q[id[d]] = Build("ready", d, Dir(d), MinorOf[d])
  <2> DEFINE e == CHOOSE e \in Unclaimed : id[e] = id[d]
  <2>1. e \in Unclaimed /\ id[e] = id[d]
    OBVIOUS
  <2>2. e = d
    BY <2>1
  <2>3. q[id[d]] = Build("ready", e, Dir(e), MinorOf[e])
    BY <1>1, <1>2 DEF Adopted
  <2> QED BY <2>2, <2>3
<1>3. ASSUME NEW i \in Rows, \A d \in Unclaimed : id[d] # i
      PROVE  q[i] = IF i # Baked /\ i \in Ready(r) /\ r[i].path \notin disk
                    THEN [r[i] EXCEPT !.st = "failed"] ELSE r[i]
  BY <1>3 DEF Adopted
<1>4. ASSUME NEW d \in Unclaimed
      PROVE  /\ q[id[d]] \in RowType /\ q[id[d]] # NoRow
             /\ q[id[d]].st = "ready" /\ q[id[d]].dig = d /\ q[id[d]].path = Dir(d)
             /\ d \in Digests /\ Dir(d) \in disk /\ Claims(row, Dir(d)) = {}
  <2>1. d \in Digests /\ Dir(d) \in disk /\ Claims(row, Dir(d)) = {}
    BY DEF Unclaimed
  <2>2. MinorOf[d] \in Nat /\ Dir(d) \in Paths
    BY <2>1, PathFacts DEF PbAssumption
  <2>3. LET b == Build("ready", d, Dir(d), MinorOf[d])
        IN  b \in RowType /\ b.st = "ready" /\ b.dig = d /\ b.path = Dir(d)
    BY <2>1, <2>2 DEF Build, RowType
  <2> QED BY <1>2, <2>1, <2>3 DEF PbAssumption
<1>5. ASSUME NEW i \in Rows, \A d \in Unclaimed : id[d] # i
      PROVE  /\ q[i] \in {NoRow} \cup RowType /\ (q[i] = NoRow <=> r[i] = NoRow)
             /\ q[i] # NoRow =>
                  /\ q[i].dig = r[i].dig /\ q[i].path = r[i].path
                  /\ q[i].st = r[i].st \/ (i # Baked /\ q[i].st = "failed")
                  /\ q[i].st = "ready" => r[i].st = "ready" /\ (i # Baked => r[i].path \in disk)
  <2>1. r[i] \in {NoRow} \cup RowType
    BY <1>1
  <2>2. CASE i # Baked /\ i \in Ready(r) /\ r[i].path \notin disk
    <3>1. r[i] \in RowType
      BY <2>1, <2>2 DEF Ready, Live
    <3>2. /\ [r[i] EXCEPT !.st = "failed"] \in RowType
          /\ [r[i] EXCEPT !.st = "failed"].st = "failed"
          /\ [r[i] EXCEPT !.st = "failed"].dig = r[i].dig
          /\ [r[i] EXCEPT !.st = "failed"].path = r[i].path
      BY <3>1 DEF RowType
    <3> QED BY <1>3, <1>5, <2>2, <3>1, <3>2 DEF PbAssumption
  <2>3. CASE ~(i # Baked /\ i \in Ready(r) /\ r[i].path \notin disk)
    BY <1>3, <1>5, <2>1, <2>3 DEF Ready, Live
  <2> QED BY <2>2, <2>3
<1>6. RowsForm(q)
  <2>1. q \in [Rows -> {NoRow} \cup RowType]
    <3>1. \A i \in Rows : q[i] \in {NoRow} \cup RowType
      BY <1>4, <1>5
    <3>2. q = [i \in Rows |-> q[i]]
      BY DEF Adopted
    <3> QED BY <3>1, <3>2
  <2>2. q[Baked] # NoRow /\ q[Baked].st \in {"ready", "failed"} /\ q[Baked].path = NoPath
    BY <1>1, <1>5 DEF RowsForm
  <2>3. ASSUME NEW i \in Rows \ {Baked}, q[i] # NoRow
        PROVE  /\ q[i].st \in {"ready", "validating"} => q[i].dig \in Digests /\ q[i].path = Dir(q[i].dig)
               /\ q[i].st = "downloading" => \A d \in Digests : q[i].path # Dir(d)
    <3>1. CASE \E d \in Unclaimed : id[d] = i
      BY <1>4, <3>1
    <3>2. CASE \A d \in Unclaimed : id[d] # i
      BY <1>5, <2>3, <3>2 DEF RowsForm
    <3> QED BY <3>1, <3>2
  <2> QED BY <2>1, <2>2, <2>3 DEF RowsForm
<1>7. ASSUME NEW i \in Ready(q) \ {Baked}
      PROVE  \/ \E d \in Unclaimed : id[d] = i
             \/ (\A d \in Unclaimed : id[d] # i) /\ i \in Ready(row) /\ q[i].dig = row[i].dig
                /\ q[i].path = row[i].path /\ q[i].path \in disk
  BY <1>5 DEF Ready, Live
<1>8. \A i \in Ready(q) \ {Baked} : q[i].path \in disk
  BY <1>4, <1>7
<1>9. Distinct(q)
  <2> SUFFICES ASSUME NEW i \in Ready(q) \ {Baked}, NEW j \in Ready(q) \ {Baked}, q[i].dig = q[j].dig
               PROVE  i = j
    BY DEF Distinct
  <2>1. ASSUME NEW k \in Ready(row) \ {Baked}, NEW d \in Unclaimed PROVE row[k].dig # d
    <3>1. row[k].path = Dir(row[k].dig) /\ k \in Live(row)
      BY DEF Ready, Live, Inv, RowsOK, RowsForm
    <3> QED BY <1>4, <3>1 DEF Claims
  <2>2. CASE (\E d \in Unclaimed : id[d] = i) /\ (\E d \in Unclaimed : id[d] = j)
    BY <1>4, <2>2
  <2>3. CASE (\A d \in Unclaimed : id[d] # i) /\ (\A d \in Unclaimed : id[d] # j)
    BY <1>7, <2>3 DEF Inv, ReadyInv, Distinct
  <2>4. CASE (\E d \in Unclaimed : id[d] = i) /\ (\A d \in Unclaimed : id[d] # j)
    BY <1>4, <1>7, <2>1, <2>4
  <2>5. CASE (\E d \in Unclaimed : id[d] = j) /\ (\A d \in Unclaimed : id[d] # i)
    BY <1>4, <1>7, <2>1, <2>5
  <2> QED BY <2>2, <2>3, <2>4, <2>5
<1> QED BY <1>6, <1>8, <1>9

LEMMA FailedFacts ==
  ASSUME PbAssumption, NEW r, RowsForm(r), NEW kept, NEW q, q = Failed(r, kept)
  PROVE  /\ RowsForm(q) /\ Ready(q) = Ready(r)
         /\ \A i \in Ready(r) : q[i] = r[i]
<1>1. r \in [Rows -> {NoRow} \cup RowType] /\ Baked \in Rows /\ NoPath \in Paths
  BY PathFacts DEF RowsForm, Rows
<1>2. \A i \in Rows \ Interrupted(r) : q[i] = r[i]
  BY DEF Failed
<1>3. ASSUME NEW i \in Interrupted(r)
      PROVE  q[i] \in RowType /\ q[i].st = "failed" /\ q[i] # NoRow /\ i \in Rows \ {Baked}
             /\ r[i].st \in {"downloading", "validating"}
  <2>1. i \in Rows /\ r[i] # NoRow /\ r[i].st \in {"downloading", "validating"}
    BY DEF Interrupted, Live
  <2>2. r[i] \in RowType /\ i # Baked
    BY <1>1, <2>1 DEF RowsForm
  <2>3. PICK p : /\ q[i] = [r[i] EXCEPT !.st = "failed", !.path = p]
                 /\ p \in {NoPath, r[i].path}
    BY <2>1 DEF Failed
  <2>4. p \in Paths
    BY <1>1, <2>2, <2>3 DEF RowType
  <2>5. q[i] \in RowType /\ q[i].st = "failed"
    BY <2>2, <2>3, <2>4 DEF RowType
  <2> QED BY <2>1, <2>2, <2>5 DEF PbAssumption
<1>4. Ready(q) = Ready(r) /\ \A i \in Ready(r) : q[i] = r[i]
  BY <1>2, <1>3 DEF Ready, Live
<1>5. RowsForm(q)
  <2>1. \A i \in Rows : q[i] \in {NoRow} \cup RowType
    BY <1>1, <1>2, <1>3
  <2>2. q \in [Rows -> {NoRow} \cup RowType]
    BY <2>1 DEF Failed
  <2>3. q[Baked] = r[Baked]
    BY <1>1, <1>2, <1>3
  <2>4. ASSUME NEW i \in Rows \ {Baked}, q[i] # NoRow
        PROVE  /\ q[i].st \in {"ready", "validating"} => q[i].dig \in Digests /\ q[i].path = Dir(q[i].dig)
               /\ q[i].st = "downloading" => \A d \in Digests : q[i].path # Dir(d)
    <3>1. CASE i \in Interrupted(r)
      BY <1>3, <3>1
    <3>2. CASE i \notin Interrupted(r)
      BY <1>2, <2>4, <3>2 DEF RowsForm
    <3> QED BY <3>1, <3>2
  <2> QED BY <2>2, <2>3, <2>4 DEF RowsForm
<1> QED BY <1>4, <1>5

LEMMA WinnersFacts ==
  ASSUME NEW r, NEW w \in Winners(r)
  PROVE  w \in SUBSET Ready(r) /\ \A i, j \in w : i = j
<1> DEFINE best == {i \in Ready(r) : \A j \in Ready(r) :
                 r[i].minor > r[j].minor \/ (r[i].minor = r[j].minor /\ (i = Baked \/ j # Baked))}
<1>1. w \in IF best = {} THEN {{}} ELSE {{i} : i \in best}
  BY DEF Winners
<1>2. best \subseteq Ready(r)
  OBVIOUS
<1> HIDE DEF best
<1> QED BY <1>1, <1>2

LEMMA OldsFacts ==
  ASSUME NEW r, NEW old \in Olds(r)
  PROVE  old \subseteq Ready(r) \ {Baked} /\ \A i \in old : ~r[i].active
<1> DEFINE idle == {i \in Ready(r) \ {Baked} : ~r[i].active}
           news == {i \in idle : \A j \in idle : r[i].minor >= r[j].minor}
<1>1. old \in IF idle = {} THEN {{}} ELSE {idle \ {i} : i \in news}
  BY DEF Olds
<1>2. idle \subseteq Ready(r) \ {Baked} /\ \A i \in idle : ~r[i].active
  OBVIOUS
<1> HIDE DEF idle, news
<1> QED BY <1>1, <1>2

\* gcCandidates' rows go; the active build is not one of them.
LEMMA CollectedFacts ==
  ASSUME PbAssumption, NEW r, RowsOK(r), NEW old \in Olds(r), NEW q, q = Collected(r, old)
  PROVE  /\ RowsOK(q) /\ Ready(q) = Ready(r) \ old
         /\ \A i \in Live(q) : i \in Live(r) /\ q[i] = r[i]
<1>1. /\ r \in [Rows -> {NoRow} \cup RowType] /\ Baked \in Rows /\ Ready(r) \subseteq Rows
      /\ old \subseteq Ready(r) \ {Baked}
  BY OldsFacts DEF RowsOK, RowsForm, Rows, Ready, Live
<1>2. \A i \in Rows : q[i] = IF i \in old THEN NoRow ELSE r[i]
  BY DEF Collected
<1>3. q \in [Rows -> {NoRow} \cup RowType]
  BY <1>1, <1>2 DEF Collected
<1>4. RowsOK(q)
  BY <1>1, <1>2, <1>3 DEF RowsOK, RowsForm
<1> QED BY <1>1, <1>2, <1>4 DEF Ready, Live

\* What a boot leaves, given the rows after adoption and after the choice of the active
\* build, the directories whose rm() failed, and the builds collected.
Boots(id, adopted, kept, resolved, old) ==
  /\ \A d, e \in Unclaimed : d # e => id[d] # id[e]
  /\ row' = Collected(resolved, old)
  /\ degraded' = BelowMark(resolved)
  /\ disk' = disk \ ({Tmp(d) : d \in Digests}
                       \cup {adopted[i].path : i \in Reclaimed(adopted, kept)}
                       \cup {resolved[i].path : i \in old})

LEMMA RestartInv == ASSUME PbAssumption, Inv, Restart PROVE Inv'
<1>1. /\ Crashes /\ pull' = Idle /\ client' = [c \in Clients |-> Quiet] /\ lane' = NoOne
      /\ run' = [s \in Starts |-> Down] /\ raced' = FALSE /\ UNCHANGED <<lastRun, passed>>
  BY DEF Restart
<1>2. PICK m \in BakedMinors, id \in [Unclaimed -> FreeIds] :
        \E adopted \in {Adopted(Seeded(row, m), id)} :
        \E kept \in SUBSET (IF RmFails THEN Interrupted(adopted) ELSE {}) :
        \E failed \in {Failed(adopted, kept)} :
        \E resolved \in {Exclusive(failed, w) : w \in Winners(failed)} :
        \E old \in Olds(resolved) : Boots(id, adopted, kept, resolved, old)
  BY DEF Restart, Boots
<1>3. PICK adopted, kept, failed :
        /\ adopted = Adopted(Seeded(row, m), id) /\ failed = Failed(adopted, kept)
        /\ \E resolved \in {Exclusive(failed, w) : w \in Winners(failed)} :
             \E old \in Olds(resolved) : Boots(id, adopted, kept, resolved, old)
  BY <1>2
<1>4. PICK w, resolved :
        /\ w \in Winners(failed) /\ resolved = Exclusive(failed, w)
        /\ \E old \in Olds(resolved) : Boots(id, adopted, kept, resolved, old)
  BY <1>3
<1>5. PICK old \in Olds(resolved) : Boots(id, adopted, kept, resolved, old)
  BY <1>4
<1>6. RowsForm(Seeded(row, m)) /\ \A k \in Rows \ {Baked} : Seeded(row, m)[k] = row[k]
  BY SeededFacts
<1>7. \A d, e \in Unclaimed : d # e => id[d] # id[e]
  BY <1>5 DEF Boots
<1>8. RowsForm(adopted) /\ Distinct(adopted) /\ \A i \in Ready(adopted) \ {Baked} : adopted[i].path \in disk
  BY <1>3, <1>6, <1>7, AdoptedFacts
<1>9. RowsForm(failed) /\ Ready(failed) = Ready(adopted) /\ \A i \in Ready(adopted) : failed[i] = adopted[i]
  BY <1>3, <1>8, FailedFacts
<1>10. w \in SUBSET Ready(failed) /\ \A i, j \in w : i = j
  BY <1>4, WinnersFacts
<1>11. /\ RowsOK(resolved) /\ Ready(resolved) = Ready(adopted) /\ Live(resolved) = Live(failed)
       /\ \A k \in Live(failed) : /\ resolved[k].st = failed[k].st /\ resolved[k].dig = failed[k].dig
                                  /\ resolved[k].path = failed[k].path
                                  /\ resolved[k].active <=> k \in w
  BY <1>4, <1>9, <1>10, ExclusiveFacts
<1>12. \A i \in Ready(adopted) : resolved[i].path = adopted[i].path /\ resolved[i].dig = adopted[i].dig
  <2>1. Ready(failed) \subseteq Live(failed)
    BY DEF Ready
  <2> QED BY <1>9, <1>11, <2>1
<1>13. row' = Collected(resolved, old)
  BY <1>5 DEF Boots
<1>14. /\ RowsOK(row') /\ Ready(row') = Ready(resolved) \ old
       /\ \A i \in Live(row') : i \in Live(resolved) /\ row'[i] = resolved[i]
  BY <1>11, <1>13, CollectedFacts
<1>15. Ready(row') \subseteq Live(row') /\ old \subseteq Ready(resolved) \ {Baked}
  BY OldsFacts DEF Ready
<1>16. Distinct(row') /\ OneActive(row')
  <2>1. Distinct(row')
    BY <1>8, <1>11, <1>12, <1>14, <1>15 DEF Distinct
  <2>2. OneActive(row')
    BY <1>10, <1>11, <1>14 DEF OneActive
  <2> QED BY <2>1, <2>2
<1>17. OnDisk'
  <2> SUFFICES ASSUME NEW i \in Ready(row') \ {Baked} PROVE row'[i].path \in disk'
    BY DEF OnDisk
  <2>1. /\ i \in Ready(adopted) \ {Baked} /\ i \notin old /\ row'[i].path = adopted[i].path
        /\ adopted[i].path \in disk
    BY <1>8, <1>11, <1>12, <1>14, <1>15
  <2>2. i \in Live(adopted) /\ i \in Rows /\ adopted[i].path = Dir(adopted[i].dig)
    BY <1>8, <2>1 DEF Ready, Live, RowsForm
  <2>3. \A d : adopted[i].path # Tmp(d)
    BY <2>2, PathFacts
  <2>4. ASSUME NEW k \in Reclaimed(adopted, kept) PROVE adopted[k].path # adopted[i].path
    <3>1. Claims(adopted, adopted[k].path) \subseteq Interrupted(adopted)
      BY DEF Reclaimed
    <3>2. i \notin Interrupted(adopted)
      BY <2>1 DEF Interrupted, Ready
    <3> QED BY <2>2, <3>1, <3>2 DEF Claims
  <2>5. ASSUME NEW k \in old PROVE resolved[k].path # adopted[i].path
    <3>1. k \in Ready(adopted) \ {Baked} /\ k # i /\ resolved[k].path = adopted[k].path
      BY <1>11, <1>12, <1>15, <2>1
    <3>2. adopted[k].path = Dir(adopted[k].dig) /\ adopted[k].dig # adopted[i].dig
      BY <1>8, <2>1, <3>1 DEF Distinct, RowsForm, Ready, Live
    <3> QED BY <2>2, <3>1, <3>2, PathFacts
  <2>6. disk' = disk \ ({Tmp(d) : d \in Digests}
                          \cup {adopted[k].path : k \in Reclaimed(adopted, kept)}
                          \cup {resolved[k].path : k \in old})
    BY <1>5 DEF Boots
  <2> QED BY <2>1, <2>3, <2>4, <2>5, <2>6
<1>18. \A s \in Starts : run'[s].pc = "down" /\ run'[s].path = NoPath
  BY <1>1 DEF Down
<1>19. InUse'
  BY <1>18 DEF InUse
<1>20. MarkOK'
  <2> SUFFICES ASSUME ~degraded', NEW i \in Ready(row'), row'[i].active
               PROVE  row'[i].minor >= lastRun'
    BY <1>18 DEF MarkOK
  <2>1. i \in Ready(resolved) /\ row'[i] = resolved[i] /\ i \in Rows /\ resolved[i] # NoRow
    BY <1>14, <1>15 DEF Ready, Live
  <2>2. ~(resolved[i].minor < lastRun)
    BY <1>5, <2>1 DEF Boots, BelowMark
  <2>3. resolved[i].minor \in Nat /\ lastRun \in Nat
    BY <1>11, <2>1, RowFacts DEF Inv, TypeOK
  <2> QED BY <1>1, <2>1, <2>2, <2>3
<1>21. \A c \in Clients : client'[c].pc = "idle"
  BY <1>1, QuietFacts
<1>22. RmOK' /\ LaneOK'
  BY <1>1, <1>21, IdleFacts DEF RmOK, LaneOK, PullAt
<1>23. PullInv'
  BY <1>1, IdleFacts DEF PullInv, PullOK, AloneOK, StagingOK, NoCrashOK, PullAt
<1>24. TypeOK'
  <2>1. disk' \subseteq disk
    BY <1>5 DEF Boots
  <2>2. degraded' \in BOOLEAN
    BY <1>5 DEF Boots, BelowMark
  <2>3. raced' \in BOOLEAN
    BY <1>1, Zenon
  <2>4. client' \in [Clients -> ClientType]
    BY <1>1, QuietFacts DEF ClientType
  <2>5. run' \in [Starts -> RunType]
    BY <1>1, PathFacts DEF RunType, Down
  <2>6. row' \in [Rows -> {NoRow} \cup RowType]
    BY <1>14 DEF RowsOK, RowsForm
  <2>7. pull' \in PullType
    BY <1>1, IdleFacts DEF PullType
  <2> QED BY <1>1, <2>1, <2>2, <2>3, <2>4, <2>5, <2>6, <2>7
          DEF Inv, TypeOK, ClientType, RunType, PullType, Pcs
<1> QED BY <1>14, <1>16, <1>17, <1>19, <1>20, <1>22, <1>23, <1>24 DEF Inv, ReadyInv, ClaimInv

-----------------------------------------------------------------------------
(* The theorems.                                                             *)

LEMMA InitInv == ASSUME PbAssumption, Init PROVE Inv
<1>1. PICK m \in BakedMinors \ {0} :
        row = [i \in Rows |-> IF i = Baked
                              THEN [Build("ready", NoDigest, NoPath, m) EXCEPT !.active = TRUE]
                              ELSE NoRow]
  BY DEF Init
<1> DEFINE b == [Build("ready", NoDigest, NoPath, m) EXCEPT !.active = TRUE]
<1>2. m \in Nat /\ Baked \in Rows
  BY DEF PbAssumption, Rows
<1>3. b \in RowType /\ b.st = "ready" /\ b.path = NoPath /\ b.minor = m
  BY <1>2, PathFacts DEF Build, RowType
<1>4. b # NoRow
  BY <1>3 DEF PbAssumption
<1>5. row[Baked] = b /\ \A i \in Rows \ {Baked} : row[i] = NoRow
  BY <1>1, <1>2
<1> HIDE DEF b
<1>6. row \in [Rows -> {NoRow} \cup RowType]
  BY <1>1, <1>3 DEF b
<1>7. RowsOK(row)
  BY <1>2, <1>3, <1>4, <1>5, <1>6 DEF RowsOK, RowsForm
<1>8. Live(row) = {Baked} /\ Ready(row) = {Baked}
  BY <1>2, <1>3, <1>4, <1>5 DEF Live, Ready
<1>9. /\ disk = {} /\ lastRun = 0 /\ degraded = FALSE /\ pull = Idle /\ client = [c \in Clients |-> Quiet]
      /\ lane = NoOne /\ run = [s \in Starts |-> Down] /\ passed = {} /\ raced = FALSE
  BY DEF Init
<1>10. /\ \A c \in Clients : client[c].pc = "idle"
       /\ \A s \in Starts : run[s].pc = "down" /\ run[s].path = NoPath
  BY <1>9, QuietFacts DEF Down
<1>11. TypeOK
  <2>1. degraded \in BOOLEAN /\ raced \in BOOLEAN
    BY <1>9, Zenon
  <2>2. client \in [Clients -> ClientType]
    BY <1>9, QuietFacts DEF ClientType
  <2>3. run \in [Starts -> RunType]
    BY <1>9, PathFacts DEF RunType, Down
  <2>4. pull \in PullType
    BY <1>9, IdleFacts DEF PullType
  <2> QED BY <1>6, <1>9, <2>1, <2>2, <2>3, <2>4 DEF TypeOK, ClientType, RunType, PullType, Pcs
<1>12. ReadyInv
  BY <1>3, <1>5, <1>8, <1>9, <1>10, <1>2 DEF ReadyInv, Distinct, OneActive, OnDisk, InUse, MarkOK
<1>13. ClaimInv
  BY <1>9, <1>10, IdleFacts DEF ClaimInv, RmOK, LaneOK, PullAt
<1>14. PullInv
  BY <1>3, <1>5, <1>8, <1>9, IdleFacts DEF PullInv, PullOK, AloneOK, StagingOK, NoCrashOK, PullAt, Validated
<1> QED BY <1>7, <1>11, <1>12, <1>13, <1>14 DEF Inv

LEMMA NextInv == ASSUME PbAssumption, Inv, [Next]_vars PROVE Inv'
<1>1. CASE Pipeline
  BY <1>1, PipelineInv
<1>2. CASE \E c \in Clients, i \in Rows, consent \in BOOLEAN : Ask(c, "activate", i, consent)
  BY <1>2, AskInv
<1>3. CASE \E c \in Clients, i \in Rows : Ask(c, "remove", i, FALSE)
  BY <1>3, AskInv
<1>4. ASSUME NEW c \in Clients,
             Refuse(c) \/ ActivateTurn(c) \/ Remove(c) \/ RemoveFs(c) \/ Removed(c) \/ Composed(c)
      PROVE  Inv'
  BY <1>4, RefuseInv, ActivateTurnInv, RemoveInv, RemoveFsInv, RemovedInv, ComposedInv
<1>5. ASSUME NEW s \in Starts, Start(s) \/ Started(s) \/ Stop(s) PROVE Inv'
  BY <1>5, StartInv, StartedInv, StopInv
<1>6. CASE Restart
  BY <1>6, RestartInv
<1>7. CASE UNCHANGED vars
  <2> USE <1>7 DEF vars
  <2>1. \A k : Removing(k)' = Removing(k) /\ Gone(k)' = Gone(k)
    BY DEF Removing, Gone
  <2>2. TypeOK' /\ RowsOK(row')
    BY DEF Inv, TypeOK
  <2>3. ReadyInv'
    BY <2>1 DEF Inv, ReadyInv, Distinct, OneActive, OnDisk, InUse, MarkOK
  <2>4. ClaimInv'
    BY DEF Inv, ClaimInv, RmOK, LaneOK, PullAt
  <2>5. PullInv'
    BY DEF Inv, PullInv, PullOK, AloneOK, StagingOK, NoCrashOK, PullAt, Mine, Settled, Validated
  <2> QED BY <2>2, <2>3, <2>4, <2>5 DEF Inv
<1> QED BY <1>1, <1>2, <1>3, <1>4, <1>5, <1>6, <1>7 DEF Next

THEOREM BuildsInvariant == Spec => []Inv
BY PbAssumption, InitInv, NextInv, PTL DEF Spec

\* Rows, volume, pull, calls and endpoints have their types.
THEOREM BuildsTypes == Spec => []TypeOK
<1>1. Inv => TypeOK
  BY DEF Inv
<1> QED BY <1>1, BuildsInvariant, PTL

LEMMA ActiveOnDisk == Inv => ActiveUsable
<1> SUFFICES ASSUME Inv, NEW i \in Live(row), row[i].active
             PROVE  row[i].st = "ready" /\ (i # Baked => row[i].path \in disk)
  BY DEF ActiveUsable
<1>1. row[i].st = "ready" /\ i \in Ready(row)
  BY DEF Inv, RowsOK, Ready, Live
<1>2. ~Gone(i)
  BY DEF Inv, ClaimInv, RmOK, Gone
<1> QED BY <1>1, <1>2 DEF Inv, ReadyInv, OnDisk

LEMMA UsedOnDisk == Inv => InUseKept
<1> SUFFICES ASSUME Inv, NEW s \in Starts, run[s].path # NoPath PROVE run[s].path \in disk
  BY DEF InUseKept
<1>1. PICK i \in Ready(row) \ {Baked} : row[i].path = run[s].path /\ ~Removing(i)
  BY DEF Inv, ReadyInv, InUse
<1>2. ~Gone(i)
  BY <1>1 DEF Gone, Removing
<1> QED BY <1>1, <1>2 DEF Inv, ReadyInv, OnDisk

\* ActiveUsable, with crashes at any await and any rm() failing: the active build is
\* ready and its files are there, whatever is removed, failed, adopted or collected.
THEOREM BuildsActiveUsable == Spec => []ActiveUsable
BY ActiveOnDisk, BuildsInvariant, PTL

\* InUseKept: no removal, whoever shares the directory, takes the files away on which an
\* endpoint starts or runs; also with crashes.
THEOREM BuildsInUseKept == Spec => []InUseKept
BY UsedOnDisk, BuildsInvariant, PTL

\* FilesKept: unless the daemon crashes, a removal does not take the files of the build
\* being pulled away either.  (After a crash a failed row may claim its directory.)
THEOREM BuildsFilesKept == Spec => [](~Crashes => FilesKept)
<1>1. Inv => (~Crashes => PullKeepsFiles)
  BY DEF Inv, PullInv, StagingOK, NoCrashOK, PullKeepsFiles, PullAt
<1>2. Inv => (~Crashes => FilesKept)
  BY <1>1, ActiveOnDisk, UsedOnDisk DEF FilesKept
<1> QED BY <1>2, BuildsInvariant, PTL

\* Validated: unless the daemon crashes, every ready build has passed the gate.  (A crash
\* between rename() and the row's update has its directory adopted: run build_adopt.)
THEOREM BuildsValidated == Spec => [](~Crashes => Validated)
<1>1. Inv => (~Crashes => Validated)
  BY DEF Inv, PullInv, NoCrashOK
<1> QED BY <1>1, BuildsInvariant, PTL

\* SilentOnlyByRace: an active build below the last-run minor is flagged, except when the
\* active build was changed while the start that then raised the mark was in flight.
THEOREM BuildsSilentOnlyByRace == Spec => []SilentOnlyByRace
<1>1. Inv => SilentOnlyByRace
  <2> SUFFICES ASSUME Inv, ~raced, ~degraded, NEW i \in Ready(row), row[i].active
               PROVE  ~(row[i].minor < lastRun)
    BY DEF SilentOnlyByRace, Silent, Downgrade
  <2>1. row[i].minor >= lastRun
    BY DEF Inv, ReadyInv, MarkOK
  <2>2. row[i].minor \in Nat /\ lastRun \in Nat
    BY RowFacts, PbAssumption DEF Inv, TypeOK, Ready, Live
  <2> QED BY <2>1, <2>2
<1> QED BY <1>1, BuildsInvariant, PTL

=============================================================================
