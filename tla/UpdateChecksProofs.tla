-------------------------- MODULE UpdateChecksProofs --------------------------
(* Proofs about UpdateChecks, in one life of the daemon (lastCheck is memory), for *)
(* any number of images, builds and clients and with failing removals: the daemon    *)
(* does not offer an image whose pull is settled.                              *)
EXTENDS UpdateChecks, PgBuildsProofs

\* Every step is one of the builds or leaves them alone: all that PgBuildsProofs shows
\* of the builds is true here too.
THEOREM ChecksKeepBuilds == UcSpec => Spec
<1>1. UcInit => Init
  BY DEF UcInit
<1>2. [UcNext]_<<vars, ucVars>> => [Next]_vars
  BY DEF UcNext, BuildStep, Retag, Resolve, Check, CheckFails
<1> QED BY <1>1, <1>2, PTL DEF UcSpec, Spec

-----------------------------------------------------------------------------
(* The inductive invariant.                                                  *)

\* A row that settles an offer of image d.
Settles(i, d) == i \in Live(row) /\ row[i].dig = d /\ (row[i].st = "ready" \/ i \in hopeless)

\* The condemned rows are there, and only the pull that ends has just condemned its own.
HopelessOK ==
  /\ hopeless \subseteq Live(row) \ {Baked}
  /\ pull.id \in hopeless => PullAt("staging")

\* What is offered is not settled, except by the pull in flight, which refreshes the
\* check when it ends.
KnownOK ==
  Prompts(known) =>
    \A i \in Rows : Settles(i, known.dig) =>
      i = pull.id /\ pull.pc \notin {"idle", "resolve"} /\ pull.dig = known.dig

UcInv == Inv /\ HopelessOK /\ KnownOK

-----------------------------------------------------------------------------
(* What a step of the builds does to the rows and to the pull, as far as checks see *)
(* it: a row keeps its status and its image, unless the pull in flight writes its    *)
(* own.                                                                      *)

RowFlow ==
  \A i \in Live(row') :
    \/ i \in Live(row) /\ row'[i].st = row[i].st /\ row'[i].dig = row[i].dig
    \/ i = pull.id /\ pull.pc \notin {"idle", "resolve"} /\ row'[i].dig = pull.dig
    \/ i = pull.id /\ PullAt("resolve") /\ row'[i].st # "ready"
    \/ PullAt("idle") /\ row[i] = NoRow /\ row'[i].st = "downloading"

PullFlow ==
  /\ ~PullAt("idle") /\ pull'.pc # "idle" =>
       pull'.id = pull.id /\ (~PullAt("resolve") => pull'.dig = pull.dig /\ pull'.pc # "resolve")
  /\ PullAt("idle") => row[pull'.id] = NoRow \/ pull' = pull
  /\ PullAt("staging") => pull'.pc \in {"staging", "idle"}

LEMMA SameRows == row' = row => RowFlow
BY DEF RowFlow, Live

LEMMA SetFlow ==
  ASSUME PbAssumption, Inv, NEW b, Set(pull.id, b), ~PullAt("idle"),
         Mine # NoRow => \/ b.st = Mine.st /\ b.dig = Mine.dig
                         \/ pull.pc # "resolve" /\ b.dig = pull.dig
                         \/ PullAt("resolve") /\ b.st # "ready"
  PROVE  RowFlow
<1>1. pull.id \in Rows /\ row[pull.id] = Mine /\ RowsOK(row)
  BY AtPull, MineFacts
<1>2. /\ \A j \in Rows \ {pull.id} : row'[j] = row[j]
      /\ row[pull.id] = NoRow => row' = row
      /\ row[pull.id] # NoRow => row'[pull.id] = b
  BY <1>1, SetFacts
<1> QED BY <1>1, <1>2 DEF RowFlow, Live, PullAt

LEMMA GoFlow ==
  ASSUME Inv, NEW pc \in Pcs \ {"resolve"}, PullGo(pc), ~PullAt("idle"),
         PullAt("staging") => pc \in {"staging", "idle"}
  PROVE  PullFlow
BY GoFacts DEF PullFlow

LEMMA IdleFlow == ~PullAt("idle") /\ pull' = Idle => PullFlow
BY IdleFacts DEF PullFlow

LEMMA ActivateFlow ==
  ASSUME PbAssumption, Inv, NEW i \in Ready(row), Activate(i)
  PROVE  RowFlow
<1>1. RowsForm(row) /\ row' = Exclusive(row, {i}) /\ {i} \in SUBSET Ready(row)
  BY DEF Activate, Inv, RowsOK
<1>2. Live(row') = Live(row) /\ \A k \in Live(row) : row'[k].st = row[k].st /\ row'[k].dig = row[k].dig
  BY <1>1, ExclusiveFacts
<1> QED BY <1>2 DEF RowFlow

LEMMA DeleteFlow ==
  ASSUME Inv, NEW i, row' = [row EXCEPT ![i] = NoRow]
  PROVE  RowFlow
<1>1. row \in [Rows -> {NoRow} \cup RowType]
  BY DEF Inv, TypeOK
<1> QED BY <1>1 DEF RowFlow, Live

LEMMA PipelineFlow == ASSUME PbAssumption, Inv, Pipeline PROVE RowFlow /\ PullFlow
<1>1. CASE Pull
  <2>1. PICK i \in FreeIds : /\ row' = [row EXCEPT ![i] = Build("downloading", NoDigest, NoPath, 0)]
                             /\ pull' = [Idle EXCEPT !.pc = "resolve", !.id = i]
    BY <1>1 DEF Pull
  <2>2. PullAt("idle") /\ row[i] = NoRow /\ i \in Rows /\ pull'.id = i
    BY <1>1, <2>1 DEF Pull, FreeIds, Rows, Idle
  <2>3. row \in [Rows -> {NoRow} \cup RowType]
    BY DEF Inv, TypeOK
  <2>4. Build("downloading", NoDigest, NoPath, 0).st = "downloading"
    BY DEF Build
  <2>5. RowFlow
    BY <2>1, <2>2, <2>3, <2>4 DEF RowFlow, Live
  <2> QED BY <2>2, <2>5 DEF PullFlow, PullAt
<1>2. CASE PullFs
  <2>1. row' = row /\ pull' = [pull EXCEPT !.fs = TRUE] /\ ~PullAt("idle")
    BY <1>2 DEF PullFs, PullAt
  <2>2. pull'.pc = pull.pc /\ pull'.id = pull.id /\ pull'.dig = pull.dig
    BY <2>1, MineFacts DEF PullType
  <2> QED BY <2>1, <2>2, SameRows DEF PullFlow, PullAt
<1>3. CASE ResolveFails
  <2>1. Set(pull.id, [Mine EXCEPT !.st = "failed"]) /\ pull' = Idle /\ PullAt("resolve") /\ ~PullAt("idle")
    BY <1>3 DEF ResolveFails, PullAt
  <2>2. Mine # NoRow => Mine \in RowType
    BY <2>1, AtPull
  <2>3. Mine # NoRow => [Mine EXCEPT !.st = "failed"].st # "ready"
    BY <2>2 DEF RowType
  <2> QED BY <2>1, <2>3, SetFlow, IdleFlow
<1>4. ASSUME NEW d \in Digests, Resolved(d) PROVE RowFlow /\ PullFlow
  <2>1. PullAt("resolve") /\ ~PullAt("idle") /\ ~PullAt("staging")
    BY <1>4 DEF Resolved, PullAt
  <2>2. PullFlow
    <3>1. pull'.id = pull.id
      BY <1>4, MineFacts DEF Resolved, PullType
    <3> QED BY <2>1, <3>1 DEF PullFlow
  <2>3. Mine # NoRow /\ Mine.st = "downloading" /\ Mine \in RowType
    BY <2>1, AtPull DEF Inv, PullInv, PullOK
  <2>4. CASE \E i \in Ready(row) : Set(pull.id, Build("skipped", d, NoPath, row[i].minor))
    <3>1. PICK i \in Ready(row) : Set(pull.id, Build("skipped", d, NoPath, row[i].minor))
      BY <2>4
    <3>2. Build("skipped", d, NoPath, row[i].minor).st # "ready"
      BY DEF Build
    <3> QED BY <2>1, <2>2, <3>1, <3>2, SetFlow
  <2>5. CASE Set(pull.id, [Mine EXCEPT !.dig = d, !.path = Tmp(d)])
    <3>1. [Mine EXCEPT !.dig = d, !.path = Tmp(d)].st = "downloading"
      BY <2>3 DEF RowType
    <3> QED BY <2>1, <2>2, <2>5, <3>1, SetFlow
  <2> QED BY <1>4, <2>4, <2>5 DEF Resolved
<1>5. CASE Prune
  <2>1. ~PullAt("idle") /\ pull' = Idle /\ \A i \in Rows : row'[i] = NoRow \/ row'[i] = row[i]
    BY <1>5 DEF Prune, PullAt
  <2>2. RowFlow
    BY <2>1 DEF RowFlow, Live
  <2> QED BY <2>1, <2>2, IdleFlow
<1>6. CASE Extracted \/ Detected \/ GateFails \/ Undo
  <2>1. row' = row /\ ~PullAt("idle") /\ ~PullAt("staging") /\ \E pc \in Pcs \ {"resolve"} : PullGo(pc)
    BY <1>6 DEF Extracted, Detected, GateFails, Undo, PullAt, Pcs, UnchangedByPull
  <2> QED BY <2>1, SameRows, GoFlow
<1>7. CASE PullComposed
  <2>1. row' = row /\ ~PullAt("idle") /\ pull' = Idle
    BY <1>7 DEF PullComposed, PullAt
  <2> QED BY <2>1, SameRows, IdleFlow
<1>8. CASE Dropped
  <2>1. PullAt("mislabelled") \/ PullAt("dupe")
    BY <1>8 DEF Dropped
  <2>2. ~PullAt("idle") /\ pull.pc # "resolve" /\ ~PullAt("staging") /\ pull.dig \in Digests
    BY <2>1, AtPull DEF PullAt
  <2>3. Mine # NoRow /\ Mine.dig = pull.dig /\ Mine \in RowType
    BY <2>1, <2>2, AtPull DEF Inv, PullInv, PullOK, PullAt
  <2>4. /\ [Mine EXCEPT !.path = NoPath, !.st = "failed"].dig = pull.dig
        /\ [Mine EXCEPT !.path = NoPath, !.st = "skipped", !.minor = MinorOf[pull.dig]].dig = pull.dig
    BY <2>3 DEF RowType
  <2>5. CASE Set(pull.id, [Mine EXCEPT !.path = NoPath, !.st = "failed"]) /\ pull' = Idle
    BY <2>2, <2>4, <2>5, SetFlow, IdleFlow
  <2>6. CASE /\ Set(pull.id, [Mine EXCEPT !.path = NoPath, !.st = "skipped", !.minor = MinorOf[pull.dig]])
             /\ PullGo("prune")
    BY <2>2, <2>4, <2>6, SetFlow, GoFlow DEF Pcs
  <2> QED BY <1>8, <2>5, <2>6 DEF Dropped
<1>9. CASE Renamed
  <2>1. PullAt("rename") /\ ~PullAt("idle") /\ pull.pc # "resolve" /\ ~PullAt("staging")
    BY <1>9 DEF Renamed, PullAt
  <2>2. Mine # NoRow /\ Mine.dig = pull.dig /\ Mine \in RowType
    BY <2>1, AtPull DEF Inv, PullInv, PullOK, PullAt
  <2>3. [Mine EXCEPT !.minor = MinorOf[pull.dig], !.st = "validating", !.path = Dir(pull.dig)].dig = pull.dig
    BY <2>2 DEF RowType
  <2> QED BY <1>9, <2>1, <2>3, SetFlow, GoFlow DEF Renamed, Pcs
<1>10. CASE StagingThrows \/ DropThrows
  <2>1. /\ pull.pc \in {"extract", "detect", "rename", "mislabelled", "dupe"}
        /\ Set(pull.id, [Mine EXCEPT !.st = "failed"]) /\ PullGo("staging")
    BY <1>10 DEF StagingThrows, DropThrows, PullAt
  <2>2. ~PullAt("idle") /\ pull.pc # "resolve" /\ ~PullAt("staging")
    BY <2>1 DEF PullAt
  <2>3. Mine # NoRow /\ Mine.dig = pull.dig /\ Mine \in RowType
    BY <2>1, <2>2, AtPull DEF Inv, PullInv, PullOK
  <2>4. [Mine EXCEPT !.st = "failed"].dig = pull.dig
    BY <2>3 DEF RowType
  <2> QED BY <2>1, <2>2, <2>4, SetFlow, GoFlow DEF Pcs
<1>11. CASE StagingGone
  <2> DEFINE b == [Mine EXCEPT !.path = IF @ = Tmp(pull.dig) THEN NoPath ELSE @]
  <2>1. ~PullAt("idle") /\ pull' = Idle /\ (Set(pull.id, b) \/ row' = row)
    BY <1>11 DEF StagingGone, PullAt
  <2>2. Mine # NoRow => b.st = Mine.st /\ b.dig = Mine.dig
    BY <2>1, AtPull DEF RowType
  <2> QED BY <2>1, <2>2, SetFlow, SameRows, IdleFlow
<1>12. CASE GatePasses
  <2>1. PullAt("gate") /\ ~PullAt("idle") /\ pull.pc # "resolve" /\ ~PullAt("staging")
    BY <1>12 DEF GatePasses, PullAt
  <2>2. Mine # NoRow /\ Mine.dig = pull.dig /\ Mine \in RowType
    BY <2>1, AtPull DEF Inv, PullInv, PullOK, PullAt
  <2>3. [Mine EXCEPT !.st = "ready"].dig = pull.dig
    BY <2>2 DEF RowType
  <2> QED BY <1>12, <2>1, <2>3, SetFlow, GoFlow DEF GatePasses, Pcs
<1>13. CASE Discarded
  <2>1. PullAt("discard") /\ ~PullAt("idle") /\ pull.pc # "resolve" /\ ~PullAt("staging")
    BY <1>13 DEF Discarded, PullAt
  <2>2. Mine # NoRow /\ Mine.dig = pull.dig /\ Mine \in RowType
    BY <2>1, AtPull DEF Inv, PullInv, PullOK, PullAt
  <2>3. /\ [Mine EXCEPT !.path = NoPath, !.st = "failed"].dig = pull.dig
        /\ [Mine EXCEPT !.st = "failed"].dig = pull.dig
    BY <2>2 DEF RowType
  <2>4. CASE Set(pull.id, [Mine EXCEPT !.path = NoPath, !.st = "failed"]) /\ pull' = Idle
    BY <2>1, <2>3, <2>4, SetFlow, IdleFlow
  <2>5. CASE Set(pull.id, [Mine EXCEPT !.st = "failed"]) /\ PullGo("undo")
    BY <2>1, <2>3, <2>5, SetFlow, GoFlow DEF Pcs
  <2> QED BY <1>13, <2>4, <2>5 DEF Discarded
<1>14. CASE AutoActivate
  <2>1. PullAt("activate") /\ ~PullAt("idle") /\ ~PullAt("staging")
    BY <1>14 DEF AutoActivate, PullAt
  <2>2. CASE Mine = NoRow
    BY <1>14, <2>1, <2>2, SameRows, GoFlow DEF AutoActivate, Pcs
  <2>3. CASE Mine # NoRow
    <3>1. pull.id \in Ready(row)
      BY <2>1, <2>3, MineFacts DEF Inv, PullInv, PullOK, Mine, Ready, Live
    <3>2. RowFlow
      BY <1>14, <2>3, <3>1, ActivateFlow, SameRows DEF AutoActivate
    <3> QED BY <1>14, <2>1, <2>3, <3>2, GoFlow DEF AutoActivate, Pcs
  <2> QED BY <2>2, <2>3
<1>15. CASE Undone
  <2>1. ~PullAt("idle") /\ pull' = Idle /\ Set(pull.id, [Mine EXCEPT !.path = NoPath])
    BY <1>15 DEF Undone, PullAt
  <2>2. Mine # NoRow => /\ [Mine EXCEPT !.path = NoPath].st = Mine.st
                        /\ [Mine EXCEPT !.path = NoPath].dig = Mine.dig
    BY <2>1, AtPull DEF RowType
  <2> QED BY <2>1, <2>2, SetFlow, IdleFlow
<1> QED BY <1>1, <1>2, <1>3, <1>4, <1>5, <1>6, <1>7, <1>8, <1>9, <1>10, <1>11, <1>12, <1>13, <1>14,
           <1>15 DEF Pipeline

LEMMA BuildFlow == ASSUME PbAssumption, ~Crashes, Inv, Next PROVE RowFlow /\ PullFlow
<1>1. pull' = pull => PullFlow
  BY DEF PullFlow, PullAt
<1>2. CASE Pipeline
  BY <1>2, PipelineFlow
<1>3. CASE \E c \in Clients, k \in {"activate", "remove"}, i \in Rows, consent \in BOOLEAN :
             Ask(c, k, i, consent)
  BY <1>1, <1>3, SameRows DEF Ask
<1>4. ASSUME NEW c \in Clients,
             Refuse(c) \/ ActivateTurn(c) \/ Remove(c) \/ RemoveFs(c) \/ Removed(c) \/ Composed(c)
      PROVE  RowFlow /\ PullFlow
  <2>1. pull' = pull
    BY <1>4 DEF Refuse, ActivateTurn, Remove, RemoveFs, Removed, Composed
  <2>2. CASE ActivateTurn(c)
    BY <1>1, <2>1, <2>2, ActivateFlow DEF ActivateTurn, Activatable
  <2>3. CASE ~ActivateTurn(c)
    <3>1. row' = row \/ row' = [row EXCEPT ![client[c].id] = NoRow]
      BY <1>4, <2>3 DEF Refuse, Remove, RemoveFs, Removed, Composed
    <3> QED BY <1>1, <2>1, <3>1, SameRows, DeleteFlow
  <2> QED BY <2>2, <2>3
<1>5. CASE \E s \in Starts : Start(s) \/ Started(s) \/ Stop(s)
  BY <1>1, <1>5, SameRows DEF Start, Started, Stop, UnchangedByRun
<1>6. CASE Restart
  BY <1>6 DEF Restart
<1> QED BY <1>2, <1>3, <1>4, <1>5, <1>6 DEF Next

-----------------------------------------------------------------------------
(* A step of the builds, with what the daemon makes of it.                      *)

\* The pull that settles an image is the one in flight: what was settled stays so, and
\* of what was not only its own image may become so.
LEMMA SettlesOnlyMine ==
  ASSUME PbAssumption, ~Crashes, Inv, HopelessOK, BuildStep, NEW i \in Rows, NEW d, Settles(i, d)'
  PROVE  \/ Settles(i, d)
         \/ i = pull.id /\ pull.pc \notin {"idle", "resolve"} /\ pull.dig = d
<1>1. RowFlow /\ i \in Live(row') /\ row'[i].dig = d /\ (row'[i].st = "ready" \/ i \in hopeless')
  BY BuildFlow DEF BuildStep, Settles
<1>2. PICK bad \in Condemned : hopeless' = {k \in hopeless \cup bad : row'[k] # NoRow}
  BY DEF BuildStep
<1>3. CASE i \in bad
  <2>1. i = pull.id /\ (PullAt("mislabelled") \/ PullAt("detect"))
    BY <1>2, <1>3 DEF Condemned
  <2>2. Mine.dig = pull.dig /\ row[pull.id] = Mine /\ pull.pc \notin {"idle", "resolve"}
        /\ Mine.st = "downloading"
    BY <2>1 DEF Inv, PullInv, PullOK, Mine, PullAt
  <2> QED BY <1>1, <2>1, <2>2 DEF RowFlow, PullAt
<1>4. CASE i \notin bad
  <2>1. i \in hopeless' => i \in hopeless
    BY <1>2, <1>4
  <2>2. i \in hopeless => i \in Live(row)
    BY DEF HopelessOK
  <2>3. CASE i \in Live(row) /\ row'[i].st = row[i].st /\ row'[i].dig = row[i].dig
    BY <1>1, <2>1, <2>3 DEF Settles
  <2>4. CASE i = pull.id /\ pull.pc \notin {"idle", "resolve"} /\ row'[i].dig = pull.dig
    BY <1>1, <2>4
  <2>5. CASE i = pull.id /\ PullAt("resolve") /\ row'[i].st # "ready"
    BY <1>1, <2>1, <2>5 DEF HopelessOK, PullAt
  <2>6. CASE PullAt("idle") /\ row[i] = NoRow /\ row'[i].st = "downloading"
    BY <1>1, <2>1, <2>2, <2>6 DEF Live
  <2> QED BY <1>1, <2>3, <2>4, <2>5, <2>6 DEF RowFlow
<1> QED BY <1>3, <1>4

\* An image classified as unverified has no row that settles it.
LEMMA ClassifyFacts ==
  ASSUME NEW r, NEW bad, NEW d, NEW k, k = Classify(r, bad, d), k.state = "unverified"
  PROVE  k.dig = d /\ \A i \in Live(r) : r[i].dig = d => r[i].st # "ready" /\ i \notin bad
BY DEF Classify

LEMMA HopelessKept ==
  ASSUME PbAssumption, ~Crashes, Inv, Inv', HopelessOK, BuildStep
  PROVE  HopelessOK'
<1>1. RowFlow /\ PullFlow
  BY BuildFlow DEF BuildStep
<1>2. PICK bad \in Condemned : hopeless' = {i \in hopeless \cup bad : row'[i] # NoRow}
  BY DEF BuildStep
<1>3. /\ bad \subseteq {pull.id}
      /\ bad # {} => PullAt("mislabelled") \/ PullAt("detect")
      /\ bad # {} => pull'.pc \in {"staging", "idle"}
  BY DEF Condemned
<1>4. pull.id \in Ids \/ PullAt("idle")
  BY DEF Inv, PullInv, PullOK
<1>5. hopeless \cup bad \subseteq Rows \ {Baked}
  BY <1>3, <1>4 DEF HopelessOK, Live, Rows, PullAt, PbAssumption
<1>6. hopeless' \subseteq Live(row') \ {Baked}
  BY <1>2, <1>5 DEF Live
<1>7. pull'.id \in hopeless' => (pull.pc = "staging" \/ pull'.pc = "staging") /\ pull'.pc # "idle"
  <2> SUFFICES ASSUME pull'.id \in hopeless'
               PROVE  (pull.pc = "staging" \/ pull'.pc = "staging") /\ pull'.pc # "idle"
    OBVIOUS
  <2>1. pull'.pc # "idle"
    BY <1>6 DEF Inv, PullInv, PullOK, PullAt
  <2>2. CASE PullAt("idle")
    <3>1. bad = {}
      BY <1>3, <2>2 DEF PullAt
    <3>2. row[pull'.id] # NoRow
      BY <1>2, <3>1 DEF HopelessOK, Live
    <3> QED BY <1>1, <2>1, <2>2, <3>2 DEF PullFlow, PullAt
  <2>3. CASE ~PullAt("idle")
    <3>1. pull'.id = pull.id
      BY <1>1, <2>1, <2>3 DEF PullFlow
    <3>2. CASE pull.id \in hopeless
      BY <2>1, <3>2 DEF HopelessOK, PullAt
    <3>3. CASE pull.id \in bad
      BY <1>3, <2>1, <3>3
    <3> QED BY <1>2, <2>1, <3>1, <3>2, <3>3
  <2> QED BY <2>2, <2>3
<1>8. pull.pc = "staging" => pull'.pc \in {"staging", "idle"}
  BY <1>1 DEF PullFlow, PullAt
<1> QED BY <1>6, <1>7, <1>8 DEF HopelessOK, PullAt

LEMMA KnownKept ==
  ASSUME PbAssumption, ~Crashes, Inv, HopelessOK, KnownOK, BuildStep
  PROVE  KnownOK'
<1> SUFFICES ASSUME Prompts(known)', NEW i \in Rows, NEW d, d = known'.dig, Settles(i, d)'
             PROVE  i = pull'.id /\ pull'.pc \notin {"idle", "resolve"} /\ pull'.dig = d
  BY DEF KnownOK, Settles
<1>1. PullFlow
  BY BuildFlow DEF BuildStep
<1>2. CASE known' = Classify(row', hopeless', pull.dig)
  <2>1. \A k \in Live(row') : row'[k].dig = known'.dig => row'[k].st # "ready" /\ k \notin hopeless'
    BY <1>2, ClassifyFacts DEF Prompts
  <2> QED BY <2>1 DEF Settles
<1>3. CASE known' # Classify(row', hopeless', pull.dig)
  <2>1. known' = known /\ ~(PullEnds /\ known # NoCheck /\ known.dig = pull.dig)
    BY <1>3 DEF BuildStep, Refresh
  <2>2. Prompts(known) /\ known # NoCheck
    BY <2>1 DEF Prompts
  <2>3. Settles(i, d) \/ (i = pull.id /\ pull.pc \notin {"idle", "resolve"} /\ pull.dig = d)
    BY SettlesOnlyMine
  <2>4. i = pull.id /\ pull.pc \notin {"idle", "resolve"} /\ pull.dig = known.dig
    BY <2>1, <2>2, <2>3 DEF KnownOK
  <2>5. pull.dig # NoDigest
    BY <2>4 DEF Inv, PullInv, PullOK, PullAt, PbAssumption
  <2>6. pull'.pc # "idle"
    BY <2>1, <2>2, <2>4, <2>5 DEF PullEnds, PullAt
  <2>7. pull'.id = pull.id /\ pull'.dig = pull.dig /\ pull'.pc # "resolve"
    BY <1>1, <2>4, <2>6 DEF PullFlow, PullAt
  <2> QED BY <2>1, <2>4, <2>6, <2>7
<1> QED BY <1>2, <1>3

LEMMA BuildStepInv == ASSUME PbAssumption, ~Crashes, UcInv, BuildStep PROVE UcInv'
<1>1. Inv /\ HopelessOK /\ KnownOK
  BY DEF UcInv
<1>2. Inv'
  BY <1>1, NextInv DEF BuildStep
<1> QED BY <1>1, <1>2, HopelessKept, KnownKept DEF UcInv

-----------------------------------------------------------------------------
(* The steps of a check.                                                     *)

\* What leaves the builds alone keeps the invariant, if it does not touch the check
\* either, or classifies an image by the rows there are.
LEMMA BuildsSame ==
  ASSUME PbAssumption, UcInv, UNCHANGED <<vars, hopeless>>,
         known' = known \/ \E d : known' = Classify(row, hopeless, d)
  PROVE  UcInv'
<1>1. Inv' /\ UNCHANGED <<row, pull, hopeless>>
  BY NextInv DEF UcInv, vars
<1>2. HopelessOK'
  BY <1>1 DEF UcInv, HopelessOK, Live, PullAt
<1>3. CASE known' = known
  BY <1>1, <1>2, <1>3 DEF UcInv, KnownOK, Settles, Prompts, Live, PullAt
<1>4. CASE \E d : known' = Classify(row, hopeless, d)
  <2>1. Prompts(known)' => \A i \in Live(row) : row[i].dig = known'.dig => row[i].st # "ready" /\ i \notin hopeless
    BY <1>4, ClassifyFacts DEF Prompts
  <2>2. ASSUME Prompts(known)', NEW i \in Rows, NEW d, d = known'.dig, Settles(i, d)' PROVE FALSE
    BY <1>1, <2>1, <2>2 DEF Settles
  <2>3. KnownOK'
    BY <2>2 DEF KnownOK, Settles
  <2> QED BY <1>1, <1>2, <2>3 DEF UcInv
<1> QED BY <1>3, <1>4

LEMMA UcNextInv == ASSUME PbAssumption, ~Crashes, UcInv, [UcNext]_<<vars, ucVars>> PROVE UcInv'
<1>1. CASE BuildStep
  BY <1>1, BuildStepInv
<1>2. CASE Check
  BY <1>2, BuildsSame DEF Check
<1>3. CASE Retag \/ Resolve \/ CheckFails \/ UNCHANGED <<vars, ucVars>>
  <2>1. UNCHANGED <<vars, hopeless, known>>
    BY <1>3 DEF Retag, Resolve, CheckFails, ucVars
  <2> QED BY <2>1, BuildsSame
<1> QED BY <1>1, <1>2, <1>3 DEF UcNext

LEMMA UcInitInv == ASSUME PbAssumption, UcInit PROVE UcInv
<1>1. Inv /\ pull = Idle
  BY InitInv DEF UcInit, Init
<1> QED BY <1>1 DEF UcInv, UcInit, HopelessOK, KnownOK, Prompts

-----------------------------------------------------------------------------
(* The theorems.                                                             *)

\* In one life of the daemon, the builds' invariant holds, and what lastCheck offers is
\* settled by nothing but the pull in flight.
THEOREM ChecksInvariant == UcSpec => [](~Crashes => UcInv)
<1>1. UcInit => (~Crashes => UcInv)
  BY PbAssumption, UcInitInv
<1>2. (~Crashes => UcInv) /\ [UcNext]_<<vars, ucVars>> => (~Crashes => UcInv)'
  BY PbAssumption, UcNextInv
<1> QED BY <1>1, <1>2, PTL DEF UcSpec

LEMMA SettledFacts == ASSUME NEW d, SettledImage(d) PROVE \E i \in Rows : Settles(i, d)
BY DEF SettledImage, Settles, Live

\* PromptHonest: in one life of the daemon, with no pull in flight, lastCheck does not
\* offer an image that is installed or known not to work.
THEOREM ChecksPromptHonest == UcSpec => [](~Crashes => PromptHonest)
<1>1. UcInv => PromptHonest
  BY SettledFacts DEF UcInv, KnownOK, PromptHonest, PullAt
<1> QED BY <1>1, ChecksInvariant, PTL

=============================================================================
