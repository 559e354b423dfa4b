--------------------------- MODULE BranchQueueProofs ---------------------------
(* Theorems about BranchQueue, for any calls and branches.                      *)
EXTENDS BranchQueueRefinesLanes, Sequences, FiniteSetTheorems, TLAPS

\* The calls of a branch are totally ordered by ahead.
Ordered ==
  /\ \A i \in Calls : br[i] = NoBranch <=> st[i] = "new"
  /\ \A i \in Calls : \A j \in ahead[i] :
       /\ br[i] # NoBranch /\ br[j] = br[i]
       /\ j # i
       /\ ahead[j] \subseteq ahead[i]
  /\ \A i, j \in Calls :
       i # j /\ br[i] = br[j] /\ br[i] # NoBranch => i \in ahead[j] \/ j \in ahead[i]

\* Nothing before a call that got its turn is unfinished, its clean-up included.
TurnsFinished ==
  \A i \in Calls :
    st[i] \notin {"new", "queued"} => \A j \in ahead[i] : st[j] = "done"

\* The promise a waiting call is chained on belongs to the last unfinished call
\* before it, or to a later one.
Chained ==
  \A i \in Calls : st[i] = "queued" =>
    \A j \in ahead[i] : st[j] # "done" =>
      prev[i] \in ahead[i] /\ (j = prev[i] \/ j \in ahead[prev[i]])

\* The tail of a branch is its last unfinished call.
TailIsLast ==
  /\ \A b \in Branches : \A j \in Of(b) :
       st[j] # "done" => tails[b] \in Of(b) /\ (j = tails[b] \/ j \in ahead[tails[b]])
  /\ \A b \in Branches :
       tails[b] # NoCall => tails[b] \in Of(b) /\ st[tails[b]] # "done"

LanesExact == \A i \in Calls : i \in lanes <=> st[i] \in {"running", "returned"}

QueueInv ==
  TypeOK /\ Ordered /\ TurnsFinished /\ Chained /\ TailIsLast /\ LanesExact

USE BqAssumption

LEMMA InitInv == Init => QueueInv
<1> SUFFICES ASSUME Init PROVE QueueInv
  OBVIOUS
<1>1. TypeOK
  BY DEF Init, TypeOK, Stages, Live
<1>2. Ordered /\ TurnsFinished /\ Chained /\ TailIsLast /\ LanesExact
  BY DEF Init, Ordered, TurnsFinished, Chained, TailIsLast, LanesExact, Of
<1> QED BY <1>1, <1>2 DEF QueueInv

\* run() puts the new call behind every call of its branch.
LEMMA EnqueueInv ==
  ASSUME QueueInv, NEW i \in Calls, NEW b \in Branches, Enqueue(i, b), UNCHANGED lanes
  PROVE  Ordered' /\ TurnsFinished' /\ Chained' /\ TailIsLast' /\ LanesExact'
<1> USE DEF QueueInv
<1>1. /\ st[i] = "new" /\ br[i] = NoBranch
      /\ \A k \in Calls : i \notin ahead[k]
  BY DEF Enqueue, Ordered, TypeOK
<1>2. /\ st'[i] = "queued" /\ \A k \in Calls : k # i => st'[k] = st[k]
      /\ br'[i] = b /\ \A k \in Calls : k # i => br'[k] = br[k]
      /\ prev'[i] = tails[b] /\ \A k \in Calls : k # i => prev'[k] = prev[k]
      /\ ahead'[i] = Of(b) /\ \A k \in Calls : k # i => ahead'[k] = ahead[k]
      /\ tails'[b] = i /\ \A c \in Branches : c # b => tails'[c] = tails[c]
  BY DEF Enqueue, TypeOK
<1>3. \A k \in Calls : k \in Of(b) <=> br[k] = b
  BY DEF Of
<1>4. i \notin Of(b) /\ Of(b) \subseteq Calls
  BY <1>1 DEF Of
<1>5. Ordered'
  BY <1>1, <1>2, <1>3, <1>4 DEF Ordered, TypeOK
<1>6. TurnsFinished'
  BY <1>1, <1>2 DEF TurnsFinished, TypeOK
<1>7. Chained'
  <2> SUFFICES ASSUME NEW k \in Calls, st'[k] = "queued",
                      NEW j \in ahead'[k], st'[j] # "done"
               PROVE  prev'[k] \in ahead'[k] /\ (j = prev'[k] \/ j \in ahead'[prev'[k]])
    BY DEF Chained
  <2>1. CASE k = i
    BY <1>2, <1>3, <1>4, <2>1 DEF TailIsLast
  <2>2. CASE k # i
    <3>1. j # i /\ j \in ahead[k] /\ j \in Calls
      BY <1>1, <1>2, <2>2 DEF TypeOK
    <3>2. prev[k] \in ahead[k] /\ (j = prev[k] \/ j \in ahead[prev[k]])
      BY <1>2, <2>2, <3>1 DEF Chained
    <3>3. prev[k] # i /\ prev[k] \in Calls
      BY <1>1, <3>2 DEF TypeOK
    <3> QED BY <1>2, <2>2, <3>2, <3>3
  <2> QED BY <2>1, <2>2
<1>8. TailIsLast'
  <2>1. \A c \in Branches : c # b => Of(c)' = Of(c) /\ i \notin Of(c)
    BY <1>1, <1>2 DEF Of
  <2>2. Of(b)' = Of(b) \cup {i}
    BY <1>2 DEF Of
  <2>3. ASSUME NEW c \in Branches, NEW j \in Of(c)', st'[j] # "done"
        PROVE  tails'[c] \in Of(c)' /\ (j = tails'[c] \/ j \in ahead'[tails'[c]])
    <3>1. CASE c = b
      BY <1>2, <2>2, <2>3, <3>1
    <3>2. CASE c # b
      BY <1>1, <1>2, <2>1, <2>3, <3>2 DEF TailIsLast, Of
    <3> QED BY <3>1, <3>2
  <2>4. ASSUME NEW c \in Branches, tails'[c] # NoCall
        PROVE  tails'[c] \in Of(c)' /\ st'[tails'[c]] # "done"
    <3>1. CASE c = b
      BY <1>2, <2>2, <3>1
    <3>2. CASE c # b
      BY <1>2, <2>1, <2>4, <3>2 DEF TailIsLast, Of
    <3> QED BY <3>1, <3>2
  <2> QED BY <2>3, <2>4 DEF TailIsLast
<1>9. LanesExact'
  BY <1>1, <1>2 DEF LanesExact
<1> QED BY <1>5, <1>6, <1>7, <1>8, <1>9

\* A step of one call from a stage to the next, in the order Step goes through
\* them, that leaves names, order and links alone.
LEMMA StepInv ==
  ASSUME QueueInv, NEW i \in Calls, Step(i)
  PROVE  QueueInv'
<1> USE DEF QueueInv
<1>1. TypeOK'
  BY DEF Step, Invoke, Return, Settle, Clean, TypeOK, Stages, Live, Over
<1>2. /\ UNCHANGED <<br, prev, ahead>>
      /\ \A k \in Calls : k # i => st'[k] = st[k]
      /\ st[i] \notin {"new", "done"} /\ st'[i] \notin {"new", "queued"}
      /\ \A b \in Branches : Of(b)' = Of(b)
  BY DEF Step, Invoke, Return, Settle, Clean, TypeOK, Of
<1>3. Ordered'
  BY <1>2 DEF Ordered, TypeOK
<1>4. \A j \in ahead[i] : st[j] = "done"
  <2>1. CASE Invoke(i)
    <3> SUFFICES ASSUME NEW j \in ahead[i], st[j] # "done" PROVE FALSE
      OBVIOUS
    <3>1. prev[i] \in ahead[i] /\ (j = prev[i] \/ j \in ahead[prev[i]])
      BY <2>1 DEF Invoke, Chained
    <3>2. prev[i] \in Calls /\ st[prev[i]] = "done"
      BY <2>1, <3>1 DEF Invoke, TypeOK
    <3> QED BY <3>1, <3>2 DEF TurnsFinished
  <2>2. CASE Return(i) \/ Settle(i) \/ Clean(i)
    BY <2>2 DEF Return, Settle, Clean, TurnsFinished
  <2> QED BY <2>1, <2>2 DEF Step
<1>5. TurnsFinished'
  <2> SUFFICES ASSUME NEW k \in Calls, st'[k] \notin {"new", "queued"}, NEW j \in ahead[k]
               PROVE  st'[j] = "done"
    BY <1>2 DEF TurnsFinished
  <2>0. j \in Calls
    BY DEF TypeOK
  <2>1. CASE k = i
    BY <1>2, <1>4, <2>0, <2>1 DEF Ordered
  <2>2. CASE k # i
    BY <1>2, <2>0, <2>2 DEF TurnsFinished
  <2> QED BY <2>1, <2>2
<1>6. Chained'
  BY <1>2 DEF Chained, TypeOK
<1>7. TailIsLast'
  <2>1. CASE Clean(i)
    <3>1. /\ st'[i] = "done"
          /\ br[i] \in Branches
          /\ tails'[br[i]] = IF tails[br[i]] = i THEN NoCall ELSE tails[br[i]]
          /\ \A c \in Branches : c # br[i] => tails'[c] = tails[c]
      BY <2>1, <1>2 DEF Clean, TypeOK, Ordered
    <3>2. \A c \in Branches : \A j \in Of(c) : j \in Calls /\ br[j] = c
      BY DEF Of
    <3>3. ASSUME NEW c \in Branches, NEW j \in Of(c), st'[j] # "done"
          PROVE  tails'[c] \in Of(c) /\ (j = tails'[c] \/ j \in ahead[tails'[c]])
      <4>1. j # i /\ st[j] # "done"
        BY <1>2, <3>1, <3>2, <3>3
      <4>2. tails[c] \in Of(c) /\ (j = tails[c] \/ j \in ahead[tails[c]])
        BY <4>1 DEF TailIsLast
      <4>3. tails[c] # i
        BY <1>4, <4>1, <4>2
      <4> QED BY <3>1, <4>2, <4>3
    <3>4. ASSUME NEW c \in Branches, tails'[c] # NoCall
          PROVE  tails'[c] \in Of(c) /\ st'[tails'[c]] # "done"
      BY <1>2, <3>1, <3>2, <3>4 DEF TailIsLast
    <3> QED BY <1>2, <3>3, <3>4 DEF TailIsLast
  <2>2. CASE Invoke(i) \/ Return(i) \/ Settle(i)
    BY <1>2, <2>2 DEF Invoke, Return, Settle, TailIsLast, Of, TypeOK
  <2> QED BY <2>1, <2>2 DEF Step
<1>8. LanesExact'
  BY DEF Step, Invoke, Return, Settle, Clean, LanesExact, TypeOK
<1> QED BY <1>1, <1>3, <1>5, <1>6, <1>7, <1>8

\* Forgetting a finished call takes it out of every relation.
LEMMA ForgetInv ==
  ASSUME QueueInv, NEW i \in Calls, ForgetCall(i)
  PROVE  QueueInv'
<1> USE DEF QueueInv
<1>1. TypeOK'
  BY DEF ForgetCall, TypeOK, Stages
<1>2. /\ st[i] = "done" /\ st'[i] = "new" /\ \A k \in Calls : k # i => st'[k] = st[k]
      /\ br'[i] = NoBranch /\ \A k \in Calls : k # i => br'[k] = br[k]
      /\ ahead'[i] = {} /\ \A k \in Calls : k # i => ahead'[k] = ahead[k] \ {i}
      /\ \A k \in Calls : k # i /\ prev[k] # i => prev'[k] = prev[k]
      /\ \A k \in Calls : st[k] = "queued" => prev[k] # i
      /\ UNCHANGED <<tails, lanes>>
  BY DEF ForgetCall, TypeOK
<1>3. \A b \in Branches : Of(b)' = Of(b) \ {i} /\ tails[b] # i
  BY <1>2 DEF Of, ForgetCall
<1>4. Ordered'
  BY <1>2 DEF Ordered, TypeOK
<1>5. TurnsFinished'
  BY <1>2 DEF TurnsFinished, TypeOK
<1>6. Chained'
  <2> SUFFICES ASSUME NEW k \in Calls, st'[k] = "queued",
                      NEW j \in ahead'[k], st'[j] # "done"
               PROVE  prev'[k] \in ahead'[k] /\ (j = prev'[k] \/ j \in ahead'[prev'[k]])
    BY DEF Chained
  <2>1. k # i /\ st[k] = "queued" /\ j \in ahead[k] /\ j # i /\ j \in Calls
    BY <1>2 DEF TypeOK
  <2>2. prev[k] \in ahead[k] /\ (j = prev[k] \/ j \in ahead[prev[k]])
    BY <1>2, <2>1 DEF Chained
  <2>3. prev'[k] = prev[k] /\ prev[k] # i /\ prev[k] \in Calls
    BY <1>2, <2>1, <2>2 DEF TypeOK
  <2> QED BY <1>2, <2>1, <2>2, <2>3
<1>7. TailIsLast'
  <2>1. \A b \in Branches : Of(b) \subseteq Calls
    BY DEF Of
  <2>2. ASSUME NEW b \in Branches, NEW j \in Of(b)', st'[j] # "done"
        PROVE  tails[b] \in Of(b)' /\ (j = tails[b] \/ j \in ahead'[tails[b]])
    <3>1. j \in Of(b) /\ j # i /\ st[j] # "done"
      BY <1>2, <1>3, <2>1, <2>2
    <3>2. tails[b] \in Of(b) /\ (j = tails[b] \/ j \in ahead[tails[b]])
      BY <3>1 DEF TailIsLast
    <3> QED BY <1>2, <1>3, <2>1, <3>1, <3>2
  <2>3. \A b \in Branches :
          tails[b] # NoCall => tails[b] \in Of(b)' /\ st'[tails[b]] # "done"
    BY <1>2, <1>3, <2>1 DEF TailIsLast
  <2> QED BY <1>2, <2>2, <2>3 DEF TailIsLast
<1>8. LanesExact'
  BY <1>2 DEF LanesExact
<1> QED BY <1>1, <1>4, <1>5, <1>6, <1>7, <1>8

LEMMA NextInv == QueueInv /\ [Next]_vars => QueueInv'
<1> SUFFICES ASSUME QueueInv, [Next]_vars PROVE QueueInv'
  OBVIOUS
<1>1. ASSUME NEW i \in Calls, NEW b \in Branches, Run(i, b) PROVE QueueInv'
  <2>1. TypeOK'
    BY <1>1 DEF QueueInv, Run, Enqueue, TypeOK, Stages, Live, Of
  <2> QED BY <1>1, <2>1, EnqueueInv DEF Run, QueueInv
<1>2. ASSUME NEW i \in Calls, NEW j \in Calls, NEW b \in Branches, RestartUnderNewId(i, j, b)
      PROVE  QueueInv'
  <2>1. TypeOK'
    BY <1>2 DEF QueueInv, RestartUnderNewId, Enqueue, TypeOK, Stages, Live, Of
  <2> QED BY <1>2, <2>1, EnqueueInv DEF RestartUnderNewId, QueueInv
<1>3. ASSUME NEW b \in Branches, Mint(b) \/ ForgetBranch(b) PROVE QueueInv'
  <2>1. UNCHANGED <<st, br, prev, tails, lanes, waits, ahead>>
    BY <1>3 DEF Mint, ForgetBranch
  <2>2. TypeOK'
    BY <1>3, <2>1 DEF Mint, ForgetBranch, QueueInv, TypeOK
  <2> QED BY <2>1, <2>2 DEF QueueInv, Ordered, TurnsFinished, Chained, TailIsLast, LanesExact, Of
<1>4. CASE UNCHANGED vars
  BY <1>4 DEF vars, QueueInv, TypeOK, Ordered, TurnsFinished, Chained, TailIsLast, LanesExact, Of
<1> QED BY <1>1, <1>2, <1>3, <1>4, StepInv, ForgetInv DEF Next

LEMMA QueueInvariant == Spec => []QueueInv
<1> QED BY InitInv, NextInv, PTL DEF Spec

\* Type correctness.
THEOREM QueueTypeSafe == Spec => []TypeOK
<1>1. QueueInv => TypeOK
  BY DEF QueueInv
<1> QED BY <1>1, QueueInvariant, PTL

\* Turns on one branch never overlap and go in the order of run(), for any number
\* of calls, branches and awaited restarts.
THEOREM QueueFifo == Spec => []Fifo
<1>1. QueueInv => Fifo
  BY DEF QueueInv, TurnsFinished, Fifo, Over
<1> QED BY <1>1, QueueInvariant, PTL

\* What assertLane accepts is the one turn in progress on that branch.
THEOREM LaneSafe == Spec => []LaneIsTurn
<1>1. QueueInv => LaneIsTurn
  <2> SUFFICES ASSUME QueueInv, NEW i \in Calls, NEW b \in Branches, AssertLane(i, b)
               PROVE  /\ st[i] \in {"running", "returned"}
                      /\ \A j \in Of(b) \ {i} : st[j] \in {"queued", "settled", "done"}
    BY DEF LaneIsTurn
  <2>0. st[i] \in {"running", "returned"} /\ br[i] = b
    BY DEF AssertLane, QueueInv, LanesExact
  <2> SUFFICES ASSUME NEW j \in Of(b) \ {i}
               PROVE  st[j] \in {"queued", "settled", "done"}
    BY <2>0
  <2>1. st[i] \in {"running", "returned"} /\ br[i] = b /\ br[j] = b /\ j \in Calls /\ j # i
    BY <2>0 DEF Of
  <2>2. i \in ahead[j] \/ j \in ahead[i]
    BY <2>1 DEF QueueInv, Ordered
  <2>3. CASE j \in ahead[i]
    BY <2>1, <2>3 DEF QueueInv, TurnsFinished
  <2>4. CASE i \in ahead[j]
    <3>1. st[j] \in {"new", "queued"}
      BY <2>1, <2>4 DEF QueueInv, TurnsFinished
    <3> QED BY <2>1, <3>1 DEF QueueInv, Ordered
  <2> QED BY <2>2, <2>3, <2>4
<1> QED BY <1>1, QueueInvariant, PTL

\* The tails map holds exactly the branches with an unfinished call.
THEOREM TailsSafe == Spec => []TailsExact
<1>1. QueueInv => TailsExact
  BY DEF QueueInv, TailIsLast, TailsExact, Of, TypeOK
<1> QED BY <1>1, QueueInvariant, PTL

-----------------------------------------------------------------------------
(* BranchQueue's steps are those of Lanes.                                      *)

\* before orders S, and puts no call of S before itself.
Chain(S, before) ==
  /\ \A i \in S : i \notin before[i]
  /\ \A i, j \in S : j \in before[i] => before[j] \cap S \subseteq before[i]
  /\ \A i, j \in S : i # j => i \in before[j] \/ j \in before[i]

\* Every place in the line is somebody's, so that the line is the whole of S.
Full(S, before) ==
  /\ IsFiniteSet(S)
  /\ \A n \in 1 .. Cardinality(S) : \E i \in S : Place(S, before, i) = n - 1

LEMMA PlaceType ==
  ASSUME NEW S, NEW before, IsFiniteSet(S), NEW i
  PROVE  /\ Place(S, before, i) \in Nat
         /\ Cardinality(S) \in Nat
         /\ IsFiniteSet(before[i] \cap S)
<1>1. before[i] \cap S \in SUBSET S
  OBVIOUS
<1> QED BY <1>1, FS_Subset, FS_CardinalityType DEF Place

\* A call is in the line behind fewer calls than there are.
LEMMA PlaceBound ==
  ASSUME NEW S, NEW before, IsFiniteSet(S), Chain(S, before), NEW i \in S
  PROVE  Place(S, before, i) <= Cardinality(S) - 1
<1>1. before[i] \cap S \in SUBSET (S \ {i})
  BY DEF Chain
<1>2. IsFiniteSet(S \ {i}) /\ Cardinality(S \ {i}) = Cardinality(S) - 1
  BY FS_RemoveElement
<1>3. Cardinality(before[i] \cap S) <= Cardinality(S \ {i})
  BY <1>1, <1>2, FS_Subset
<1> QED BY <1>2, <1>3 DEF Place

\* Of two calls, the earlier one has the smaller place.
LEMMA PlaceGrows ==
  ASSUME NEW S, NEW before, IsFiniteSet(S), Chain(S, before),
         NEW i \in S, NEW j \in S, j \in before[i]
  PROVE  Place(S, before, j) < Place(S, before, i)
<1> DEFINE Bi == before[i] \cap S
           Bj == before[j] \cap S
<1>1. Bj \in SUBSET (Bi \ {j})
  BY DEF Chain
<1>2. IsFiniteSet(Bi)
  BY PlaceType
<1>3. IsFiniteSet(Bi \ {j}) /\ Cardinality(Bi \ {j}) = Cardinality(Bi) - 1
  <2>1. j \in Bi
    OBVIOUS
  <2> HIDE DEF Bi
  <2> QED BY <1>2, <2>1, FS_RemoveElement
<1>4. Cardinality(Bj) <= Cardinality(Bi \ {j})
  <2> HIDE DEF Bi, Bj
  <2> QED BY <1>1, <1>3, FS_Subset
<1>5. Cardinality(Bi) \in Nat /\ Cardinality(Bj) \in Nat
  BY PlaceType DEF Place
<1>6. Place(S, before, i) = Cardinality(Bi) /\ Place(S, before, j) = Cardinality(Bj)
  BY DEF Place
<1> HIDE DEF Bi, Bj
<1> QED BY <1>3, <1>4, <1>5, <1>6

LEMMA PlaceUnique ==
  ASSUME NEW S, NEW before, IsFiniteSet(S), Chain(S, before),
         NEW i \in S, NEW j \in S, Place(S, before, i) = Place(S, before, j)
  PROVE  i = j
<1> SUFFICES ASSUME i # j PROVE FALSE
  OBVIOUS
<1>1. i \in before[j] \/ j \in before[i]
  BY DEF Chain
<1>2. Place(S, before, i) \in Nat /\ Place(S, before, j) \in Nat
  BY PlaceType
<1> QED BY <1>1, <1>2, PlaceGrows

\* The line holds each call at its place.
LEMMA LineAt ==
  ASSUME NEW S, NEW before, Full(S, before), Chain(S, before),
         NEW n \in 1 .. Cardinality(S), NEW i \in S, Place(S, before, i) = n - 1
  PROVE  Line(S, before)[n] = i
<1>1. IsFiniteSet(S)
  BY DEF Full
<1> DEFINE c == CHOOSE k \in S : Place(S, before, k) = n - 1
<1>2. c \in S /\ Place(S, before, c) = n - 1
  OBVIOUS
<1>3. Line(S, before)[n] = c
  BY DEF Line
<1> HIDE DEF c
<1> QED BY <1>1, <1>2, <1>3, PlaceUnique

LEMMA LineSeq ==
  ASSUME NEW S, NEW before, Full(S, before), Chain(S, before)
  PROVE  /\ Cardinality(S) \in Nat
         /\ Line(S, before) \in Seq(S)
         /\ Len(Line(S, before)) = Cardinality(S)
         /\ DOMAIN Line(S, before) = 1 .. Cardinality(S)
         /\ \A n \in 1 .. Cardinality(S) :
              Line(S, before)[n] \in S /\ Place(S, before, Line(S, before)[n]) = n - 1
         /\ \A i \in S : \E n \in 1 .. Cardinality(S) : Line(S, before)[n] = i
<1>1. IsFiniteSet(S) /\ Cardinality(S) \in Nat
  BY FS_CardinalityType DEF Full
<1>2. \A n \in 1 .. Cardinality(S) :
        Line(S, before)[n] \in S /\ Place(S, before, Line(S, before)[n]) = n - 1
  <2> TAKE n \in 1 .. Cardinality(S)
  <2>1. PICK i \in S : Place(S, before, i) = n - 1
    BY DEF Full
  <2> QED BY <2>1, LineAt
<1>3. DOMAIN Line(S, before) = 1 .. Cardinality(S)
  BY DEF Line
<1>4. Line(S, before) = [n \in 1 .. Cardinality(S) |-> Line(S, before)[n]]
  BY DEF Line
<1>5. Line(S, before) \in [1 .. Cardinality(S) -> S]
  BY <1>2, <1>4
<1>6. Line(S, before) \in Seq(S) /\ Len(Line(S, before)) = Cardinality(S)
  BY <1>1, <1>3, <1>5
<1>7. \A i \in S : \E n \in 1 .. Cardinality(S) : Line(S, before)[n] = i
  <2> TAKE i \in S
  <2>1. Place(S, before, i) \in Nat /\ Place(S, before, i) <= Cardinality(S) - 1
    BY <1>1, PlaceType, PlaceBound
  <2>2. Place(S, before, i) + 1 \in 1 .. Cardinality(S)
    BY <1>1, <2>1
  <2>3. Place(S, before, i) = (Place(S, before, i) + 1) - 1
    BY <2>1
  <2>4. Line(S, before)[Place(S, before, i) + 1] = i
    BY <2>2, <2>3, LineAt
  <2> QED BY <2>2, <2>4
<1> QED BY <1>1, <1>2, <1>3, <1>6, <1>7

\* A sequence with each call of S at its place is the line.
LEMMA LineIs ==
  ASSUME NEW S, NEW before, Full(S, before), Chain(S, before),
         NEW q \in Seq(S), Len(q) = Cardinality(S),
         \A n \in 1 .. Cardinality(S) : q[n] \in S /\ Place(S, before, q[n]) = n - 1
  PROVE  Line(S, before) = q
<1>1. \A n \in 1 .. Cardinality(S) : Line(S, before)[n] = q[n]
  BY LineAt
<1>2. Line(S, before) \in Seq(S) /\ Len(Line(S, before)) = Cardinality(S)
  BY LineSeq
<1> QED BY <1>1, <1>2

\* What comes before a call outside S is of no account.
LEMMA LineSame ==
  ASSUME NEW S, NEW before, NEW after, Full(S, before), Chain(S, before),
         \A i \in S : after[i] \cap S = before[i] \cap S
  PROVE  Full(S, after) /\ Chain(S, after) /\ Line(S, after) = Line(S, before)
<1>1. \A i \in S : Place(S, after, i) = Place(S, before, i)
  BY DEF Place
<1>2. Full(S, after)
  BY <1>1 DEF Full
<1>3. Chain(S, after)
  BY DEF Chain
<1>4. Line(S, before) \in Seq(S) /\ Len(Line(S, before)) = Cardinality(S)
  BY LineSeq
<1>5. \A n \in 1 .. Cardinality(S) :
        Line(S, before)[n] \in S /\ Place(S, after, Line(S, before)[n]) = n - 1
  BY <1>1, LineSeq
<1> QED BY <1>2, <1>3, <1>4, <1>5, LineIs

Joined(S, before, i) == Append(Line(S, before), i)

\* A call that comes after all of S joins the end of the line.
LEMMA LineAppended ==
  ASSUME NEW S, NEW before, NEW after, NEW i, Full(S, before), Chain(S, before),
         i \notin S, i \notin after[i], after[i] \cap S = S,
         \A j \in S : i \notin after[j] /\ after[j] \cap S = before[j] \cap S
  PROVE  /\ Full(S \cup {i}, after) /\ Chain(S \cup {i}, after)
         /\ Line(S \cup {i}, after) = Joined(S, before, i)
<1> DEFINE T == S \cup {i}
           q == Append(Line(S, before), i)
<1>1. IsFiniteSet(T) /\ Cardinality(T) = Cardinality(S) + 1 /\ Cardinality(S) \in Nat
  BY FS_AddElement, FS_CardinalityType DEF Full
<1>2. Chain(T, after)
  BY DEF Chain
<1>3. /\ \A j \in S : Place(T, after, j) = Place(S, before, j)
      /\ Place(T, after, i) = Cardinality(S)
  <2>1. \A j \in S : after[j] \cap T = before[j] \cap S
    OBVIOUS
  <2>2. after[i] \cap T = S
    OBVIOUS
  <2> QED BY <2>1, <2>2 DEF Place
<1>4. /\ q \in Seq(T) /\ Len(q) = Cardinality(S) + 1
      /\ \A n \in 1 .. Cardinality(S) : q[n] = Line(S, before)[n]
      /\ q[Cardinality(S) + 1] = i
  <2>1. Line(S, before) \in Seq(S) /\ Len(Line(S, before)) = Cardinality(S)
    BY LineSeq
  <2>2. S \subseteq T /\ i \in T
    OBVIOUS
  <2> HIDE DEF T
  <2>3. Line(S, before) \in Seq(T)
    BY <2>1, <2>2
  <2> QED BY <1>1, <2>1, <2>2, <2>3
<1>5. \A n \in 1 .. Cardinality(T) : q[n] \in T /\ Place(T, after, q[n]) = n - 1
  <2>1. S \subseteq T /\ i \in T
    OBVIOUS
  <2> HIDE DEF T, q
  <2> TAKE n \in 1 .. Cardinality(T)
  <2>2. CASE n = Cardinality(S) + 1
    BY <1>1, <1>3, <1>4, <2>1, <2>2
  <2>3. CASE n \in 1 .. Cardinality(S)
    <3>1. /\ Line(S, before)[n] \in S
          /\ Place(S, before, Line(S, before)[n]) = n - 1
      BY <2>3, LineSeq
    <3> QED BY <1>3, <1>4, <2>1, <2>3, <3>1
  <2> QED BY <1>1, <2>2, <2>3
<1> HIDE DEF q, T
<1>6. Full(T, after)
  BY <1>1, <1>5 DEF Full
<1>7. Line(T, after) = q
  <2>1. q \in Seq(T) /\ Len(q) = Cardinality(T)
    BY <1>1, <1>4
  <2> QED BY <1>2, <1>5, <1>6, <2>1, LineIs
<1> QED BY <1>2, <1>6, <1>7 DEF T, q, Joined

\* The call that nothing comes before leaves the front of the line.
LEMMA LineLeft ==
  ASSUME NEW S, NEW before, NEW i \in S, Full(S, before), Chain(S, before),
         before[i] \cap S = {}
  PROVE  /\ Full(S \ {i}, before) /\ Chain(S \ {i}, before)
         /\ Line(S, before) # <<>> /\ Head(Line(S, before)) = i
         /\ Line(S \ {i}, before) = Tail(Line(S, before))
<1> DEFINE T == S \ {i}
           N == Cardinality(S)
           q == Tail(Line(S, before))
<1>1. IsFiniteSet(S) /\ N \in Nat /\ IsFiniteSet(T) /\ Cardinality(T) = N - 1 /\ N # 0
  BY FS_RemoveElement, FS_CardinalityType, FS_EmptySet DEF Full
<1>2. Chain(T, before)
  BY DEF Chain
<1>3. Line(S, before) \in Seq(S) /\ Len(Line(S, before)) = N
  BY LineSeq
<1>4. Line(S, before)[1] = i
  <2>1. Place(S, before, i) = 1 - 1
    BY FS_EmptySet DEF Place
  <2> QED BY <1>1, <2>1, LineAt
<1>5. Line(S, before) # <<>> /\ Head(Line(S, before)) = i
  BY <1>1, <1>3, <1>4
<1>6. /\ q \in Seq(S) /\ Len(q) = Cardinality(T)
      /\ \A n \in 1 .. Cardinality(T) : q[n] = Line(S, before)[n + 1]
  <2> DEFINE l == Line(S, before)
  <2>1. l \in Seq(S) /\ Len(l) = N /\ l # <<>>
    BY <1>3, <1>5
  <2> HIDE DEF l, T, N
  <2>2. Tail(l) \in Seq(S) /\ Len(Tail(l)) = N - 1
    BY <1>1, <2>1
  <2>3. \A n \in 1 .. N - 1 : Tail(l)[n] = l[n + 1]
    BY <1>1, <2>1
  <2> QED BY <1>1, <2>2, <2>3 DEF l
<1>7. \A j \in T : Place(T, before, j) = Place(S, before, j) - 1
  <2> TAKE j \in T
  <2>1. i \in before[j]
    BY DEF Chain
  <2>2. before[j] \cap T = (before[j] \cap S) \ {i} /\ i \in before[j] \cap S
    BY <2>1
  <2>3. IsFiniteSet(before[j] \cap S)
    BY <1>1, PlaceType
  <2> HIDE DEF T
  <2> QED BY <2>2, <2>3, FS_RemoveElement DEF Place
<1>8. \A n \in 1 .. Cardinality(T) : q[n] \in T /\ Place(T, before, q[n]) = n - 1
  <2> TAKE n \in 1 .. Cardinality(T)
  <2>1. n + 1 \in 1 .. N /\ n \in Nat /\ n > 0
    BY <1>1
  <2>2. Line(S, before)[n + 1] \in S /\ Place(S, before, Line(S, before)[n + 1]) = n
    BY <2>1, LineSeq
  <2>3. Line(S, before)[n + 1] # i
    <3>1. Place(S, before, i) = 0
      BY FS_EmptySet DEF Place
    <3> QED BY <2>1, <2>2, <3>1
  <2> QED BY <1>6, <1>7, <2>1, <2>2, <2>3
<1> HIDE DEF q, T
<1>9. Full(T, before)
  BY <1>1, <1>8 DEF Full
<1>10. Line(T, before) = q
  <2>1. Len(q) = Cardinality(T) /\ \A n \in 1 .. Len(q) : q[n] \in T
    BY <1>6, <1>8
  <2>2. q = [n \in 1 .. Len(q) |-> q[n]] /\ Len(q) \in Nat
    BY <1>6
  <2>3. q \in Seq(T)
    BY <2>1, <2>2
  <2> QED BY <1>2, <1>8, <1>9, <2>1, <2>3, LineIs
<1> QED BY <1>2, <1>5, <1>9, <1>10 DEF T, q

\* The line of every branch is whole: all its unsettled calls stand in it.
LinesFull == \A b \in Branches : Full(Unsettled(b), ahead)

LEMMA UnsettledChain ==
  ASSUME QueueInv, NEW b \in Branches
  PROVE  Chain(Unsettled(b), ahead)
<1>1. \A i \in Unsettled(b) : i \in Calls /\ br[i] = b /\ br[i] # NoBranch
  BY DEF Unsettled, Of
<1>2. \A i \in Unsettled(b) : i \notin ahead[i]
  BY <1>1 DEF QueueInv, Ordered
<1>3. \A i, j \in Unsettled(b) : j \in ahead[i] => ahead[j] \cap Unsettled(b) \subseteq ahead[i]
  BY <1>1 DEF QueueInv, Ordered
<1>4. \A i, j \in Unsettled(b) : i # j => i \in ahead[j] \/ j \in ahead[i]
  BY <1>1 DEF QueueInv, Ordered
<1> QED BY <1>2, <1>3, <1>4 DEF Chain

\* What the abstract queue of each branch does when its unsettled calls do not change.
LEMMA WaitingSame ==
  ASSUME QueueInv, LinesFull, NEW b \in Branches, Unsettled(b)' = Unsettled(b),
         \A i \in Unsettled(b) : ahead'[i] \cap Unsettled(b) = ahead[i] \cap Unsettled(b)
  PROVE  Full(Unsettled(b)', ahead') /\ Waiting(b)' = Waiting(b)
<1>1. Full(Unsettled(b), ahead) /\ Chain(Unsettled(b), ahead)
  BY UnsettledChain DEF LinesFull
<1>2. Full(Unsettled(b), ahead') /\ Line(Unsettled(b), ahead') = Line(Unsettled(b), ahead)
  BY <1>1, LineSame
<1>3. Full(Unsettled(b)', ahead') /\ Line(Unsettled(b)', ahead') = Line(Unsettled(b), ahead)
  BY <1>2
<1>4. Waiting(b)' = Line(Unsettled(b)', ahead') /\ Waiting(b) = Line(Unsettled(b), ahead)
  BY DEF Waiting
<1> QED BY <1>3, <1>4

\* The turn of Lanes is that of the queue's running and returned calls.
Turn == {i \in Calls : st[i] \in {"running", "returned"}}

\* run() asks: the call goes to the end of its branch's queue.
LEMMA EnqueueAsks ==
  ASSUME QueueInv, LinesFull, NEW i \in Calls, NEW b \in Branches, Enqueue(i, b)
  PROVE  LinesFull' /\ Abstract!Ask(i, b)
<1>1. /\ st[i] = "new" /\ br[i] = NoBranch
      /\ \A k \in Calls : i \notin ahead[k]
  BY DEF Enqueue, QueueInv, Ordered, TypeOK
<1>2. /\ st'[i] = "queued" /\ \A k \in Calls : k # i => st'[k] = st[k]
      /\ br'[i] = b /\ \A k \in Calls : k # i => br'[k] = br[k]
      /\ ahead'[i] = Of(b) /\ \A k \in Calls : k # i => ahead'[k] = ahead[k]
  BY DEF Enqueue, QueueInv, TypeOK
<1>3. /\ \A c \in Branches : i \notin Unsettled(c) /\ Unsettled(c) \subseteq Calls
      /\ \A c \in Branches : c # b => Unsettled(c)' = Unsettled(c)
      /\ Unsettled(b)' = Unsettled(b) \cup {i}
      /\ Unsettled(b) \subseteq Of(b) /\ i \notin Of(b)
  BY <1>1, <1>2 DEF Unsettled, Of, Live
<1>4. Full(Unsettled(b)', ahead') /\ Waiting(b)' = Append(Waiting(b), i)
  <2>1. Full(Unsettled(b), ahead) /\ Chain(Unsettled(b), ahead)
    BY UnsettledChain DEF LinesFull
  <2>2. /\ i \notin Unsettled(b) /\ i \notin ahead'[i] /\ ahead'[i] \cap Unsettled(b) = Unsettled(b)
        /\ \A j \in Unsettled(b) :
             i \notin ahead'[j] /\ ahead'[j] \cap Unsettled(b) = ahead[j] \cap Unsettled(b)
    BY <1>1, <1>2, <1>3
  <2>3. /\ Full(Unsettled(b) \cup {i}, ahead')
        /\ Line(Unsettled(b) \cup {i}, ahead') = Joined(Unsettled(b), ahead, i)
    BY <2>1, <2>2, LineAppended
  <2>4. Waiting(b)' = Line(Unsettled(b)', ahead') /\ Waiting(b) = Line(Unsettled(b), ahead)
    BY DEF Waiting
  <2>5. Joined(Unsettled(b), ahead, i) = Append(Waiting(b), i)
    BY <2>4 DEF Joined
  <2> QED BY <1>3, <2>3, <2>4, <2>5
<1>5. \A c \in Branches : c # b => Full(Unsettled(c)', ahead') /\ Waiting(c)' = Waiting(c)
  <2> SUFFICES ASSUME NEW c \in Branches, c # b
               PROVE  Full(Unsettled(c)', ahead') /\ Waiting(c)' = Waiting(c)
    OBVIOUS
  <2>1. Unsettled(c)' = Unsettled(c)
    BY <1>3
  <2>2. \A k \in Unsettled(c) : ahead'[k] = ahead[k]
    BY <1>2, <1>3
  <2> QED BY <2>1, <2>2, WaitingSame
<1>6. LinesFull'
  BY <1>4, <1>5 DEF LinesFull
<1>7. \A c \in Branches : i \notin Abstract!Range(Waiting(c))
  <2> TAKE c \in Branches
  <2>1. Full(Unsettled(c), ahead) /\ Chain(Unsettled(c), ahead)
    BY UnsettledChain DEF LinesFull
  <2>2. \A n \in DOMAIN Waiting(c) : Waiting(c)[n] \in Unsettled(c)
    BY <2>1, LineSeq DEF Waiting
  <2> QED BY <1>3, <2>2 DEF Abstract!Range
<1>8. Turn' = Turn
  BY <1>1, <1>2 DEF Turn
<1>9. [c \in Branches |-> Waiting(c)]' =
        [[c \in Branches |-> Waiting(c)] EXCEPT ![b] = Append(@, i)]
  BY <1>4, <1>5
<1>10. Abstract!Ask(i, b)
  BY <1>7, <1>8, <1>9 DEF Abstract!Ask, Turn
<1> QED BY <1>6, <1>10

\* A call with the turn, or about to have it, stands at the head of its branch's queue.
LEMMA HeadOfLine ==
  ASSUME QueueInv, LinesFull, NEW i \in Calls, st[i] \in Live,
         \A j \in ahead[i] : st[j] = "done"
  PROVE  /\ br[i] \in Branches
         /\ Waiting(br[i]) # <<>> /\ Head(Waiting(br[i])) = i
         /\ Full(Unsettled(br[i]) \ {i}, ahead)
         /\ Line(Unsettled(br[i]) \ {i}, ahead) = Tail(Waiting(br[i]))
<1>1. br[i] \in Branches
  BY DEF QueueInv, TypeOK, Ordered, Live
<1>2. i \in Unsettled(br[i]) /\ ahead[i] \cap Unsettled(br[i]) = {}
  BY DEF Unsettled, Of, Live
<1>3. Full(Unsettled(br[i]), ahead) /\ Chain(Unsettled(br[i]), ahead)
  BY <1>1, UnsettledChain DEF LinesFull
<1>4. Waiting(br[i]) = Line(Unsettled(br[i]), ahead)
  BY DEF Waiting
<1> QED BY <1>1, <1>2, <1>3, <1>4, LineLeft

\* A step that leaves the unsettled calls and their order alone keeps every queue.
LEMMA QueuesSame ==
  ASSUME QueueInv, LinesFull, \A b \in Branches : Unsettled(b)' = Unsettled(b),
         \A b \in Branches : \A i \in Unsettled(b) :
           ahead'[i] \cap Unsettled(b) = ahead[i] \cap Unsettled(b)
  PROVE  LinesFull' /\ [b \in Branches |-> Waiting(b)]' = [b \in Branches |-> Waiting(b)]
<1>1. \A b \in Branches : Full(Unsettled(b)', ahead') /\ Waiting(b)' = Waiting(b)
  BY WaitingSame
<1> QED BY <1>1 DEF LinesFull

\* The first job of a turn begins it.
LEMMA InvokeBegins ==
  ASSUME QueueInv, LinesFull, NEW i \in Calls, NEW b \in Branches, b = br[i], Invoke(i), QueueInv'
  PROVE  LinesFull' /\ Abstract!Begin(b)
<1>1. /\ st[i] = "queued" /\ st'[i] = "running" /\ \A k \in Calls : k # i => st'[k] = st[k]
      /\ UNCHANGED <<br, ahead>>
  BY DEF Invoke, QueueInv, TypeOK
<1>2. \A c \in Branches : Unsettled(c)' = Unsettled(c)
  BY <1>1 DEF Unsettled, Of, Live
<1>3. LinesFull' /\ [c \in Branches |-> Waiting(c)]' = [c \in Branches |-> Waiting(c)]
  BY <1>1, <1>2, QueuesSame
<1>4. \A j \in ahead[i] : st[j] = "done"
  <2>1. \A j \in ahead[i] : st'[j] = "done"
    BY <1>1 DEF QueueInv, TurnsFinished
  <2> QED BY <1>1, <2>1 DEF QueueInv, TypeOK
<1>5. Waiting(b) # <<>> /\ Head(Waiting(b)) = i
  BY <1>1, <1>4, HeadOfLine DEF Live
<1>6. i \notin Turn /\ Turn' = Turn \cup {i}
  BY <1>1 DEF Turn
<1>7. Abstract!Begin(b)
  BY <1>3, <1>5, <1>6 DEF Abstract!Begin, Turn
<1> QED BY <1>3, <1>7

\* The .finally of a turn ends it: the next call of the branch is at the head.
LEMMA SettleEnds ==
  ASSUME QueueInv, LinesFull, NEW i \in Calls, NEW b \in Branches, b = br[i], Settle(i)
  PROVE  LinesFull' /\ Abstract!End(b)
<1>1. /\ st[i] = "returned" /\ st'[i] = "settled" /\ \A k \in Calls : k # i => st'[k] = st[k]
      /\ UNCHANGED <<br, ahead>>
  BY DEF Settle, QueueInv, TypeOK
<1>2. \A j \in ahead[i] : st[j] = "done"
  BY <1>1 DEF QueueInv, TurnsFinished
<1>3. /\ Waiting(b) # <<>> /\ Head(Waiting(b)) = i
      /\ Full(Unsettled(b) \ {i}, ahead)
      /\ Line(Unsettled(b) \ {i}, ahead) = Tail(Waiting(b))
  BY <1>1, <1>2, HeadOfLine DEF Live
<1>4. /\ Unsettled(b)' = Unsettled(b) \ {i}
      /\ \A c \in Branches : c # b => Unsettled(c)' = Unsettled(c)
  BY <1>1 DEF Unsettled, Of, Live
<1>5. Full(Unsettled(b)', ahead') /\ Waiting(b)' = Tail(Waiting(b))
  <2>1. Waiting(b)' = Line(Unsettled(b)', ahead')
    BY DEF Waiting
  <2>2. Line(Unsettled(b)', ahead') = Line(Unsettled(b) \ {i}, ahead)
    BY <1>1, <1>4
  <2>3. Full(Unsettled(b)', ahead')
    BY <1>1, <1>3, <1>4
  <2> QED BY <1>3, <2>1, <2>2, <2>3
<1>6. \A c \in Branches : c # b => Full(Unsettled(c)', ahead') /\ Waiting(c)' = Waiting(c)
  BY <1>1, <1>4, WaitingSame
<1>7. LinesFull'
  BY <1>1, <1>5, <1>6 DEF LinesFull
<1>8. [c \in Branches |-> Waiting(c)]' =
        [[c \in Branches |-> Waiting(c)] EXCEPT ![b] = Tail(@)]
  BY <1>1, <1>3, <1>5, <1>6
<1>9. i \in Turn /\ Turn' = Turn \ {i}
  BY <1>1 DEF Turn
<1>10. Abstract!End(b)
  BY <1>3, <1>8, <1>9 DEF Abstract!End, Turn
<1> QED BY <1>7, <1>10

\* The callers see nothing of the other steps.
LEMMA OthersHidden ==
  ASSUME QueueInv, LinesFull,
         \/ \E i \in Calls : Return(i) \/ Clean(i) \/ ForgetCall(i)
         \/ \E b \in Branches : Mint(b) \/ ForgetBranch(b)
         \/ UNCHANGED vars
  PROVE  LinesFull' /\ UNCHANGED <<[b \in Branches |-> Waiting(b)], Turn>>
<1>1. ASSUME NEW i \in Calls, ForgetCall(i)
      PROVE  LinesFull' /\ UNCHANGED <<[b \in Branches |-> Waiting(b)], Turn>>
  <2>1. /\ st[i] = "done" /\ st'[i] = "new" /\ \A k \in Calls : k # i => st'[k] = st[k]
        /\ \A k \in Calls : k # i => br'[k] = br[k]
        /\ \A k \in Calls : k # i => ahead'[k] = ahead[k] \ {i}
    BY <1>1 DEF ForgetCall, QueueInv, TypeOK
  <2>2. \A b \in Branches : Unsettled(b)' = Unsettled(b) /\ i \notin Unsettled(b)
    BY <2>1 DEF Unsettled, Of, Live
  <2>3. \A b \in Branches : \A k \in Unsettled(b) : k \in Calls /\ k # i
    BY <2>2 DEF Unsettled, Of
  <2>4. \A b \in Branches : \A k \in Unsettled(b) :
          ahead'[k] \cap Unsettled(b) = ahead[k] \cap Unsettled(b)
    BY <2>1, <2>2, <2>3
  <2>5. Turn' = Turn
    BY <2>1 DEF Turn
  <2> QED BY <2>2, <2>4, <2>5, QueuesSame
<1>2. ASSUME \/ \E i \in Calls : Return(i) \/ Clean(i)
             \/ \E b \in Branches : Mint(b) \/ ForgetBranch(b)
             \/ UNCHANGED vars
      PROVE  LinesFull' /\ UNCHANGED <<[b \in Branches |-> Waiting(b)], Turn>>
  <2>1. /\ UNCHANGED <<br, ahead>>
        /\ \A k \in Calls : st'[k] \in Live <=> st[k] \in Live
        /\ \A k \in Calls :
             st'[k] \in {"running", "returned"} <=> st[k] \in {"running", "returned"}
    BY <1>2 DEF Return, Clean, Mint, ForgetBranch, vars, Live, QueueInv, TypeOK
  <2>2. \A b \in Branches : Unsettled(b)' = Unsettled(b)
    BY <2>1 DEF Unsettled, Of
  <2>3. Turn' = Turn
    BY <2>1 DEF Turn
  <2> QED BY <2>1, <2>2, <2>3, QueuesSame
<1> QED BY <1>1, <1>2

\* Promise chaining implements the queues of Lanes: each step of the chains begins or
\* ends a turn at the head of a branch's queue, adds a call to its end, or is invisible.
THEOREM QueueImplementsLanes == Spec => Abstract!Safety
<1>1. Init => LinesFull /\ Abstract!Init
  <2> SUFFICES ASSUME Init PROVE LinesFull /\ Abstract!Init
    OBVIOUS
  <2>1. \A b \in Branches : Unsettled(b) = {}
    BY DEF Init, Unsettled, Of
  <2>2. \A b \in Branches : Full(Unsettled(b), ahead) /\ Waiting(b) = <<>>
    <3> TAKE b \in Branches
    <3>1. IsFiniteSet(Unsettled(b)) /\ Cardinality(Unsettled(b)) = 0
      BY <2>1, FS_EmptySet
    <3> QED BY <3>1 DEF Full, Waiting, Line
  <2>3. Turn = {}
    BY DEF Init, Turn
  <2> QED BY <2>2, <2>3 DEF LinesFull, Abstract!Init, Turn
<1>2. QueueInv /\ LinesFull /\ [Next]_vars => LinesFull' /\ [Abstract!Next]_Abstract!lanesVars
  <2> SUFFICES ASSUME QueueInv, LinesFull, [Next]_vars
               PROVE  LinesFull' /\ [Abstract!Next]_Abstract!lanesVars
    OBVIOUS
  <2>1. ASSUME NEW i \in Calls, NEW b \in Branches, Enqueue(i, b)
        PROVE  LinesFull' /\ Abstract!Next
    BY <2>1, EnqueueAsks DEF Abstract!Next
  <2>2. ASSUME NEW i \in Calls, Invoke(i) \/ Settle(i)
        PROVE  LinesFull' /\ Abstract!Next
    <3>1. br[i] \in Branches
      BY <2>2 DEF Invoke, Settle, QueueInv, TypeOK, Ordered
    <3>2. QueueInv'
      BY NextInv
    <3>3. PICK b \in Branches : b = br[i]
      BY <3>1
    <3>4. LinesFull' /\ (Abstract!Begin(b) \/ Abstract!End(b))
      BY <2>2, <3>2, <3>3, InvokeBegins, SettleEnds
    <3> QED BY <3>4 DEF Abstract!Next
  <2>3. ASSUME \/ \E i \in Calls : Return(i) \/ Clean(i) \/ ForgetCall(i)
               \/ \E b \in Branches : Mint(b) \/ ForgetBranch(b)
               \/ UNCHANGED vars
        PROVE  LinesFull' /\ UNCHANGED Abstract!lanesVars
    BY <2>3, OthersHidden DEF Abstract!lanesVars, Turn
  <2>4. \/ \E i \in Calls, b \in Branches : Enqueue(i, b)
        \/ \E i \in Calls : Invoke(i) \/ Settle(i)
        \/ \E i \in Calls : Return(i) \/ Clean(i) \/ ForgetCall(i)
        \/ \E b \in Branches : Mint(b) \/ ForgetBranch(b)
        \/ UNCHANGED vars
    BY DEF Next, Run, RestartUnderNewId, Step
  <2> QED BY <2>1, <2>2, <2>3, <2>4
<1> QED BY <1>1, <1>2, QueueInvariant, PTL DEF Spec, Abstract!Safety

=============================================================================
