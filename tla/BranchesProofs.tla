---------------------------- MODULE BranchesProofs ----------------------------
(* Theorems about Branches, for any number of branches, timelines, names and      *)
(* requests in flight.  One invariant carries them all: what a request may rely   *)
(* on at each of its awaits because it has its branch's lane, that no two         *)
(* timelines are taken for one another, and a forest that the rows' parents and    *)
(* the engine's ancestors form together.                                           *)
EXTENDS Branches, TLAPS

Turns == {"stop", "fork", "detach", "undo", "launch", "deletePs", "deleteSk"}

\* The op has the turn of its branch.
Working(o) == op[o].pc \in Turns /\ op[o].kind # "newProject"

\* Where a request of each kind can be suspended, and what it then knows.
Shape(r) ==
  /\ r.pc = "idle" <=> r.kind = "none"
  /\ r.pc = "ask" => r.kind # "newProject"
  /\ r.kind = "newProject" => r.pc \in {"fork", "undo"}
  /\ r.pc = "stop" => r.kind \in {"delete", "drain", "start", "stop"} \cup Swaps
  /\ r.pc \in {"fork", "undo"} => r.kind \in {"newProject", "create"} \cup Swaps
  /\ r.pc = "detach" => r.kind = "restore"
  /\ r.pc = "launch" => r.kind \in {"start"} \cup Swaps
  /\ r.pc \in {"deletePs", "deleteSk"} => r.kind \in {"delete", "drain"}
  /\ r.pc \in {"sweep", "tenant", "project"} => r.kind = "drain"
  /\ r.pc \in Turns \cup {"ask"} /\ r.kind # "newProject" => r.on \in Branches
  /\ r.new # NoTimeline => r.kind \in {"newProject", "create"} \cup Swaps /\ r.pc # "ask"
  /\ r.pc \in {"fork", "detach", "undo"} \/ (r.pc = "stop" /\ r.kind \in Swaps)
       => r.new # NoTimeline
  /\ r.kind \in {"create", "rename"} => r.want \in Names

\* The turn: nobody else has the branch's lane, the row is there, what must have no
\* children keeps none, and the source of the fork is still the row's timeline.
TurnOK(o) ==
  /\ Working(o) => lane[op[o].on] = o /\ op[o].on \in rows
  /\ Working(o) /\ op[o].kind \in {"delete", "drain", "reset"} => Children(op[o].on) = {}
  /\ op[o].kind = "create" /\ op[o].on \in rows => row[op[o].on].tl = op[o].from
  /\ op[o].kind = "restore" /\ op[o].pc \in {"stop", "fork", "detach"} =>
       row[op[o].on].tl = op[o].from
  /\ op[o].pc \in {"deletePs", "deleteSk"} => status[op[o].on] = "stopped"
  /\ op[o].pc = "deleteSk" => row[op[o].on].tl \notin ps
  /\ op[o].pc \in {"tenant", "project"} => rows = {}
  /\ op[o].kind = "newProject" => ~project /\ op[o].from = NoTimeline

\* The new timeline: no row's yet, on the engine only between fork and compensation,
\* and nothing forks off it.
NewOK(o) ==
  /\ op[o].new \notin RowTimelines
  /\ op[o].new \in ps => op[o].pc \in {"detach", "undo"}
  /\ op[o].pc = "detach" => op[o].new \in ps
  /\ op[o].new # NoTimeline /\ op[o].pc # "undo" => \A t \in Timelines : anc[t] # op[o].new

OpOK(o) == Shape(op[o]) /\ TurnOK(o) /\ NewOK(o)

\* No two requests are after the same timeline, and a project is created alone.
Apart(q, r) ==
  /\ q.new # NoTimeline => r.from # q.new /\ r.new # q.new
  /\ q.kind = "newProject" => r.kind \notin {"newProject", "drain"}

Pairs ==
  /\ \A o \in Ops : op[o].new # NoTimeline => op[o].from # op[o].new
  /\ \A o, p \in Ops : o # p => Apart(op[o], op[p])

Distinct == \A b, c \in rows : b # c => row[b].tl # row[c].tl

\* In S, neither the row's parent nor the engine leads on from b.
Top(b, S) == row[b].parent \notin S /\ \A c \in S : anc[row[b].tl] # row[c].tl

\* Parents and ancestors together never lead back: a restore moves rows along either.
Forest == \A S \in SUBSET rows : S # {} => \E b \in S : Top(b, S)

Ancestors == \A t \in Timelines : anc[t] \in ps \cup {NoTimeline}

RowsOK   == ForeignKeys /\ Distinct /\ Forest
EngineOK == Ancestors /\ RowsBacked /\ NoOrphans
Inv      == TypeOK /\ RowsOK /\ EngineOK /\ ComputesBacked /\ Pairs /\ \A o \in Ops : OpOK(o)

-----------------------------------------------------------------------------
(* A request that another one's step leaves alone.                           *)

\* What a step of somebody else does not take from op p.
Spares(p) ==
  /\ op'[p] = op[p]
  /\ \A b \in Branches : lane[b] = p =>
       /\ lane'[b] = p
       /\ b \in rows => b \in rows'
       /\ Children(b) = {} => Children(b)' = {}
       /\ status[b] = "stopped" => status'[b] = "stopped"
  /\ \A b \in rows \cap rows' : row'[b].tl = row[b].tl
  /\ op[p].on \in rows' => op[p].on \in rows
  /\ rows = {} /\ op[p].kind = "drain" => rows' = {}
  /\ op[p].kind = "newProject" => project' = project
  /\ op[p].new # NoTimeline =>
       /\ op[p].new \in RowTimelines' => op[p].new \in RowTimelines
       /\ op[p].new \in ps' <=> op[p].new \in ps
       /\ \A t \in Timelines : anc'[t] = op[p].new => anc[t] = op[p].new
  /\ ps' \cap RowTimelines \subseteq ps

LEMMA RowFacts ==
  ASSUME BrAssumption, TypeOK
  PROVE  /\ rows \subseteq Branches
         /\ \A b \in rows : /\ row[b] \in RowType
                            /\ row[b].parent \in Branches \cup {NoBranch}
                            /\ row[b].tl \in Timelines /\ row[b].tl # NoTimeline
                            /\ row[b].name \in Names \cup {Archived}
BY DEF BrAssumption, TypeOK, rows, RowType

LEMMA Bystander ==
  ASSUME BrAssumption, TypeOK, TypeOK', NEW p \in Ops, OpOK(p), Spares(p)
  PROVE  OpOK(p)'
<1>0. op'[p] = op[p] /\ op[p] \in OpType /\ Shape(op[p])
  BY DEF Spares, OpOK, TypeOK
<1>1. Shape(op[p])'
  BY <1>0 DEF Shape, Turns, Swaps
<1>2. Working(p) => /\ op[p].on \in Branches /\ lane[op[p].on] = p /\ op[p].on \in rows
                    /\ lane'[op[p].on] = p /\ op[p].on \in rows'
                    /\ row'[op[p].on].tl = row[op[p].on].tl
                    /\ Children(op[p].on) = {} => Children(op[p].on)' = {}
                    /\ status[op[p].on] = "stopped" => status'[op[p].on] = "stopped"
  BY <1>0 DEF OpOK, TurnOK, Working, Shape, Spares, Turns
<1>3. Working(p)' <=> Working(p)
  BY <1>0 DEF Working
<1>4. TurnOK(p)'
  <2>1. Working(p) => lane'[op'[p].on] = p /\ op'[p].on \in rows'
    BY <1>0, <1>2
  <2>2. Working(p) /\ op'[p].kind \in {"delete", "drain", "reset"} => Children(op[p].on)' = {}
    BY <1>0, <1>2 DEF OpOK, TurnOK
  <2>3. op'[p].kind = "create" /\ op'[p].on \in rows' => row'[op'[p].on].tl = op'[p].from
    BY <1>0 DEF OpOK, TurnOK, Spares
  <2>4. op'[p].kind = "restore" /\ op'[p].pc \in {"stop", "fork", "detach"} =>
          row'[op'[p].on].tl = op'[p].from
    BY <1>0, <1>2 DEF OpOK, TurnOK, Working, Turns
  <2>5. op'[p].pc \in {"deletePs", "deleteSk"} => status'[op'[p].on] = "stopped"
    BY <1>0, <1>2 DEF OpOK, TurnOK, Working, Turns, Shape
  <2>6. op'[p].pc = "deleteSk" => row'[op'[p].on].tl \notin ps'
    BY <1>0, <1>2 DEF OpOK, TurnOK, Working, Turns, Shape, Spares, RowTimelines
  <2>7. op'[p].pc \in {"tenant", "project"} => rows' = {}
    BY <1>0 DEF OpOK, TurnOK, Spares, Shape
  <2>8. op'[p].kind = "newProject" => ~project' /\ op'[p].from = NoTimeline
    BY <1>0 DEF OpOK, TurnOK, Spares
  <2> QED BY <1>3, <2>1, <2>2, <2>3, <2>4, <2>5, <2>6, <2>7, <2>8 DEF TurnOK
<1>5. NewOK(p)'
  <2>1. CASE op[p].new = NoTimeline
    <3>1. NoTimeline \notin RowTimelines' /\ NoTimeline \notin ps'
      BY BrAssumption DEF RowTimelines, rows, RowType, TypeOK, BrAssumption
    <3> QED BY <1>0, <2>1, <3>1 DEF NewOK, OpOK, Shape
  <2>2. CASE op[p].new # NoTimeline
    BY <1>0, <2>2 DEF NewOK, OpOK, Spares
  <2> QED BY <2>1, <2>2
<1> QED BY <1>1, <1>4, <1>5 DEF OpOK

-----------------------------------------------------------------------------
(* Steps that touch neither rows nor engine.                                 *)

\* op[o] becomes r; what others hold stays theirs.
Moves(o, r) ==
  /\ op' = [op EXCEPT ![o] = r]
  /\ lane' \in [Branches -> Ops \cup {NoOp}]
  /\ \A b \in Branches, p \in Ops \ {o} : lane[b] = p => lane'[b] = p

Quiet(o) ==
  /\ UNCHANGED <<project, row, ps, anc, doomed>>
  /\ status' \in [Branches -> {"stopped", "starting", "running", "failed"}]
  /\ \A b \in Branches, p \in Ops \ {o} :
       lane[b] = p /\ status[b] = "stopped" => status'[b] = "stopped"
  /\ ComputesBacked'

LEMMA PairsStep ==
  ASSUME TypeOK, Pairs, NEW o \in Ops, NEW r \in OpType, op' = [op EXCEPT ![o] = r],
         r.new # NoTimeline => r.from # r.new,
         \A p \in Ops \ {o} : Apart(r, op[p]) /\ Apart(op[p], r)
  PROVE  Pairs'
<1>1. op'[o] = r /\ \A p \in Ops \ {o} : op'[p] = op[p]
  BY DEF TypeOK
<1>2. \A p \in Ops : op'[p].new # NoTimeline => op'[p].from # op'[p].new
  BY <1>1 DEF Pairs
<1>3. ASSUME NEW p \in Ops, NEW q \in Ops, p # q
      PROVE  Apart(op'[p], op'[q])
  BY <1>1, <1>3 DEF Pairs
<1> QED BY <1>2, <1>3 DEF Pairs, Apart

\* A request that goes on with the timeline it has, and a source it had or has read
\* from a row, stays apart from the others.
LEMMA StaysApart ==
  ASSUME BrAssumption, Inv, NEW o \in Ops, NEW r,
         r.kind \in {op[o].kind, "none"} \/ r.kind \notin {"newProject", "drain"},
         r.new \in {op[o].new, NoTimeline},
         r.from \in {op[o].from, NoTimeline} \cup RowTimelines
  PROVE  /\ r.new # NoTimeline => r.from # r.new
         /\ \A p \in Ops \ {o} : Apart(r, op[p]) /\ Apart(op[p], r)
<1>1. \A p \in Ops : op[p].new \notin RowTimelines
  BY DEF Inv, OpOK, NewOK
<1>2. r.new # NoTimeline => r.from # r.new
  BY <1>1 DEF Inv, Pairs
<1>3. ASSUME NEW p \in Ops \ {o}
      PROVE  Apart(r, op[p]) /\ Apart(op[p], r)
  <2>1. Apart(op[o], op[p]) /\ Apart(op[p], op[o])
    BY DEF Inv, Pairs
  <2> QED BY <1>1, <2>1 DEF Apart
<1> QED BY <1>2, <1>3

LEMMA QuietStep ==
  ASSUME BrAssumption, Inv, NEW o \in Ops, NEW r \in OpType, Moves(o, r), Quiet(o),
         OpOK(o)',
         r.new = op[o].new \/ op[o].new \notin ps,
         r.new # NoTimeline => r.from # r.new,
         \A p \in Ops \ {o} : Apart(r, op[p]) /\ Apart(op[p], r)
  PROVE  Inv'
<1>1. TypeOK'
  BY DEF Inv, TypeOK, Moves, Quiet
<1>2. op'[o] = r /\ \A p \in Ops \ {o} : op'[p] = op[p]
  BY DEF Moves, Inv, TypeOK
<1>3. rows' = rows /\ RowTimelines' = RowTimelines /\ \A b : Children(b)' = Children(b)
  BY DEF Quiet, rows, RowTimelines, Children
<1>4. RowsOK' /\ Ancestors' /\ RowsBacked'
  BY <1>3 DEF Inv, RowsOK, ForeignKeys, Distinct, Forest, Top, EngineOK, Ancestors, RowsBacked,
              Quiet
<1>5. NoOrphans'
  BY <1>2, <1>3 DEF Inv, EngineOK, NoOrphans, InFlight, Quiet
<1>6. ASSUME NEW p \in Ops \ {o}
      PROVE  OpOK(p)'
  <2>1. Spares(p)
    BY <1>2, <1>3 DEF Spares, Moves, Quiet
  <2> QED BY <1>1, <2>1, Bystander DEF Inv
<1>7. Pairs'
  BY PairsStep DEF Inv, Moves
<1> QED BY <1>1, <1>4, <1>5, <1>6, <1>7 DEF Inv, EngineOK, Quiet

\* Every OpOK(o)' below starts from here.
LEMMA NextOp ==
  ASSUME TypeOK, NEW o \in Ops, NEW r \in OpType, Moves(o, r)
  PROVE  op'[o] = r /\ \A p \in Ops \ {o} : op'[p] = op[p]
BY DEF TypeOK, Moves

LEMMA IdleOK ==
  ASSUME BrAssumption, TypeOK', NEW o \in Ops, op'[o] = Idle
  PROVE  OpOK(o)'
<1>1. NoTimeline \notin RowTimelines' /\ NoTimeline \notin ps'
  BY DEF RowTimelines, rows, RowType, TypeOK, BrAssumption
<1> QED BY <1>1 DEF OpOK, Shape, TurnOK, NewOK, Working, Idle, Turns, Swaps

LEMMA IdleType == Idle \in OpType /\ Idle.new = NoTimeline /\ Idle.from = NoTimeline
                  /\ Idle.kind = "none"
BY DEF Idle, OpType

\* A request ends before it has changed a row: its timeline, if any, is gone.
LEMMA EndQuiet ==
  ASSUME BrAssumption, Inv, NEW o \in Ops, End(o), Quiet(o), op[o].new \notin ps
  PROVE  Inv'
<1>1. Moves(o, Idle)
  BY DEF End, Moves, Inv, TypeOK
<1>2. TypeOK' /\ op'[o] = Idle
  BY <1>1, IdleType DEF Inv, TypeOK, Moves, Quiet
<1>3. OpOK(o)'
  BY <1>2, IdleOK
<1> QED BY <1>1, <1>3, IdleType, StaysApart, QuietStep

LEMMA EndTurnQuiet ==
  ASSUME BrAssumption, Inv, NEW o \in Ops, At(o, "ask"), lane[op[o].on] = NoOp,
         EndTurn(o), UNCHANGED <<project, row, ps, anc, status, doomed>>
  PROVE  Inv'
<1>0. op[o] \in OpType /\ Shape(op[o]) /\ op[o].new = NoTimeline /\ op[o].on \in Branches
  BY DEF Inv, TypeOK, OpOK, Shape, At, Turns
<1>1. Quiet(o)
  BY DEF Quiet, Inv, TypeOK, ComputesBacked, rows
<1>2. CASE op[o].kind # "drain"
  <2>1. op[o].new \notin ps
    BY <1>0 DEF Inv, TypeOK, BrAssumption
  <2> QED BY <1>1, <1>2, <2>1, EndQuiet DEF EndTurn
<1>3. CASE op[o].kind = "drain"
  <2> DEFINE r == [op[o] EXCEPT !.pc = "sweep", !.on = NoBranch]
  <2>1. r \in OpType /\ r.pc = "sweep" /\ r.kind = "drain" /\ r.new = NoTimeline
        /\ r.on = NoBranch /\ r.from = op[o].from
    BY <1>0, <1>3 DEF OpType, Places
  <2>2. Moves(o, r)
    BY <1>3, <1>0 DEF EndTurn, Moves, Inv, TypeOK, BrAssumption, OpType
  <2> HIDE DEF r
  <2>3. op'[o] = r
    BY <2>1, <2>2, NextOp DEF Inv
  <2>4. NoTimeline \notin RowTimelines' /\ NoTimeline \notin ps'
    BY DEF RowTimelines, rows, RowType, Inv, TypeOK, BrAssumption
  <2>5. OpOK(o)'
    BY <2>1, <2>3, <2>4 DEF OpOK, Shape, TurnOK, NewOK, Working, Turns, Swaps
  <2> QED BY <1>0, <1>1, <1>3, <2>1, <2>2, <2>5, StaysApart, QuietStep
<1> QED BY <1>2, <1>3

LEMMA RefuseInv == ASSUME BrAssumption, Inv, NEW o \in Ops, Refuse(o) PROVE Inv'
BY EndTurnQuiet DEF Refuse, MyTurn, dbVars, psVars

\* What a request that takes its turn starts from.
LEMMA TakesTurn ==
  ASSUME BrAssumption, Inv, NEW o \in Ops, MyTurn(o), NEW r \in OpType, TakeTurn(o, r)
  PROVE  /\ Moves(o, r) /\ op'[o] = r
         /\ op[o] \in OpType /\ Shape(op[o]) /\ op[o].pc = "ask" /\ op[o].new = NoTimeline
         /\ op[o].on \in Branches /\ lane'[op[o].on] = o
         /\ NoTimeline \notin RowTimelines /\ NoTimeline \notin ps
         /\ \A p \in Ops : lane[op[o].on] # p
<1>1. op[o] \in OpType /\ Shape(op[o]) /\ op[o].pc = "ask" /\ op[o].new = NoTimeline
      /\ op[o].on \in Branches
  BY DEF Inv, TypeOK, OpOK, Shape, MyTurn, At, Turns
<1>2. Moves(o, r) /\ op'[o] = r /\ lane'[op[o].on] = o
  BY <1>1 DEF TakeTurn, Moves, MyTurn, Inv, TypeOK, BrAssumption
<1>3. NoTimeline \notin RowTimelines /\ NoTimeline \notin ps
  BY DEF RowTimelines, rows, RowType, Inv, TypeOK, BrAssumption
<1>4. \A p \in Ops : lane[op[o].on] # p
  BY DEF MyTurn, BrAssumption
<1> QED BY <1>1, <1>2, <1>3, <1>4

LEMMA FreshApart ==
  ASSUME BrAssumption, Inv, NEW o \in Ops, NEW r, NEW t \in FreshTl,
         r.new = t, r.kind = op[o].kind, r.from \in {op[o].from} \cup RowTimelines
  PROVE  /\ r.new # NoTimeline /\ r.from # r.new /\ r.new \notin RowTimelines \cup ps
         /\ \A x \in Timelines : anc[x] # r.new
         /\ \A p \in Ops \ {o} : Apart(r, op[p]) /\ Apart(op[p], r)
<1>1. /\ t \in Timelines /\ t # NoTimeline /\ t \notin ps /\ t \notin RowTimelines
      /\ \A p \in Ops : t # op[p].new /\ t # op[p].from
  BY DEF FreshTl, InFlight, Sources, BrAssumption
<1>2. \A p \in Ops : op[p].new \notin RowTimelines
  BY DEF Inv, OpOK, NewOK
<1>3. \A x \in Timelines : anc[x] # t
  BY <1>1 DEF Inv, EngineOK, Ancestors
<1>4. ASSUME NEW p \in Ops \ {o}
      PROVE  Apart(r, op[p]) /\ Apart(op[p], r)
  <2>1. Apart(op[o], op[p]) /\ Apart(op[p], op[o])
    BY DEF Inv, Pairs
  <2> QED BY <1>1, <1>2, <2>1 DEF Apart
<1> QED BY <1>1, <1>3, <1>4

LEMMA CreateInv == ASSUME BrAssumption, Inv, NEW o \in Ops, Create(o) PROVE Inv'
<1>1. PICK t \in FreshTl : TakeTurn(o, [op[o] EXCEPT !.pc = "fork", !.new = t])
  BY DEF Create
<1> DEFINE r == [op[o] EXCEPT !.pc = "fork", !.new = t]
<1>3. MyTurn(o) /\ op[o].kind = "create" /\ op[o].on \in rows
  BY DEF Create
<1>2. /\ r \in OpType /\ r.pc = "fork" /\ r.new = t /\ r.kind = "create" /\ r.on = op[o].on
      /\ r.from = op[o].from /\ r.want = op[o].want /\ TakeTurn(o, r)
  <2>1. op[o] \in OpType /\ t \in Timelines
    BY DEF Inv, TypeOK, FreshTl
  <2>2. TakeTurn(o, r)
    BY <1>1
  <2> QED BY <1>3, <2>1, <2>2 DEF OpType, Places
<1> HIDE DEF r
<1>4. UNCHANGED <<project, row, ps, anc, status, doomed>> /\ Quiet(o)
  BY DEF Create, Quiet, Inv, TypeOK, ComputesBacked, rows, dbVars, psVars
<1>5. OpOK(o)'
  <2>1. rows' = rows /\ RowTimelines' = RowTimelines
    BY <1>4 DEF rows, RowTimelines
  <2>2. row[op[o].on].tl = op[o].from
    BY <1>3 DEF Inv, OpOK, TurnOK
  <2> QED BY <1>2, <1>3, <1>4, <2>1, <2>2, TakesTurn, FreshApart
          DEF OpOK, Shape, TurnOK, NewOK, Working, Turns, Swaps
<1> QED BY <1>2, <1>3, <1>4, <1>5, TakesTurn, FreshApart, QuietStep

LEMMA QuietSame ==
  ASSUME Inv, NEW o \in Ops, UNCHANGED <<project, row, ps, anc, status, doomed>>
  PROVE  Quiet(o)
BY DEF Quiet, Inv, TypeOK, ComputesBacked, rows

\* The endpoint of a branch that nobody else is at.
LEMMA QuietStatus ==
  ASSUME BrAssumption, Inv, NEW o \in Ops, UNCHANGED <<project, row, ps, anc, doomed>>,
         NEW b \in rows, lane[b] \in {o, NoOp},
         NEW s \in {"stopped", "starting", "running", "failed"},
         s = "running" => row[b].tl \in ps,
         status' = [status EXCEPT ![b] = s]
  PROVE  Quiet(o)
<1>1. b \in Branches /\ rows' = rows
  BY DEF rows
<1>2. status'[b] = s /\ \A c \in Branches \ {b} : status'[c] = status[c]
  BY <1>1 DEF Inv, TypeOK
<1>3. status' \in [Branches -> {"stopped", "starting", "running", "failed"}]
  BY DEF Inv, TypeOK
<1>4. \A c \in Branches, p \in Ops \ {o} : lane[c] = p => c # b
  BY DEF BrAssumption
<1> QED BY <1>1, <1>2, <1>3, <1>4 DEF Quiet, Inv, ComputesBacked

LEMMA GoesOn ==
  ASSUME BrAssumption, Inv, NEW o \in Ops, NEW r \in OpType, Moves(o, r), Quiet(o),
         r.kind = op[o].kind, r.new = op[o].new, r.from \in {op[o].from} \cup RowTimelines,
         OpOK(o)'
  PROVE  Inv'
BY StaysApart, QuietStep

LEMMA DeleteInv == ASSUME BrAssumption, Inv, NEW o \in Ops, Delete(o) PROVE Inv'
<1> DEFINE r == [op[o] EXCEPT !.pc = "stop"]
<1>1. /\ MyTurn(o) /\ op[o].kind \in {"delete", "drain"} /\ op[o].on \in rows
      /\ Children(op[o].on) = {} /\ TakeTurn(o, r)
      /\ UNCHANGED <<project, row, ps, anc, status, doomed>>
  BY DEF Delete, Leaves, dbVars, psVars
<1>2. /\ r \in OpType /\ r.pc = "stop" /\ r.new = op[o].new /\ r.kind = op[o].kind
      /\ r.on = op[o].on /\ r.from = op[o].from /\ r.want = op[o].want
  BY DEF Inv, TypeOK, OpType, Places
<1> HIDE DEF r
<1>3. OpOK(o)'
  <2>1. rows' = rows /\ RowTimelines' = RowTimelines /\ \A b : Children(b)' = Children(b)
    BY <1>1 DEF rows, RowTimelines, Children
  <2> QED BY <1>1, <1>2, <2>1, TakesTurn
          DEF OpOK, Shape, TurnOK, NewOK, Working, Turns, Swaps
<1> QED BY <1>1, <1>2, <1>3, TakesTurn, QuietSame, GoesOn

LEMMA StopInv == ASSUME BrAssumption, Inv, NEW o \in Ops, Stop(o) PROVE Inv'
<1> DEFINE r == [op[o] EXCEPT !.pc = "stop"]
<1>1. /\ MyTurn(o) /\ op[o].kind = "stop" /\ op[o].on \in rows /\ TakeTurn(o, r)
      /\ UNCHANGED <<project, row, ps, anc, status, doomed>>
  BY DEF Stop, dbVars, psVars
<1>2. /\ r \in OpType /\ r.pc = "stop" /\ r.new = op[o].new /\ r.kind = op[o].kind
      /\ r.on = op[o].on /\ r.from = op[o].from /\ r.want = op[o].want
  BY DEF Inv, TypeOK, OpType, Places
<1> HIDE DEF r
<1>3. OpOK(o)'
  <2>1. rows' = rows /\ RowTimelines' = RowTimelines /\ \A b : Children(b)' = Children(b)
    BY <1>1 DEF rows, RowTimelines, Children
  <2> QED BY <1>1, <1>2, <2>1, TakesTurn
          DEF OpOK, Shape, TurnOK, NewOK, Working, Turns, Swaps
<1> QED BY <1>1, <1>2, <1>3, TakesTurn, QuietSame, GoesOn

LEMMA StartInv == ASSUME BrAssumption, Inv, NEW o \in Ops, Start(o) PROVE Inv'
<1>1. PICK next \in {"stop", "launch"} :
        /\ TakeTurn(o, [op[o] EXCEPT !.pc = next])
        /\ \/ UNCHANGED status
           \/ status' = [status EXCEPT ![op[o].on] = "starting"]
  BY DEF Start
<1> DEFINE r == [op[o] EXCEPT !.pc = next]
<1>2. /\ MyTurn(o) /\ op[o].kind = "start" /\ op[o].on \in rows /\ TakeTurn(o, r)
      /\ UNCHANGED <<project, row, ps, anc, doomed>>
  BY <1>1 DEF Start, dbVars, psVars
<1>3. /\ r \in OpType /\ r.pc \in {"stop", "launch"} /\ r.new = op[o].new /\ r.kind = "start"
      /\ r.on = op[o].on /\ r.from = op[o].from /\ r.want = op[o].want
  BY <1>2 DEF Inv, TypeOK, OpType, Places
<1> HIDE DEF r
<1>4. OpOK(o)'
  <2>1. rows' = rows /\ RowTimelines' = RowTimelines
    BY <1>2 DEF rows, RowTimelines
  <2> QED BY <1>2, <1>3, <2>1, TakesTurn
          DEF OpOK, Shape, TurnOK, NewOK, Working, Turns, Swaps
<1>5. Quiet(o)
  <2>1. lane[op[o].on] = NoOp
    BY <1>2 DEF MyTurn
  <2> QED BY <1>1, <1>2, <2>1, QuietSame, QuietStatus
<1> QED BY <1>2, <1>3, <1>4, <1>5, TakesTurn, GoesOn

LEMMA SwapInv == ASSUME BrAssumption, Inv, NEW o \in Ops, Swap(o) PROVE Inv'
<1> DEFINE b == op[o].on
           source == row[IF op[o].kind = "reset" THEN row[b].parent ELSE b].tl
<1>1. /\ MyTurn(o) /\ op[o].kind \in Swaps /\ b \in rows
      /\ op[o].kind = "reset" => row[b].parent # NoBranch /\ Children(b) = {}
      /\ UNCHANGED <<project, row, ps, anc, status, doomed>>
  BY DEF Swap, dbVars, psVars
<1>2. PICK t \in FreshTl : TakeTurn(o, [op[o] EXCEPT
         !.new = t, !.from = source, !.was = status[b] = "running",
         !.pc = IF status[b] = "running" THEN "stop" ELSE "fork"])
  BY DEF Swap
<1> DEFINE r == [op[o] EXCEPT
         !.new = t, !.from = source, !.was = status[b] = "running",
         !.pc = IF status[b] = "running" THEN "stop" ELSE "fork"]
<1>3. source \in RowTimelines /\ source \in Timelines
  <2>1. op[o].kind = "reset" => row[b].parent \in rows
    BY <1>1, RowFacts DEF Inv, RowsOK, ForeignKeys
  <2> QED BY <1>1, <2>1, RowFacts DEF Inv, RowTimelines
<1>4. op[o].kind = "restore" => source = row[op[o].on].tl
  OBVIOUS
<1>5. TakeTurn(o, r)
  BY <1>2
<1> HIDE DEF source
<1>6. /\ r \in OpType /\ r.pc \in {"stop", "fork"} /\ r.new = t /\ r.kind = op[o].kind
      /\ r.on = op[o].on /\ r.from = source /\ r.want = op[o].want
  <2>1. op[o] \in OpType /\ t \in Timelines
    BY DEF Inv, TypeOK, FreshTl
  <2> QED BY <1>3, <2>1 DEF OpType, Places
<1> HIDE DEF r
<1>7. OpOK(o)'
  <2>1. rows' = rows /\ RowTimelines' = RowTimelines /\ \A c : Children(c)' = Children(c)
    BY <1>1 DEF rows, RowTimelines, Children
  <2>2. r.new # NoTimeline /\ r.new \notin RowTimelines \cup ps /\ \A x \in Timelines : anc[x] # r.new
    BY <1>3, <1>6, FreshApart
  <2> QED BY <1>1, <1>4, <1>5, <1>6, <2>1, <2>2, TakesTurn
          DEF OpOK, Shape, TurnOK, NewOK, Working, Turns, Swaps
<1>8. op[o].new \notin ps
  BY <1>1, <1>5, <1>6, TakesTurn
<1> QED BY <1>1, <1>3, <1>5, <1>6, <1>7, <1>8, TakesTurn, FreshApart, QuietSame, QuietStep

\* Steps without a turn to take or to give back.
LEMMA NewOp ==
  ASSUME BrAssumption, Inv, NEW o \in Ops, NEW r \in OpType, op' = [op EXCEPT ![o] = r],
         UNCHANGED lane
  PROVE  Moves(o, r) /\ op'[o] = r /\ NoTimeline \notin RowTimelines /\ NoTimeline \notin ps
BY DEF Inv, TypeOK, Moves, RowTimelines, rows, RowType, BrAssumption

LEMMA CreateProjectInv == ASSUME BrAssumption, Inv, NEW o \in Ops, CreateProject(o) PROVE Inv'
<1>1. PICK t \in FreshTl :
        op' = [op EXCEPT ![o] = [Idle EXCEPT !.pc = "fork", !.kind = "newProject", !.new = t]]
  BY DEF CreateProject
<1> DEFINE r == [Idle EXCEPT !.pc = "fork", !.kind = "newProject", !.new = t]
<1>2. /\ op[o].pc = "idle" /\ ~project
      /\ \A p \in Ops : op[p].kind \notin {"newProject", "drain"}
      /\ UNCHANGED <<project, row, ps, anc, status, lane, doomed>>
  BY DEF CreateProject, At, dbVars, psVars
<1>3. /\ r \in OpType /\ r.pc = "fork" /\ r.new = t /\ r.kind = "newProject"
      /\ r.from = NoTimeline
  BY IdleType DEF Idle, OpType, Places, FreshTl, Kinds
<1>4. op' = [op EXCEPT ![o] = r]
  BY <1>1
<1> HIDE DEF r
<1>5. /\ t \in Timelines /\ t # NoTimeline /\ t \notin ps /\ t \notin RowTimelines
      /\ \A p \in Ops : t # op[p].new /\ t # op[p].from
      /\ \A x \in Timelines : anc[x] # t
  BY DEF FreshTl, InFlight, Sources, BrAssumption, Inv, EngineOK, Ancestors
<1>6. OpOK(o)'
  <2>1. rows' = rows /\ RowTimelines' = RowTimelines
    BY <1>2 DEF rows, RowTimelines
  <2>2. op'[o] = r /\ NoTimeline \notin RowTimelines /\ NoTimeline \notin ps
    BY <1>2, <1>3, <1>4, NewOp
  <2> QED BY <1>2, <1>3, <1>5, <2>1, <2>2
          DEF OpOK, Shape, TurnOK, NewOK, Working, Turns, Swaps
<1>7. op[o].new \notin ps
  BY <1>2 DEF Inv, OpOK, NewOK
<1>8. \A p \in Ops \ {o} : Apart(r, op[p]) /\ Apart(op[p], r)
  BY <1>2, <1>3, <1>5 DEF Apart, Inv, Pairs, TypeOK, BrAssumption
<1> QED BY <1>2, <1>3, <1>4, <1>5, <1>6, <1>7, <1>8, NewOp, QuietSame, QuietStep

LEMMA DeleteProjectInv == ASSUME BrAssumption, Inv, NEW o \in Ops, DeleteProject(o) PROVE Inv'
<1> DEFINE r == [Idle EXCEPT !.pc = "sweep", !.kind = "drain"]
<1>1. /\ op[o].pc = "idle" /\ project /\ op' = [op EXCEPT ![o] = r]
      /\ UNCHANGED <<project, row, ps, anc, status, lane, doomed>>
  BY DEF DeleteProject, At, dbVars, psVars
<1>2. /\ r \in OpType /\ r.pc = "sweep" /\ r.new = NoTimeline /\ r.kind = "drain"
      /\ r.from = NoTimeline
  BY IdleType DEF Idle, OpType, Places, Kinds
<1> HIDE DEF r
<1>3. OpOK(o)'
  <2>1. RowTimelines' = RowTimelines
    BY <1>1 DEF rows, RowTimelines
  <2>2. op'[o] = r /\ NoTimeline \notin RowTimelines /\ NoTimeline \notin ps
    BY <1>1, <1>2, NewOp
  <2> QED BY <1>1, <1>2, <2>1, <2>2 DEF OpOK, Shape, TurnOK, NewOK, Working, Turns, Swaps
<1>4. op[o].new \notin ps
  BY <1>1 DEF Inv, OpOK, NewOK
<1>5. \A p \in Ops \ {o} : op[p].kind # "newProject"
  BY <1>1 DEF Inv, OpOK, TurnOK
<1>6. \A p \in Ops \ {o} : Apart(r, op[p]) /\ Apart(op[p], r)
  BY <1>2, <1>5 DEF Apart
<1> QED BY <1>1, <1>2, <1>3, <1>4, <1>6, NewOp, QuietSame, QuietStep

LEMMA AskInv ==
  ASSUME BrAssumption, Inv, NEW o \in Ops, NEW k \in BranchRequests, NEW b \in Branches,
         NEW n \in Names, Ask(o, k, b, n)
  PROVE  Inv'
<1> DEFINE r == [Idle EXCEPT !.pc = "ask", !.kind = k, !.on = b,
                             !.want = IF k \in {"create", "rename"} THEN n ELSE Archived,
                             !.from = IF k = "create" THEN row[b].tl ELSE NoTimeline]
<1>1. /\ op[o].pc = "idle" /\ b \in rows /\ op' = [op EXCEPT ![o] = r]
      /\ UNCHANGED <<project, row, ps, anc, status, lane, doomed>>
  BY DEF Ask, At, dbVars, psVars
<1>2. row[b].tl \in Timelines /\ row[b].tl \in RowTimelines
  BY <1>1, RowFacts DEF Inv, RowTimelines
<1>3. k \in Kinds \ {"newProject", "drain"}
  BY DEF BranchRequests, BrAssumption
<1>4. /\ r \in OpType /\ r.pc = "ask" /\ r.new = NoTimeline /\ r.kind = k /\ r.on = b
      /\ r.from = (IF k = "create" THEN row[b].tl ELSE NoTimeline)
      /\ (k \in {"create", "rename"} => r.want = n)
  BY <1>2, <1>3, IdleType DEF Idle, OpType, Places
<1> HIDE DEF r
<1>5. OpOK(o)'
  <2>1. RowTimelines' = RowTimelines /\ rows' = rows
    BY <1>1 DEF rows, RowTimelines
  <2>2. op'[o] = r /\ NoTimeline \notin RowTimelines /\ NoTimeline \notin ps
    BY <1>1, <1>4, NewOp
  <2> QED BY <1>1, <1>3, <1>4, <2>1, <2>2
          DEF OpOK, Shape, TurnOK, NewOK, Working, Turns, Swaps, Kinds
<1>6. op[o].new \notin ps
  BY <1>1 DEF Inv, OpOK, NewOK
<1> QED BY <1>1, <1>2, <1>3, <1>4, <1>5, <1>6, NewOp, StaysApart, QuietSame, QuietStep

LEMMA SweepInv == ASSUME BrAssumption, Inv, NEW o \in Ops, Visit(o) \/ Drained(o) PROVE Inv'
<1>0. /\ op[o].pc = "sweep" /\ UNCHANGED <<project, row, ps, anc, status, lane, doomed>>
      /\ op[o] \in OpType /\ op[o].kind = "drain" /\ op[o].new = NoTimeline
  BY DEF Visit, Drained, At, dbVars, psVars, Inv, OpOK, Shape, TypeOK, Swaps
<1>1. RowTimelines' = RowTimelines /\ rows' = rows
  BY <1>0 DEF rows, RowTimelines
<1>2. CASE Visit(o)
  <2> DEFINE round == IF op[o].todo = {} THEN Leaves ELSE op[o].todo
  <2>1. PICK b \in round :
          op' = [op EXCEPT ![o] = [op[o] EXCEPT !.pc = "ask", !.on = b, !.todo = round \ {b}]]
    BY <1>2 DEF Visit
  <2>2. round \subseteq Branches
    BY <1>0 DEF Leaves, rows, OpType
  <2> HIDE DEF round
  <2> DEFINE r == [op[o] EXCEPT !.pc = "ask", !.on = b, !.todo = round \ {b}]
  <2>3. /\ r \in OpType /\ r.pc = "ask" /\ r.new = NoTimeline /\ r.kind = "drain" /\ r.on = b
        /\ r.from = op[o].from /\ b \in Branches
    BY <1>0, <2>2 DEF OpType, Places
  <2>4. op' = [op EXCEPT ![o] = r]
    BY <2>1
  <2> HIDE DEF r
  <2>6. op'[o] = r /\ NoTimeline \notin RowTimelines /\ NoTimeline \notin ps
    BY <1>0, <2>3, <2>4, NewOp
  <2>5. OpOK(o)'
    BY <1>0, <1>1, <2>3, <2>6 DEF OpOK, Shape, TurnOK, NewOK, Working, Turns, Swaps
  <2> QED BY <1>0, <2>3, <2>4, <2>5, NewOp, QuietSame, GoesOn
<1>3. CASE Drained(o)
  <2> DEFINE r == [op[o] EXCEPT !.pc = "tenant"]
  <2>1. op' = [op EXCEPT ![o] = r] /\ rows = {}
    BY <1>3 DEF Drained, Go
  <2>2. /\ r \in OpType /\ r.pc = "tenant" /\ r.new = NoTimeline /\ r.kind = "drain"
        /\ r.from = op[o].from
    BY <1>0 DEF OpType, Places
  <2> HIDE DEF r
  <2>6. op'[o] = r /\ NoTimeline \notin RowTimelines /\ NoTimeline \notin ps
    BY <1>0, <2>1, <2>2, NewOp
  <2>3. OpOK(o)'
    BY <1>0, <1>1, <2>1, <2>2, <2>6 DEF OpOK, Shape, TurnOK, NewOK, Working, Turns, Swaps
  <2> QED BY <1>0, <2>1, <2>2, <2>3, NewOp, QuietSame, GoesOn
<1> QED BY <1>2, <1>3

\* A step in a turn that only moves the request on, and perhaps its endpoint.
LEMMA MovesOn ==
  ASSUME BrAssumption, Inv, NEW o \in Ops, Working(o), NEW to \in Turns, Go(o, to),
         UNCHANGED lane, Quiet(o), Shape([op[o] EXCEPT !.pc = to]),
         to \in {"deletePs", "deleteSk"} => status'[op[o].on] = "stopped",
         to = "deleteSk" => row[op[o].on].tl \notin ps,
         to \in {"stop", "fork", "detach"} => op[o].pc \in {"stop", "fork", "detach"},
         to # "undo" => op[o].pc # "undo",
         op[o].new \in ps <=> to = "detach" \/ (to = "undo" /\ op[o].pc = "detach")
  PROVE  Inv'
<1> DEFINE r == [op[o] EXCEPT !.pc = to]
<1>1. /\ r \in OpType /\ r.pc = to /\ r.new = op[o].new /\ r.kind = op[o].kind
      /\ r.on = op[o].on /\ r.from = op[o].from /\ r.want = op[o].want /\ Shape(r)
  BY DEF Inv, TypeOK, OpType, Places, Turns
<1>2. op' = [op EXCEPT ![o] = r]
  BY DEF Go
<1> HIDE DEF r
<1>3. op'[o] = r /\ Moves(o, r) /\ NoTimeline \notin RowTimelines /\ NoTimeline \notin ps
  BY <1>1, <1>2, NewOp
<1>4. /\ rows' = rows /\ RowTimelines' = RowTimelines /\ \A c : Children(c)' = Children(c)
      /\ UNCHANGED <<project, row, ps, anc>>
  BY DEF Quiet, rows, RowTimelines, Children
<1>5. Shape(op[o]) /\ TurnOK(o) /\ NewOK(o)
  BY DEF Inv, OpOK
<1>6. Shape(op'[o])
  BY <1>1, <1>3
<1>7. TurnOK(o)'
  BY <1>1, <1>3, <1>4, <1>5 DEF Working, Turns, TurnOK
<1>8. NewOK(o)'
  BY <1>1, <1>3, <1>4, <1>5 DEF Working, Turns, NewOK
<1>9. OpOK(o)'
  BY <1>6, <1>7, <1>8 DEF OpOK, Shape, Turns, Swaps
<1> QED BY <1>1, <1>3, <1>9, GoesOn

LEMMA GiveUpQuiet ==
  ASSUME BrAssumption, Inv, NEW o \in Ops, Working(o), op[o].kind \in Swaps,
         op[o].pc \in {"stop", "fork"}, GiveUpSwap(o),
         UNCHANGED <<project, row, ps, anc, doomed>>
  PROVE  Inv'
<1>1. /\ op[o].on \in rows /\ lane[op[o].on] = o /\ op[o].new \notin ps
      /\ Shape(op[o]) /\ op[o] \in OpType
  BY DEF Inv, OpOK, TurnOK, NewOK, TypeOK
<1>2. CASE ~op[o].was
  BY <1>1, <1>2, EndQuiet, QuietSame DEF GiveUpSwap
<1>3. CASE op[o].was
  <2>1. Go(o, "launch") /\ UNCHANGED lane /\ status' = [status EXCEPT ![op[o].on] = "starting"]
    BY <1>3 DEF GiveUpSwap
  <2>2. Quiet(o)
    BY <1>1, <2>1, QuietStatus
  <2>3. Shape([op[o] EXCEPT !.pc = "launch"])
    BY <1>1 DEF Shape, OpType, Turns, Swaps
  <2> QED BY <1>1, <2>1, <2>2, <2>3, MovesOn DEF Turns
<1> QED BY <1>2, <1>3

LEMMA StoppedInv == ASSUME BrAssumption, Inv, NEW o \in Ops, Stopped(o) PROVE Inv'
<1> DEFINE to == CASE op[o].kind = "start" -> "launch"
                   [] op[o].kind \in Swaps -> "fork"
                   [] OTHER                -> "deletePs"
<1>1. /\ op[o].pc = "stop" /\ UNCHANGED <<project, row, ps, anc, doomed>>
      /\ status' = [status EXCEPT ![op[o].on] =
                      IF op[o].kind = "start" THEN "starting" ELSE "stopped"]
  BY DEF Stopped, At, dbVars, psVars
<1>2. /\ Working(o) /\ op[o].on \in rows /\ lane[op[o].on] = o /\ op[o].new \notin ps
      /\ op[o].kind \in {"delete", "drain", "start", "stop"} \cup Swaps
      /\ op[o] \in OpType /\ Shape(op[o])
  BY <1>1 DEF Inv, OpOK, Shape, TurnOK, NewOK, Working, Turns, TypeOK, Swaps
<1>3. Quiet(o)
  BY <1>1, <1>2, QuietStatus
<1>4. CASE op[o].kind = "stop"
  BY <1>2, <1>3, <1>4, EndQuiet DEF Stopped
<1>5. CASE op[o].kind # "stop"
  <2>1. Go(o, to) /\ UNCHANGED lane
    BY <1>5 DEF Stopped
  <2>2. /\ to \in {"launch", "fork", "deletePs"}
        /\ to = "deletePs" => status'[op[o].on] = "stopped"
    BY <1>1, <1>2, RowFacts DEF Inv, TypeOK, Swaps
  <2>3. Shape([op[o] EXCEPT !.pc = to])
    BY <1>1, <1>2, <1>5 DEF Shape, OpType, Turns, Swaps
  <2> HIDE DEF to
  <2> QED BY <1>1, <1>2, <1>3, <2>1, <2>2, <2>3, MovesOn DEF Turns
<1> QED BY <1>4, <1>5

LEMMA StopFailsInv == ASSUME BrAssumption, Inv, NEW o \in Ops, StopFails(o) PROVE Inv'
<1>1. op[o].pc = "stop" /\ UNCHANGED <<project, row, ps, anc, doomed>>
  BY DEF StopFails, At, dbVars, psVars
<1>2. /\ Working(o) /\ op[o].on \in rows /\ lane[op[o].on] = o /\ op[o].new \notin ps
  BY <1>1 DEF Inv, OpOK, Shape, TurnOK, NewOK, Working, Turns, TypeOK, Swaps
<1>3. CASE op[o].kind \in Swaps
  BY <1>1, <1>2, <1>3, GiveUpQuiet DEF StopFails
<1>4. CASE op[o].kind \notin Swaps
  BY <1>1, <1>2, <1>4, QuietStatus, EndQuiet DEF StopFails
<1> QED BY <1>3, <1>4

LEMMA LaunchedInv == ASSUME BrAssumption, Inv, NEW o \in Ops, Launched(o) PROVE Inv'
<1>1. /\ op[o].pc = "launch" /\ UNCHANGED <<project, row, ps, anc, doomed>> /\ End(o)
  BY DEF Launched, At, dbVars, psVars
<1>2. /\ op[o].on \in rows /\ lane[op[o].on] = o /\ op[o].new \notin ps
  BY <1>1 DEF Inv, OpOK, Shape, TurnOK, NewOK, Working, Turns, TypeOK, Swaps
<1>3. Quiet(o)
  BY <1>1, <1>2, QuietStatus DEF Launched
<1> QED BY <1>1, <1>2, <1>3, EndQuiet

LEMMA ForkFailsInv == ASSUME BrAssumption, Inv, NEW o \in Ops, ForkFails(o) PROVE Inv'
<1>1. op[o].pc = "fork" /\ UNCHANGED <<project, row, ps, anc, doomed>>
  BY DEF ForkFails, At, dbVars, psVars
<1>2. /\ op[o].kind \in {"newProject", "create"} \cup Swaps /\ op[o].new \notin ps
      /\ op[o] \in OpType /\ Shape(op[o]) /\ OpOK(o)
  BY <1>1 DEF Inv, OpOK, Shape, NewOK, TypeOK
<1>3. CASE op[o].kind = "newProject"
  <2> DEFINE r == [op[o] EXCEPT !.pc = "undo"]
  <2>1. op' = [op EXCEPT ![o] = r] /\ UNCHANGED <<lane, status>>
    BY <1>3 DEF ForkFails, Go, Swaps
  <2>2. /\ r \in OpType /\ r.pc = "undo" /\ r.new = op[o].new /\ r.kind = "newProject"
        /\ r.from = op[o].from
    BY <1>2, <1>3 DEF OpType, Places
  <2> HIDE DEF r
  <2>3. op'[o] = r /\ Moves(o, r)
    BY <2>1, <2>2, NewOp
  <2>4. RowTimelines' = RowTimelines
    BY <1>1 DEF RowTimelines, rows
  <2>5. OpOK(o)'
    BY <1>1, <1>2, <1>3, <2>2, <2>3, <2>4
       DEF OpOK, Shape, TurnOK, NewOK, Working, Turns, Swaps
  <2> QED BY <1>1, <1>3, <2>1, <2>2, <2>3, <2>5, QuietSame, GoesOn
<1>4. CASE op[o].kind = "create"
  BY <1>1, <1>2, <1>4, QuietSame, EndQuiet DEF ForkFails
<1>5. CASE op[o].kind \in Swaps
  <2>1. GiveUpSwap(o) /\ Working(o)
    BY <1>1, <1>5 DEF ForkFails, Swaps, Working, Turns
  <2> QED BY <1>1, <1>5, <2>1, GiveUpQuiet
<1> QED BY <1>2, <1>3, <1>4, <1>5

LEMMA DetachFailsInv == ASSUME BrAssumption, Inv, NEW o \in Ops, DetachFails(o) PROVE Inv'
<1>1. /\ op[o].pc = "detach" /\ Go(o, "undo")
      /\ UNCHANGED <<project, row, ps, anc, status, lane, doomed>>
  BY DEF DetachFails, At, dbVars, psVars
<1>2. op[o].kind = "restore" /\ op[o].new \in ps /\ op[o] \in OpType /\ Shape(op[o])
  BY <1>1 DEF Inv, OpOK, Shape, NewOK, TypeOK
<1>3. Working(o) /\ Shape([op[o] EXCEPT !.pc = "undo"])
  BY <1>1, <1>2 DEF Shape, OpType, Turns, Swaps, Working
<1> QED BY <1>1, <1>2, <1>3, QuietSame, MovesOn DEF Turns

LEMMA CrashInv == ASSUME BrAssumption, Inv, NEW b \in Branches, Crash(b) PROVE Inv'
<1>1. /\ status[b] = "running" /\ status' = [status EXCEPT ![b] = "failed"]
      /\ UNCHANGED <<project, row, ps, anc, lane, op, doomed>>
  BY DEF Crash, dbVars, psVars
<1>2. TypeOK'
  BY <1>1 DEF Inv, TypeOK
<1>3. rows' = rows /\ RowTimelines' = RowTimelines /\ \A c : Children(c)' = Children(c)
  BY <1>1 DEF rows, RowTimelines, Children
<1>4. RowsOK' /\ EngineOK'
  BY <1>1, <1>3 DEF Inv, RowsOK, ForeignKeys, Distinct, Forest, Top, EngineOK, Ancestors,
                    RowsBacked, NoOrphans, InFlight
<1>5. ComputesBacked'
  BY <1>1, <1>3 DEF Inv, TypeOK, ComputesBacked
<1>6. ASSUME NEW p \in Ops
      PROVE  OpOK(p)'
  <2>1. Spares(p)
    BY <1>1, <1>3 DEF Spares, Inv, TypeOK
  <2> QED BY <1>2, <2>1, Bystander DEF Inv
<1>7. Pairs'
  BY <1>1 DEF Inv, Pairs, Apart
<1> QED BY <1>2, <1>4, <1>5, <1>6, <1>7 DEF Inv

-----------------------------------------------------------------------------
(* Steps that change the engine or the rows.                                 *)

LEMMA Step ==
  ASSUME BrAssumption, Inv, NEW o \in Ops, NEW r \in OpType, Moves(o, r),
         TypeOK', RowsOK', EngineOK', ComputesBacked', OpOK(o)',
         r.new # NoTimeline => r.from # r.new,
         \A p \in Ops \ {o} : Apart(r, op[p]) /\ Apart(op[p], r) /\ Spares(p)
  PROVE  Inv'
<1>1. \A p \in Ops \ {o} : OpOK(p)'
  BY Bystander DEF Inv
<1>2. Pairs'
  BY PairsStep DEF Inv, Moves
<1> QED BY <1>1, <1>2 DEF Inv

\* No new edge between rows: still a forest.
LEMMA ForestShrinks ==
  ASSUME Forest, rows' \subseteq rows,
         \A b \in rows' : row'[b].parent = row[b].parent /\ row'[b].tl = row[b].tl,
         \A b, c \in rows' : anc'[row[b].tl] = row[c].tl => anc[row[b].tl] = row[c].tl
  PROVE  Forest'
<1> SUFFICES ASSUME NEW S \in SUBSET rows', S # {}
             PROVE  \E b \in S : Top(b, S)'
  BY DEF Forest
<1>1. PICK b \in S : Top(b, S)
  BY DEF Forest
<1>2. row'[b].parent \notin S /\ \A c \in S : anc'[row'[b].tl] # row'[c].tl
  BY <1>1 DEF Top
<1> QED BY <1>2 DEF Top

LEMMA DropFacts ==
  ASSUME BrAssumption, TypeOK, Ancestors, NEW ts \in SUBSET Timelines, Drop(ts)
  PROVE  /\ ps' = ps \ ts /\ ps' \subseteq Timelines
         /\ anc' \in [Timelines -> Timelines \cup {NoTimeline}]
         /\ \A t \in Timelines : anc'[t] = anc[t] \/ anc'[t] = NoTimeline
         /\ \A t \in Timelines : anc'[t] \notin ts
         /\ Ancestors'
BY DEF Drop, TypeOK, Ancestors, BrAssumption

\* Timelines that no row stands on leave the engine.
LEMMA DropSpares ==
  ASSUME BrAssumption, Inv, NEW ts \in SUBSET Timelines, Drop(ts), row' = row
  PROVE  /\ rows' = rows /\ RowTimelines' = RowTimelines
         /\ RowsOK' <=> (rows = {} \/ project')
         /\ \A b : Children(b)' = Children(b)
         /\ Ancestors'
<1>0. rows' = rows /\ RowTimelines' = RowTimelines /\ \A b : Children(b)' = Children(b)
  BY DEF rows, RowTimelines, Children
<1>1. /\ Ancestors'
      /\ \A t \in Timelines : anc'[t] = anc[t] \/ anc'[t] = NoTimeline
  BY DropFacts DEF Inv, EngineOK
<1>2. \A b \in rows : row[b].tl \in Timelines /\ row[b].tl # NoTimeline
  BY RowFacts DEF Inv
<1>3. Forest'
  BY <1>0, <1>1, <1>2, ForestShrinks DEF Inv, RowsOK
<1>4. Distinct'
  BY <1>0 DEF Inv, RowsOK, Distinct
<1>5. ForeignKeys' <=> (rows = {} \/ project')
  BY <1>0 DEF Inv, RowsOK, ForeignKeys
<1> QED BY <1>0, <1>1, <1>3, <1>4, <1>5 DEF RowsOK

LEMMA UndoInv == ASSUME BrAssumption, Inv, NEW o \in Ops, Undo(o) PROVE Inv'
<1>1. /\ op[o].pc = "undo" /\ Drop({op[o].new}) /\ UNCHANGED <<project, row, doomed>>
  BY DEF Undo, At, dbVars
<1>2. /\ op[o].kind \in {"newProject", "create"} \cup Swaps
      /\ op[o] \in OpType /\ Shape(op[o]) /\ OpOK(o)
      /\ op[o].new \in Timelines /\ op[o].new # NoTimeline /\ op[o].new \notin RowTimelines
  BY <1>1 DEF Inv, OpOK, Shape, NewOK, TypeOK, OpType
<1>3. /\ ps' = ps \ {op[o].new} /\ ps' \subseteq Timelines
      /\ anc' \in [Timelines -> Timelines \cup {NoTimeline}]
      /\ \A t \in Timelines : anc'[t] = anc[t] \/ anc'[t] = NoTimeline
      /\ \A t \in Timelines : anc'[t] # op[o].new
  BY <1>1, <1>2, DropFacts DEF Inv, EngineOK
<1>4. /\ rows' = rows /\ RowTimelines' = RowTimelines /\ RowsOK' /\ Ancestors'
      /\ \A b : Children(b)' = Children(b)
  <2>1. rows = {} \/ project'
    BY <1>1 DEF Inv, RowsOK, ForeignKeys
  <2> QED BY <1>1, <1>2, <2>1, DropSpares
<1>5. RowsBacked'
  BY <1>1, <1>2, <1>3, <1>4 DEF Inv, EngineOK, RowsBacked, RowTimelines
\* Both ways on: back to idle, or to the restart of the endpoint.
<1>6. PICK r \in OpType :
        /\ Moves(o, r)
        /\ \/ r = Idle /\ UNCHANGED status
           \/ /\ r = [op[o] EXCEPT !.pc = "launch"] /\ Working(o) /\ UNCHANGED lane
              /\ op[o].kind \in Swaps
              /\ status' = [status EXCEPT ![op[o].on] = "starting"]
  <2>1. CASE End(o) /\ UNCHANGED status
    BY <2>1, IdleType DEF End, Moves, Inv, TypeOK
  <2>2. CASE op[o].kind \in Swaps /\ Go(o, "launch") /\ UNCHANGED lane
             /\ status' = [status EXCEPT ![op[o].on] = "starting"]
    <3>1. [op[o] EXCEPT !.pc = "launch"] \in OpType
      BY <1>2 DEF OpType, Places
    <3>2. Moves(o, [op[o] EXCEPT !.pc = "launch"])
      BY <2>2 DEF Go, Moves, Inv, TypeOK
    <3>3. Working(o)
      BY <1>1, <2>2 DEF Working, Turns, Swaps
    <3> QED BY <2>2, <3>1, <3>2, <3>3
  <2> QED BY <2>1, <2>2 DEF Undo, GiveUpSwap
<1>7. op'[o] = r /\ \A p \in Ops \ {o} : op'[p] = op[p]
  BY <1>6, NextOp DEF Inv
<1>8. /\ status' \in [Branches -> {"stopped", "starting", "running", "failed"}]
      /\ \A b \in Branches : status'[b] = status[b]
           \/ (Working(o) /\ b = op[o].on /\ status'[b] = "starting")
  BY <1>6 DEF Inv, TypeOK
<1>9. Working(o) => op[o].on \in rows /\ lane[op[o].on] = o
  BY DEF Inv, OpOK, TurnOK
<1>10. TypeOK'
  BY <1>1, <1>3, <1>6, <1>8 DEF Inv, TypeOK, Moves
<1>11. EngineOK'
  <2>1. NoOrphans'
    BY <1>3, <1>4, <1>7 DEF Inv, EngineOK, NoOrphans, InFlight
  <2> QED BY <1>4, <1>5, <2>1 DEF EngineOK
<1>12. ComputesBacked'
  BY <1>1, <1>2, <1>3, <1>4, <1>8, <1>9 DEF Inv, ComputesBacked, RowTimelines
<1>13. ASSUME NEW p \in Ops \ {o}
       PROVE  Spares(p)
  <2>1. op[p].new # NoTimeline => op[p].new # op[o].new
    BY DEF Inv, Pairs, Apart
  <2> QED BY <1>1, <1>3, <1>4, <1>6, <1>7, <1>8, <1>9, <2>1 DEF Spares, Moves
<1>14. OpOK(o)'
  <2>1. CASE r = Idle
    BY <1>7, <1>10, <2>1, IdleOK
  <2>2. CASE /\ r = [op[o] EXCEPT !.pc = "launch"] /\ Working(o) /\ UNCHANGED lane
             /\ op[o].kind \in Swaps
    <3>1. /\ r.pc = "launch" /\ r.new = op[o].new /\ r.kind = op[o].kind
          /\ r.on = op[o].on /\ r.from = op[o].from /\ r.want = op[o].want
      BY <1>2, <2>2 DEF OpType
    <3> QED BY <1>1, <1>2, <1>3, <1>4, <1>7, <1>9, <2>2, <3>1
            DEF OpOK, Shape, TurnOK, NewOK, Working, Turns, Swaps
  <2> QED BY <1>6, <2>1, <2>2
<1>15. r.kind \in {op[o].kind, "none"} /\ r.new \in {op[o].new, NoTimeline}
       /\ r.from \in {op[o].from, NoTimeline}
  BY <1>2, <1>6, IdleType DEF OpType
<1> QED BY <1>4, <1>6, <1>10, <1>11, <1>12, <1>13, <1>14, <1>15, StaysApart, Step

LEMMA DeletePsInv == ASSUME BrAssumption, Inv, NEW o \in Ops, DeletePs(o) PROVE Inv'
<1> DEFINE b == op[o].on
           t == row[b].tl
<1>1. /\ op[o].pc = "deletePs" /\ doomed' = doomed \cup {op[o].on}
      /\ UNCHANGED <<project, row, status>>
  BY DEF DeletePs, At, dbVars
<1>2. /\ op[o].kind \in {"delete", "drain"} /\ op[o].new = NoTimeline /\ Working(o)
      /\ op[o] \in OpType /\ Shape(op[o]) /\ OpOK(o)
      /\ op[o].on \in rows /\ lane[op[o].on] = o /\ status[op[o].on] = "stopped"
      /\ op[o].on \in Branches /\ Children(op[o].on) = {}
  BY <1>1 DEF Inv, OpOK, Shape, TurnOK, NewOK, TypeOK, Working, Turns, Swaps
<1>3. row[op[o].on].tl \in Timelines
  BY <1>2, RowFacts DEF Inv
<1>4. PICK ts \in SUBSET {row[op[o].on].tl} :
        /\ ps' = ps \ ts /\ ps' \subseteq Timelines
        /\ anc' \in [Timelines -> Timelines \cup {NoTimeline}]
        /\ \A x \in Timelines : anc'[x] = anc[x] \/ anc'[x] = NoTimeline
        /\ Ancestors'
        /\ rows' = rows /\ RowTimelines' = RowTimelines
        /\ RowsOK' <=> (rows = {} \/ project')
        /\ \A c : Children(c)' = Children(c)
        /\ \/ ts = {row[op[o].on].tl} /\ Go(o, "deleteSk") /\ UNCHANGED lane
           \/ End(o)
  <2>1. CASE Drop({row[op[o].on].tl})
    <3>1. {row[op[o].on].tl} \in SUBSET Timelines
      BY <1>3
    <3>2. (Go(o, "deleteSk") /\ UNCHANGED lane) \/ End(o)
      BY DEF DeletePs
    <3>3. /\ ps' = ps \ {row[op[o].on].tl} /\ ps' \subseteq Timelines
          /\ anc' \in [Timelines -> Timelines \cup {NoTimeline}]
          /\ \A x \in Timelines : anc'[x] = anc[x] \/ anc'[x] = NoTimeline
      BY <2>1, <3>1, DropFacts DEF Inv, EngineOK
    <3>4. /\ rows' = rows /\ RowTimelines' = RowTimelines /\ Ancestors'
          /\ RowsOK' <=> (rows = {} \/ project')
          /\ \A c : Children(c)' = Children(c)
      BY <1>1, <2>1, <3>1, DropSpares
    <3> QED BY <3>2, <3>3, <3>4
  <2>2. CASE UNCHANGED psVars /\ End(o)
    <3>1. rows' = rows /\ RowTimelines' = RowTimelines /\ \A c : Children(c)' = Children(c)
      BY <1>1 DEF rows, RowTimelines, Children
    <3>2. RowsOK' <=> (rows = {} \/ project')
      BY <1>1, <2>2, <3>1
         DEF psVars, Inv, RowsOK, ForeignKeys, Distinct, Forest, Top
    <3>3. Ancestors'
      BY <2>2 DEF psVars, Inv, EngineOK, Ancestors
    <3>4. ps' = ps \ {} /\ anc' = anc /\ ps' \subseteq Timelines
          /\ anc \in [Timelines -> Timelines \cup {NoTimeline}]
      BY <2>2 DEF psVars, Inv, TypeOK
    <3> QED BY <2>2, <3>1, <3>2, <3>3, <3>4
  <2> QED BY <2>1, <2>2 DEF DeletePs
<1>5. RowsOK'
  BY <1>1, <1>4 DEF Inv, RowsOK, ForeignKeys
<1>6. \A c \in rows : c # op[o].on => row[c].tl \notin ts
  BY <1>2 DEF Inv, RowsOK, Distinct
<1>7. RowsBacked'
  BY <1>1, <1>4, <1>6 DEF Inv, EngineOK, RowsBacked
<1>8. ComputesBacked'
  BY <1>1, <1>2, <1>4, <1>6 DEF Inv, ComputesBacked
<1>9. PICK r \in OpType :
        /\ Moves(o, r)
        /\ \/ r = Idle
           \/ /\ r = [op[o] EXCEPT !.pc = "deleteSk"] /\ ts = {row[op[o].on].tl}
              /\ UNCHANGED lane
  <2>1. CASE End(o)
    BY <2>1, IdleType DEF End, Moves, Inv, TypeOK
  <2>2. CASE ts = {row[op[o].on].tl} /\ Go(o, "deleteSk") /\ UNCHANGED lane
    <3>1. [op[o] EXCEPT !.pc = "deleteSk"] \in OpType
      BY <1>2 DEF OpType, Places
    <3> QED BY <2>2, <3>1 DEF Go, Moves, Inv, TypeOK
  <2> QED BY <1>4, <2>1, <2>2
<1>10. op'[o] = r /\ \A p \in Ops \ {o} : op'[p] = op[p]
  BY <1>9, NextOp DEF Inv
<1>11. TypeOK'
  BY <1>1, <1>2, <1>4, <1>9 DEF Inv, TypeOK, Moves
<1>12. EngineOK'
  <2>1. NoOrphans'
    BY <1>2, <1>4, <1>10 DEF Inv, EngineOK, NoOrphans, InFlight, TypeOK, BrAssumption
  <2> QED BY <1>4, <1>7, <2>1 DEF EngineOK
<1>13. ASSUME NEW p \in Ops \ {o}
       PROVE  Spares(p)
  <2>1. op[p].new \notin RowTimelines /\ row[op[o].on].tl \in RowTimelines
    BY <1>2 DEF Inv, OpOK, NewOK, RowTimelines
  <2> QED BY <1>1, <1>4, <1>9, <1>10, <2>1 DEF Spares, Moves
<1>14. OpOK(o)'
  <2>1. CASE r = Idle
    BY <1>10, <1>11, <2>1, IdleOK
  <2>2. CASE /\ r = [op[o] EXCEPT !.pc = "deleteSk"] /\ ts = {row[op[o].on].tl}
             /\ UNCHANGED lane
    <3>1. /\ r.pc = "deleteSk" /\ r.new = NoTimeline /\ r.kind = op[o].kind
          /\ r.on = op[o].on /\ r.from = op[o].from /\ r.want = op[o].want
      BY <1>2, <2>2 DEF OpType
    <3>2. NoTimeline \notin RowTimelines /\ NoTimeline \notin ps'
      BY <1>2, <1>4 DEF OpOK, NewOK, BrAssumption
    <3> QED BY <1>1, <1>2, <1>4, <1>10, <2>2, <3>1, <3>2
            DEF OpOK, Shape, TurnOK, NewOK, Working, Turns, Swaps
  <2> QED BY <1>9, <2>1, <2>2
<1>15. r.kind \in {op[o].kind, "none"} /\ r.new \in {op[o].new, NoTimeline}
       /\ r.from \in {op[o].from, NoTimeline}
  BY <1>2, <1>9, IdleType DEF OpType
<1> QED BY <1>5, <1>8, <1>9, <1>11, <1>12, <1>13, <1>14, <1>15, StaysApart, Step

LEMMA DeleteTenantInv == ASSUME BrAssumption, Inv, NEW o \in Ops, DeleteTenant(o) PROVE Inv'
<1>1. /\ op[o].pc = "tenant" /\ UNCHANGED <<project, row, status, doomed>>
  BY DEF DeleteTenant, At, dbVars
<1>2. /\ op[o].kind = "drain" /\ op[o].new = NoTimeline /\ rows = {}
      /\ op[o] \in OpType /\ Shape(op[o])
  BY <1>1 DEF Inv, OpOK, Shape, TurnOK, TypeOK, Swaps
<1>3. PICK ts \in SUBSET ps :
        /\ ps' = ps \ ts /\ ps' \subseteq Timelines
        /\ anc' \in [Timelines -> Timelines \cup {NoTimeline}]
        /\ \A x \in Timelines : anc'[x] = anc[x] \/ anc'[x] = NoTimeline
        /\ Ancestors'
        /\ \/ Go(o, "project") /\ UNCHANGED lane
           \/ End(o)
  <2>1. CASE Drop(ps)
    <3>1. ps \in SUBSET Timelines
      BY DEF Inv, TypeOK
    <3> QED BY <2>1, <3>1, DropFacts DEF Inv, EngineOK, DeleteTenant
  <2>2. CASE UNCHANGED psVars /\ End(o)
    <3>1. ps' = ps \ {} /\ anc' = anc /\ ps' \subseteq Timelines
          /\ anc \in [Timelines -> Timelines \cup {NoTimeline}]
      BY <2>2 DEF psVars, Inv, TypeOK
    <3>2. Ancestors'
      BY <2>2 DEF psVars, Inv, EngineOK, Ancestors
    <3>3. {} \in SUBSET ps /\ \A x \in Timelines : anc'[x] = anc[x]
      BY <3>1
    <3>4. anc' \in [Timelines -> Timelines \cup {NoTimeline}]
      BY <3>1
    <3> QED BY <2>2, <3>1, <3>2, <3>3, <3>4
  <2> QED BY <2>1, <2>2 DEF DeleteTenant
<1>4. /\ rows' = {} /\ RowTimelines' = {} /\ \A c : Children(c)' = {} /\ Children(c) = {}
  BY <1>1, <1>2 DEF rows, RowTimelines, Children
<1>5. RowsOK' /\ RowsBacked'
  BY <1>4 DEF RowsOK, ForeignKeys, Distinct, Forest, RowsBacked
\* No other request has a timeline on the engine: none has a row, none is a new project.
<1>6. \A p \in Ops : ~Working(p) /\ op[p].kind # "newProject"
  BY <1>2 DEF Inv, OpOK, TurnOK, Pairs, Apart
<1>7. \A p \in Ops : op[p].new \notin ps
  BY <1>6 DEF Inv, OpOK, NewOK, Working, Turns
<1>8. ps = {} /\ ps' = {}
  BY <1>2, <1>3, <1>7 DEF Inv, EngineOK, NoOrphans, InFlight, RowTimelines
<1>9. PICK r \in OpType :
        /\ Moves(o, r)
        /\ r = Idle \/ r = [op[o] EXCEPT !.pc = "project"]
  <2>1. CASE End(o)
    BY <2>1, IdleType DEF End, Moves, Inv, TypeOK
  <2>2. CASE Go(o, "project") /\ UNCHANGED lane
    <3>1. [op[o] EXCEPT !.pc = "project"] \in OpType
      BY <1>2 DEF OpType, Places
    <3> QED BY <2>2, <3>1 DEF Go, Moves, Inv, TypeOK
  <2> QED BY <1>3, <2>1, <2>2
<1>10. op'[o] = r /\ \A p \in Ops \ {o} : op'[p] = op[p]
  BY <1>9, NextOp DEF Inv
<1>11. TypeOK'
  BY <1>1, <1>3, <1>9 DEF Inv, TypeOK, Moves
<1>12. EngineOK' /\ ComputesBacked'
  BY <1>1, <1>2, <1>3, <1>4, <1>5, <1>8 DEF EngineOK, NoOrphans, Inv, ComputesBacked
<1>13. ASSUME NEW p \in Ops \ {o}
       PROVE  Spares(p)
  BY <1>1, <1>2, <1>3, <1>4, <1>8, <1>9, <1>10 DEF Spares, Moves
<1>14. OpOK(o)'
  <2>1. CASE r = Idle
    BY <1>10, <1>11, <2>1, IdleOK
  <2>2. CASE r = [op[o] EXCEPT !.pc = "project"]
    <3>1. r.pc = "project" /\ r.new = NoTimeline /\ r.kind = "drain"
      BY <1>2, <2>2 DEF OpType
    <3> QED BY <1>4, <1>8, <1>10, <3>1 DEF OpOK, Shape, TurnOK, NewOK, Working, Turns, Swaps
  <2> QED BY <1>9, <2>1, <2>2
<1>15. r.kind \in {op[o].kind, "none"} /\ r.new \in {op[o].new, NoTimeline}
       /\ r.from \in {op[o].from, NoTimeline}
  BY <1>2, <1>9, IdleType DEF OpType
<1> QED BY <1>5, <1>9, <1>11, <1>12, <1>13, <1>14, <1>15, StaysApart, Step

LEMMA DeleteProjectRowInv ==
  ASSUME BrAssumption, Inv, NEW o \in Ops, DeleteProjectRow(o)
  PROVE  Inv'
<1>1. /\ op[o].pc = "project" /\ UNCHANGED <<row, ps, anc, status, doomed>> /\ End(o)
      /\ project' \in {FALSE, project}
  BY DEF DeleteProjectRow, At, psVars
<1>2. op[o].kind = "drain" /\ op[o].new = NoTimeline /\ rows = {}
  BY <1>1 DEF Inv, OpOK, Shape, TurnOK, Swaps
<1>3. Moves(o, Idle)
  BY <1>1, IdleType DEF End, Moves, Inv, TypeOK
<1>4. op'[o] = Idle /\ \A p \in Ops \ {o} : op'[p] = op[p]
  BY <1>3, IdleType, NextOp DEF Inv
<1>5. TypeOK'
  BY <1>1, <1>3, IdleType DEF Inv, TypeOK, Moves
<1>6. /\ rows' = {} /\ RowTimelines' = {} /\ RowTimelines = {}
      /\ \A c : Children(c)' = {} /\ Children(c) = {}
  BY <1>1, <1>2 DEF rows, RowTimelines, Children
<1>7. RowsOK'
  BY <1>6 DEF RowsOK, ForeignKeys, Distinct, Forest
<1>8. EngineOK'
  BY <1>1, <1>2, <1>4, <1>6 DEF Inv, EngineOK, Ancestors, RowsBacked, NoOrphans, InFlight,
                                TypeOK, BrAssumption
<1>9. ComputesBacked'
  BY <1>1, <1>2, <1>6 DEF Inv, ComputesBacked
<1>10. OpOK(o)'
  BY <1>4, <1>5, IdleOK
<1>11. ASSUME NEW p \in Ops \ {o}
       PROVE  Spares(p)
  <2>1. op[p].kind # "newProject"
    BY <1>2 DEF Inv, Pairs, Apart
  <2> QED BY <1>1, <1>2, <1>3, <1>4, <1>6, <2>1 DEF Spares, Moves
<1> QED BY <1>3, <1>5, <1>7, <1>8, <1>9, <1>10, <1>11, IdleType, StaysApart, Step

LEMMA RenameInv == ASSUME BrAssumption, Inv, NEW o \in Ops, Rename(o) PROVE Inv'
<1>1. /\ op[o].pc = "ask" /\ op[o].kind = "rename" /\ op[o].on \in rows
      /\ row' = [row EXCEPT ![op[o].on].name = op[o].want] /\ End(o)
      /\ UNCHANGED <<project, ps, anc, status, doomed>>
  BY DEF Rename, MyTurn, At, psVars
<1>2. op[o].want \in Names /\ op[o].new = NoTimeline
  BY <1>1 DEF Inv, OpOK, Shape, Swaps
<1>3. /\ op[o].on \in Branches /\ row[op[o].on] \in RowType
  BY <1>1, RowFacts DEF Inv
<1>4. /\ row' \in [Branches -> RowType \cup {NoRow}]
      /\ row'[op[o].on] \in RowType
      /\ row'[op[o].on].tl = row[op[o].on].tl /\ row'[op[o].on].parent = row[op[o].on].parent
      /\ \A b \in Branches \ {op[o].on} : row'[b] = row[b]
  BY <1>1, <1>2, <1>3 DEF Inv, TypeOK, RowType
<1>5. rows' = rows
  BY <1>1, <1>3, <1>4 DEF rows, BrAssumption
<1>6. \A b \in rows : row'[b].tl = row[b].tl /\ row'[b].parent = row[b].parent
  BY <1>4 DEF rows
<1>7. RowTimelines' = RowTimelines /\ \A b : Children(b)' = Children(b)
  BY <1>5, <1>6 DEF RowTimelines, Children
<1>8. Moves(o, Idle)
  BY <1>1, IdleType DEF End, Moves, Inv, TypeOK
<1>9. op'[o] = Idle /\ \A p \in Ops \ {o} : op'[p] = op[p]
  BY <1>8, IdleType, NextOp DEF Inv
<1>10. TypeOK'
  BY <1>1, <1>4, <1>8, IdleType DEF Inv, TypeOK, Moves
<1>11. RowsOK'
  <2>1. ForeignKeys' /\ Distinct'
    BY <1>1, <1>5, <1>6 DEF Inv, RowsOK, ForeignKeys, Distinct
  <2>2. Forest'
    BY <1>1, <1>5, <1>6, ForestShrinks DEF Inv, RowsOK
  <2> QED BY <2>1, <2>2 DEF RowsOK
<1>12. EngineOK'
  BY <1>1, <1>2, <1>5, <1>6, <1>7, <1>9 DEF Inv, EngineOK, Ancestors, RowsBacked, NoOrphans,
     InFlight, TypeOK, BrAssumption
<1>13. ComputesBacked'
  BY <1>1, <1>5, <1>6 DEF Inv, ComputesBacked
<1>14. OpOK(o)'
  BY <1>9, <1>10, IdleOK
<1>15. ASSUME NEW p \in Ops \ {o}
       PROVE  Spares(p)
  BY <1>1, <1>5, <1>6, <1>7, <1>8, <1>9 DEF Spares, Moves
<1> QED BY <1>8, <1>10, <1>11, <1>12, <1>13, <1>14, <1>15, IdleType, StaysApart, Step

LEMMA DeleteSkInv == ASSUME BrAssumption, Inv, NEW o \in Ops, DeleteSk(o) PROVE Inv'
<1>1. op[o].pc = "deleteSk" /\ UNCHANGED <<project, ps, anc, status>>
  BY DEF DeleteSk, At, psVars
<1>2. /\ op[o].kind \in {"delete", "drain"} /\ op[o].new = NoTimeline /\ Working(o)
      /\ op[o] \in OpType /\ Shape(op[o])
      /\ op[o].on \in rows /\ lane[op[o].on] = o /\ status[op[o].on] = "stopped"
      /\ op[o].on \in Branches /\ Children(op[o].on) = {} /\ row[op[o].on].tl \notin ps
  BY <1>1 DEF Inv, OpOK, Shape, TurnOK, NewOK, TypeOK, Working, Turns, Swaps
<1>3. op[o].new \notin ps
  BY <1>2 DEF Inv, TypeOK, BrAssumption
<1>4. CASE End(o) /\ UNCHANGED <<row, doomed>>
  BY <1>1, <1>3, <1>4, QuietSame, EndQuiet
<1>5. CASE /\ row' = [row EXCEPT ![op[o].on] = NoRow] /\ doomed' = doomed \ {op[o].on}
           /\ EndTurn(o)
  <2>1. PICK r \in OpType :
          /\ Moves(o, r) /\ r.new = NoTimeline /\ r.from \in {op[o].from, NoTimeline}
          /\ r.kind \in {op[o].kind, "none"}
          /\ r = Idle \/ (r.pc = "sweep" /\ r.kind = "drain")
    <3>1. CASE op[o].kind = "drain"
      <4> DEFINE r == [op[o] EXCEPT !.pc = "sweep", !.on = NoBranch]
      <4>1. r \in OpType /\ r.pc = "sweep" /\ r.kind = "drain" /\ r.new = NoTimeline
            /\ r.from = op[o].from
        BY <1>2, <3>1 DEF OpType, Places
      <4>2. Moves(o, r)
        BY <1>2, <1>5, <3>1 DEF EndTurn, Moves, Inv, TypeOK, BrAssumption, OpType
      <4> HIDE DEF r
      <4> QED BY <3>1, <4>1, <4>2
    <3>2. CASE op[o].kind # "drain"
      <4>1. Moves(o, Idle)
        BY <1>5, <3>2, IdleType DEF EndTurn, End, Moves, Inv, TypeOK
      <4> QED BY <4>1, IdleType
    <3> QED BY <3>1, <3>2
  <2>2. op'[o] = r /\ \A p \in Ops \ {o} : op'[p] = op[p]
    BY <2>1, NextOp DEF Inv
  <2>3. TypeOK'
    BY <1>1, <1>2, <1>5, <2>1 DEF Inv, TypeOK, Moves
  <2>4. /\ rows' = rows \ {op[o].on} /\ \A b \in rows' : row'[b] = row[b]
    BY <1>2, <1>5 DEF Inv, TypeOK, rows
  <2>5. /\ RowTimelines' \subseteq RowTimelines
        /\ RowTimelines \subseteq RowTimelines' \cup {row[op[o].on].tl}
        /\ \A b : Children(b)' \subseteq Children(b)
    BY <2>4 DEF RowTimelines, Children
  <2>6. \A b \in rows : row[b].parent # op[o].on
    BY <1>2 DEF Children
  <2>7. RowsOK'
    <3>1. ForeignKeys' /\ Distinct'
      BY <1>1, <2>4, <2>6 DEF Inv, RowsOK, ForeignKeys, Distinct
    <3>2. Forest'
      BY <1>1, <2>4, ForestShrinks DEF Inv, RowsOK
    <3> QED BY <3>1, <3>2 DEF RowsOK
  <2>8. EngineOK'
    <3>1. RowsBacked' /\ Ancestors'
      BY <1>1, <1>5, <2>4 DEF Inv, EngineOK, Ancestors, RowsBacked
    <3>2. NoOrphans'
      BY <1>1, <1>2, <1>3, <2>2, <2>5 DEF Inv, EngineOK, NoOrphans, InFlight
    <3> QED BY <3>1, <3>2 DEF EngineOK
  <2>9. ComputesBacked'
    BY <1>1, <1>2, <2>4 DEF Inv, ComputesBacked
  <2>10. OpOK(o)'
    <3>1. CASE r = Idle
      BY <2>2, <2>3, <3>1, IdleOK
    <3>2. CASE r.pc = "sweep" /\ r.kind = "drain"
      <4>1. NoTimeline \notin RowTimelines' /\ NoTimeline \notin ps'
        BY <2>3 DEF RowTimelines, rows, RowType, TypeOK, BrAssumption
      <4> QED BY <2>1, <2>2, <3>2, <4>1
              DEF OpOK, Shape, TurnOK, NewOK, Working, Turns, Swaps
    <3> QED BY <2>1, <3>1, <3>2
  <2>11. ASSUME NEW p \in Ops \ {o}
         PROVE  Spares(p)
    BY <1>1, <1>2, <2>1, <2>2, <2>4, <2>5 DEF Spares, Moves
  <2> QED BY <2>1, <2>3, <2>7, <2>8, <2>9, <2>10, <2>11, StaysApart, Step
<1> QED BY <1>4, <1>5 DEF DeleteSk

LEMMA RestartInv == ASSUME BrAssumption, Inv, Restart PROVE Inv'
<1>1. /\ op' = [o \in Ops |-> Idle] /\ lane' = [b \in Branches |-> NoOp]
      /\ status' = [b \in Branches |-> "stopped"] /\ Drop(ps \ RowTimelines)
      /\ UNCHANGED <<project, row, doomed>>
  BY DEF Restart, dbVars
<1>2. ps \ RowTimelines \in SUBSET Timelines
  BY DEF Inv, TypeOK
<1>3. /\ ps' = ps \cap RowTimelines
      /\ anc' \in [Timelines -> Timelines \cup {NoTimeline}]
  BY <1>1, <1>2, DropFacts DEF Inv, EngineOK
<1>4. rows' = rows /\ RowTimelines' = RowTimelines /\ RowsOK' /\ Ancestors'
  <2>1. rows = {} \/ project'
    BY <1>1 DEF Inv, RowsOK, ForeignKeys
  <2> QED BY <1>1, <1>2, <2>1, DropSpares
<1>5. TypeOK'
  BY <1>1, <1>3, IdleType DEF Inv, TypeOK
<1>6. EngineOK'
  BY <1>1, <1>3, <1>4 DEF Inv, EngineOK, RowsBacked, NoOrphans, RowTimelines
<1>7. ComputesBacked'
  BY <1>1 DEF ComputesBacked
<1>8. \A o \in Ops : OpOK(o)'
  BY <1>1, <1>5, IdleOK
<1>9. Pairs'
  BY <1>1, IdleType DEF Pairs, Apart
<1> QED BY <1>4, <1>5, <1>6, <1>7, <1>8, <1>9 DEF Inv

-----------------------------------------------------------------------------
(* The fork, and the rows that follow it.                                    *)

\* A new leaf.
LEMMA LeafForest ==
  ASSUME Forest, NEW c, c \notin rows, rows' = rows \cup {c},
         \A b \in rows : /\ row'[b].parent = row[b].parent /\ row'[b].tl = row[b].tl
                         /\ row[b].parent # c
                         /\ anc'[row[b].tl] = anc[row[b].tl]
                         /\ anc[row[b].tl] # row'[c].tl,
         row'[c].parent # c, anc'[row'[c].tl] # row'[c].tl
  PROVE  Forest'
<1> SUFFICES ASSUME NEW S \in SUBSET rows', S # {}
             PROVE  \E b \in S : row'[b].parent \notin S /\ \A d \in S : anc'[row'[b].tl] # row'[d].tl
  BY DEF Forest, Top
<1>1. CASE S = {c}
  BY <1>1
<1>2. CASE S # {c}
  <2>1. S \ {c} \in SUBSET rows /\ S \ {c} # {}
    BY <1>2
  <2>2. PICK b \in S \ {c} : Top(b, S \ {c})
    BY <2>1 DEF Forest
  <2> QED BY <2>1, <2>2 DEF Top
<1> QED BY <1>1, <1>2

\* Row c takes the place of b, and of b's edges those that lead to b: had that closed a
\* circle through c, there had been one through b.
LEMMA SwapForest ==
  ASSUME Forest, NEW b \in rows, NEW c, c \notin rows, rows' = rows \cup {c},
         \A x \in rows :
           /\ row'[x].tl = row[x].tl /\ row[x].parent # c
           /\ row[x].tl # row'[c].tl /\ anc[row[x].tl] # row'[c].tl
           /\ \/ row'[x].parent = row[x].parent
              \/ row'[x].parent = c /\ (row[x].parent = b \/ anc[row[x].tl] = row[b].tl)
           /\ \/ anc'[row[x].tl] = anc[row[x].tl]
              \/ anc'[row[x].tl] = row'[c].tl /\ anc[row[x].tl] = row[b].tl,
         row'[c].parent = row[b].parent,
         \A x \in rows' : anc'[row'[c].tl] # row'[x].tl
  PROVE  Forest'
<1> SUFFICES ASSUME NEW S \in SUBSET rows', S # {}
             PROVE  \E x \in S : row'[x].parent \notin S /\ \A d \in S : anc'[row'[x].tl] # row'[d].tl
  BY DEF Forest, Top
<1>1. CASE c \notin S
  <2>1. S \in SUBSET rows
    BY <1>1
  <2>2. PICK x \in S : Top(x, S)
    BY <2>1 DEF Forest
  <2>3. row'[x].parent \notin S
    BY <1>1, <2>1, <2>2 DEF Top
  <2>4. \A d \in S : anc'[row'[x].tl] # row'[d].tl
    BY <2>1, <2>2 DEF Top
  <2> QED BY <2>3, <2>4
<1>2. CASE c \in S
  <2> DEFINE T == (S \ {c}) \cup {b}
  <2>1. T \in SUBSET rows /\ T # {}
    OBVIOUS
  <2>2. PICK x \in T : Top(x, T)
    BY <2>1 DEF Forest
  <2>3. CASE x = b
    <3>1. row'[c].parent \notin S
      BY <2>2, <2>3 DEF Top
    <3> QED BY <1>2, <3>1
  <2>4. CASE x # b
    <3>1. x \in S /\ x \in rows /\ row[x].parent \notin T /\ \A d \in T : anc[row[x].tl] # row[d].tl
      BY <2>1, <2>2, <2>4 DEF Top
    <3>2. row'[x].parent = row[x].parent /\ anc'[row[x].tl] = anc[row[x].tl]
      BY <3>1
    <3>3. row'[x].parent \notin S
      BY <3>1, <3>2
    <3>4. \A d \in S : anc'[row'[x].tl] # row'[d].tl
      <4>1. \A d \in S \ {c} : d \in T /\ d \in rows
        OBVIOUS
      <4> HIDE DEF T
      <4> QED BY <3>1, <3>2, <4>1
    <3> QED BY <3>1, <3>3, <3>4
  <2> QED BY <2>3, <2>4
<1> QED BY <1>1, <1>2

\* A request has its timeline on the engine and goes on, or gives it up.
LEMMA ForkedOn ==
  ASSUME BrAssumption, Inv, NEW o \in Ops, op[o].pc \in {"fork", "detach"},
         NEW to \in {"detach", "undo"}, Go(o, to), to = "detach" => op[o].kind = "restore",
         UNCHANGED <<project, row, lane, status, doomed>>,
         ps' = ps \cup {op[o].new},
         anc' \in [Timelines -> Timelines \cup {NoTimeline}],
         \A x \in Timelines :
           \/ anc'[x] = anc[x]
           \/ x = op[o].new /\ anc'[x] \in {op[o].from, NoTimeline} \cap (ps \cup {NoTimeline})
           \/ anc'[x] = op[o].new /\ to = "undo"
  PROVE  Inv'
<1> DEFINE r == [op[o] EXCEPT !.pc = to]
<1>1. /\ op[o] \in OpType /\ Shape(op[o]) /\ TurnOK(o) /\ NewOK(o)
      /\ op[o].new \in Timelines /\ op[o].new # NoTimeline /\ op[o].new \notin RowTimelines
      /\ op[o].kind \in {"newProject", "create"} \cup Swaps
      /\ op[o].from # op[o].new
  BY DEF Inv, OpOK, Shape, NewOK, TypeOK, OpType, Pairs, Swaps
<1>2. /\ r \in OpType /\ r.pc = to /\ r.new = op[o].new /\ r.kind = op[o].kind
      /\ r.on = op[o].on /\ r.from = op[o].from /\ r.want = op[o].want
  BY <1>1 DEF OpType, Places
<1>3. op' = [op EXCEPT ![o] = r]
  BY DEF Go
<1> HIDE DEF r
<1>4. Moves(o, r) /\ op'[o] = r /\ \A p \in Ops \ {o} : op'[p] = op[p]
  BY <1>2, <1>3, NewOp, NextOp DEF Inv
<1>5. rows' = rows /\ RowTimelines' = RowTimelines /\ \A b : Children(b)' = Children(b)
  BY DEF rows, RowTimelines, Children
<1>6. TypeOK'
  BY <1>1, <1>2, <1>4 DEF Inv, TypeOK, Moves
<1>7. RowsOK'
  <2>1. ForeignKeys' /\ Distinct'
    BY <1>5 DEF Inv, RowsOK, ForeignKeys, Distinct
  <2>2. \A b \in rows : row[b].tl \in Timelines /\ row[b].tl # op[o].new
    BY <1>1, RowFacts DEF Inv, RowTimelines
  <2>3. \A b, c \in rows : anc'[row[b].tl] = row[c].tl => anc[row[b].tl] = row[c].tl
    BY <2>2
  <2>4. Forest'
    BY <1>5, <2>3, ForestShrinks DEF Inv, RowsOK
  <2> QED BY <2>1, <2>4 DEF RowsOK
<1>8. EngineOK'
  <2>1. Ancestors'
    BY <1>1 DEF Inv, EngineOK, Ancestors
  <2>2. RowsBacked'
    BY <1>5 DEF Inv, EngineOK, RowsBacked
  <2>3. NoOrphans'
    BY <1>2, <1>4, <1>5 DEF Inv, EngineOK, NoOrphans, InFlight
  <2> QED BY <2>1, <2>2, <2>3 DEF EngineOK
<1>9. ComputesBacked'
  BY <1>5 DEF Inv, ComputesBacked
<1>10. OpOK(o)'
  <2>1. Shape(op'[o])
    BY <1>1, <1>2, <1>4 DEF Shape, Turns, Swaps
  <2>2. Working(o)' => Working(o)
    BY <1>2, <1>4 DEF Working, Turns
  <2>3. TurnOK(o)'
    BY <1>1, <1>2, <1>4, <1>5, <2>2 DEF TurnOK, Shape
  <2>4. NewOK(o)'
    <3>1. to = "detach" => \A x \in Timelines : anc'[x] # op[o].new
      BY <1>1 DEF NewOK
    <3> QED BY <1>1, <1>2, <1>4, <1>5, <3>1 DEF NewOK
  <2> QED BY <2>1, <2>3, <2>4 DEF OpOK, Shape, Turns, Swaps
<1>11. ASSUME NEW p \in Ops \ {o}
       PROVE  Spares(p)
  <2>1. op[p].new # NoTimeline => op[p].new # op[o].new /\ op[o].from # op[p].new
    BY DEF Inv, Pairs, Apart
  <2> QED BY <1>1, <1>4, <1>5, <2>1 DEF Spares, Moves
<1> QED BY <1>2, <1>4, <1>6, <1>7, <1>8, <1>9, <1>10, <1>11, StaysApart, Step

\* The rows follow: row c is the new timeline's.
LEMMA Inserted ==
  ASSUME BrAssumption, Inv, NEW o \in Ops, op[o].pc \in {"fork", "detach"},
         NEW c \in FreshIds,
         row' \in [Branches -> RowType \cup {NoRow}], rows' = rows \cup {c},
         \A x \in rows : row'[x].tl = row[x].tl, row'[c].tl = op[o].new,
         project' = project \/ (project' = TRUE /\ op[o].kind = "newProject"),
         doomed' = doomed,
         ps' = ps \cup {op[o].new},
         anc' \in [Timelines -> Timelines \cup {NoTimeline}],
         \A x \in Timelines :
           \/ anc'[x] = anc[x]
           \/ x = op[o].new /\ anc'[x] \in {op[o].from, NoTimeline} \cap (ps \cup {NoTimeline})
           \/ anc'[x] = op[o].new,
         RowsOK',
         \A p \in Ops \ {o}, b \in Branches :
           lane[b] = p /\ b \in rows /\ Children(b) = {} => Children(b)' = {},
         NEW r \in OpType, Moves(o, r),
         \/ r = Idle /\ UNCHANGED status
         \/ /\ r.pc = "launch" /\ r.on = c /\ r.new = NoTimeline /\ r.from = op[o].from
            /\ r.kind = op[o].kind /\ r.kind \in Swaps /\ lane'[c] = o
            /\ r.kind = "reset" => Children(c)' = {}
            /\ status' = [status EXCEPT ![c] = "starting"]
  PROVE  Inv'
<1>1. /\ op[o] \in OpType /\ Shape(op[o]) /\ TurnOK(o) /\ NewOK(o)
      /\ op[o].new \in Timelines /\ op[o].new # NoTimeline /\ op[o].new \notin RowTimelines
      /\ op[o].kind \in {"newProject", "create"} \cup Swaps
      /\ op[o].from # op[o].new
  BY DEF Inv, OpOK, Shape, NewOK, TypeOK, OpType, Pairs, Swaps
<1>2. /\ c \in Branches /\ c \notin rows /\ lane[c] = NoOp /\ \A p \in Ops : op[p].on # c
      /\ \A p \in Ops : lane[c] # p
  BY DEF FreshIds, Known, BrAssumption
<1>3. op'[o] = r /\ \A p \in Ops \ {o} : op'[p] = op[p]
  BY NextOp DEF Inv
<1>4. RowTimelines' = RowTimelines \cup {op[o].new}
  <2>1. RowTimelines' = {row'[x].tl : x \in rows \cup {c}}
    BY DEF RowTimelines
  <2> QED BY <2>1 DEF RowTimelines
<1>5. /\ status' \in [Branches -> {"stopped", "starting", "running", "failed"}]
      /\ \A b \in Branches : status'[b] = status[b] \/ (b = c /\ status'[b] = "starting")
  BY <1>2 DEF Inv, TypeOK
<1>6. TypeOK'
  <2>1. project' \in BOOLEAN /\ ps' \subseteq Timelines /\ doomed' \subseteq Branches
    BY <1>1 DEF Inv, TypeOK
  <2>2. op' \in [Ops -> OpType] /\ lane' \in [Branches -> Ops \cup {NoOp}]
    BY DEF Moves, Inv, TypeOK
  <2> QED BY <1>5, <2>1, <2>2 DEF TypeOK
<1>7. EngineOK'
  <2>1. Ancestors'
    BY <1>1 DEF Inv, EngineOK, Ancestors
  <2>2. RowsBacked'
    BY DEF Inv, EngineOK, RowsBacked
  <2>3. NoOrphans'
    BY <1>3, <1>4 DEF Inv, EngineOK, NoOrphans, InFlight
  <2> QED BY <2>1, <2>2, <2>3 DEF EngineOK
<1>8. ComputesBacked'
  BY <1>5 DEF Inv, ComputesBacked
<1>9. OpOK(o)'
  <2>1. CASE r = Idle
    BY <1>3, <1>6, <2>1, IdleOK
  <2>2. CASE r # Idle
    <3>1. NoTimeline \notin RowTimelines' /\ NoTimeline \notin ps'
      BY <1>6 DEF RowTimelines, rows, RowType, TypeOK, BrAssumption
    <3> QED BY <1>2, <1>3, <2>2, <3>1
            DEF OpOK, Shape, TurnOK, NewOK, Working, Turns, Swaps
  <2> QED BY <2>1, <2>2
<1>10. ASSUME NEW p \in Ops \ {o}
       PROVE  Spares(p)
  <2>1. op[p].new # NoTimeline => op[p].new # op[o].new /\ op[o].from # op[p].new
    BY DEF Inv, Pairs, Apart
  <2>2. rows = {} /\ op[p].kind = "drain" => FALSE
    <3>1. op[p].kind = "drain" => op[o].kind # "newProject"
      BY DEF Inv, Pairs, Apart
    <3>2. op[o].kind # "newProject" => op[o].on \in rows
      BY <1>1 DEF TurnOK, Working, Turns
    <3> QED BY <3>1, <3>2
  <2>3. op[p].kind = "newProject" => project' = project
    BY DEF Inv, Pairs, Apart
  <2>4. \A b \in Branches : lane[b] = p =>
          /\ lane'[b] = p
          /\ b \in rows => b \in rows'
          /\ Children(b) = {} => Children(b)' = {}
          /\ status[b] = "stopped" => status'[b] = "stopped"
    <3>1. ASSUME NEW b \in Branches, lane[b] = p, Children(b) = {}, b \notin rows
          PROVE  Children(b)' = {}
      <4>1. \A x \in rows' : row'[x].parent \in rows' \cup {NoBranch}
        BY DEF RowsOK, ForeignKeys
      <4>2. b \notin rows' /\ b # NoBranch
        BY <1>2, <3>1 DEF BrAssumption
      <4> QED BY <4>1, <4>2 DEF Children
    <3> QED BY <1>2, <1>5, <3>1 DEF Moves
  <2>5. op[p].on \in rows' => op[p].on \in rows
    BY <1>2
  <2>6. op[p].new # NoTimeline =>
          /\ op[p].new \in RowTimelines' => op[p].new \in RowTimelines
          /\ op[p].new \in ps' <=> op[p].new \in ps
          /\ \A t \in Timelines : anc'[t] = op[p].new => anc[t] = op[p].new
    BY <1>4, <2>1
  <2>7. ps' \cap RowTimelines \subseteq ps
    BY <1>1
  <2> QED BY <1>3, <2>2, <2>3, <2>4, <2>5, <2>6, <2>7 DEF Spares
<1>11. /\ r.kind \in {op[o].kind, "none"} /\ r.new \in {op[o].new, NoTimeline}
       /\ r.from \in {op[o].from, NoTimeline}
  BY IdleType
<1> QED BY <1>6, <1>7, <1>8, <1>9, <1>10, <1>11, StaysApart, Step

LEMMA LeafStep ==
  ASSUME BrAssumption, Inv, NEW o \in Ops, op[o].pc = "fork",
         op[o].from \in ps \cup {NoTimeline},
         NEW c \in FreshIds, NEW n \in Names, NEW parent,
         \/ op[o].kind = "newProject" /\ parent = NoBranch /\ project' = TRUE
         \/ op[o].kind = "create" /\ parent = op[o].on /\ UNCHANGED project,
         row' = [row EXCEPT ![c] = Row(parent, op[o].new, n)],
         ps' = ps \cup {op[o].new}, anc' = [anc EXCEPT ![op[o].new] = op[o].from],
         UNCHANGED <<status, doomed>>, End(o)
  PROVE  Inv'
<1>1. /\ op[o].new \in Timelines /\ op[o].new # NoTimeline /\ op[o].new \notin RowTimelines
      /\ op[o].new \notin ps
      /\ op[o].from # op[o].new
      /\ op[o].kind = "create" => op[o].on \in rows /\ lane[op[o].on] = o
      /\ op[o].kind = "newProject" => rows = {}
  BY DEF Inv, OpOK, Shape, TurnOK, NewOK, TypeOK, OpType, Pairs, Working, Turns, RowsOK, ForeignKeys
<1>2. c \in Branches /\ c \notin rows
  BY DEF FreshIds, Known
<1>3. parent \in rows \cup {NoBranch} /\ parent # c /\ parent \in Branches \cup {NoBranch}
  BY <1>1, <1>2, RowFacts DEF Inv, BrAssumption
<1>4. /\ Row(parent, op[o].new, n) \in RowType
      /\ Row(parent, op[o].new, n).tl = op[o].new /\ Row(parent, op[o].new, n).parent = parent
  BY <1>1, <1>3 DEF Row, RowType
<1>5. /\ row' \in [Branches -> RowType \cup {NoRow}]
      /\ row'[c].tl = op[o].new /\ row'[c].parent = parent /\ row'[c] # NoRow
      /\ \A x \in Branches \ {c} : row'[x] = row[x]
  BY <1>2, <1>4 DEF Inv, TypeOK, BrAssumption
<1>6. rows' = rows \cup {c} /\ \A x \in rows : row'[x] = row[x]
  BY <1>2, <1>5 DEF rows
<1>7. \A x \in rows : /\ row[x].tl \in Timelines /\ row[x].tl # op[o].new /\ row[x].parent # c
  BY <1>1, <1>2, RowFacts DEF Inv, RowTimelines, RowsOK, ForeignKeys, BrAssumption
<1>8. /\ anc' \in [Timelines -> Timelines \cup {NoTimeline}]
      /\ anc'[op[o].new] = op[o].from
      /\ \A x \in Timelines : x # op[o].new => anc'[x] = anc[x]
      /\ \A x \in Timelines : anc[x] # op[o].new
  BY <1>1 DEF Inv, TypeOK, EngineOK, Ancestors
<1>9. RowsOK'
  <2>1. ForeignKeys'
    BY <1>3, <1>5, <1>6, <1>1 DEF Inv, RowsOK, ForeignKeys
  <2>2. Distinct'
    BY <1>5, <1>6, <1>7 DEF Inv, RowsOK, Distinct
  <2>3. Forest'
    BY <1>1, <1>2, <1>3, <1>5, <1>6, <1>7, <1>8, LeafForest DEF Inv, RowsOK
  <2> QED BY <2>1, <2>2, <2>3 DEF RowsOK
<1>10. ASSUME NEW p \in Ops \ {o}, NEW b \in Branches, lane[b] = p, b \in rows, Children(b) = {}
       PROVE  Children(b)' = {}
  <2>1. b # parent
    BY <1>1, <1>10 DEF Inv, RowsOK, BrAssumption
  <2> QED BY <1>5, <1>6, <1>10, <2>1 DEF Children
<1>11. Moves(o, Idle)
  BY IdleType DEF End, Moves, Inv, TypeOK
<1>12. \A x \in Timelines :
           \/ anc'[x] = anc[x]
           \/ x = op[o].new /\ anc'[x] \in {op[o].from, NoTimeline} \cap (ps \cup {NoTimeline})
           \/ anc'[x] = op[o].new
  BY <1>8
<1> QED BY <1>5, <1>6, <1>8, <1>9, <1>10, <1>11, <1>12, IdleType, Inserted

LEMMA SwapStep ==
  ASSUME BrAssumption, Inv, NEW o \in Ops, op[o].pc \in {"fork", "detach"},
         op[o].kind \in Swaps, NEW moved \in SUBSET Timelines,
         CommitSwap(o, moved), UNCHANGED doomed,
         ps' = ps \cup {op[o].new}, anc' \in [Timelines -> Timelines \cup {NoTimeline}],
         \/ /\ op[o].kind = "reset" /\ moved = {} /\ op[o].from \in ps \cup {NoTimeline}
            /\ anc'[op[o].new] = op[o].from
         \/ /\ op[o].kind = "restore" /\ \A t \in moved : anc[t] = op[o].from
            /\ anc'[op[o].new] = NoTimeline,
         \A t \in Timelines : t # op[o].new =>
           anc'[t] = IF t \in moved THEN op[o].new ELSE anc[t]
  PROVE  Inv'
<1> DEFINE b == op[o].on
<1>1. /\ op[o].new \in Timelines /\ op[o].new # NoTimeline /\ op[o].new \notin RowTimelines
      /\ op[o].from # op[o].new /\ op[o] \in OpType
      /\ op[o].on \in rows /\ op[o].on \in Branches /\ lane[op[o].on] = o
      /\ \A t \in Timelines : anc[t] # op[o].new
      /\ op[o].kind = "restore" => row[op[o].on].tl = op[o].from
      /\ op[o].kind = "reset" => Children(op[o].on) = {}
  <2>1. op[o] \in OpType /\ Shape(op[o]) /\ TurnOK(o) /\ NewOK(o)
    BY DEF Inv, OpOK, TypeOK
  <2>2. /\ op[o].new \in Timelines /\ op[o].new # NoTimeline /\ op[o].new \notin RowTimelines
        /\ op[o].from # op[o].new
    BY <2>1 DEF Inv, Pairs, NewOK, Shape, OpType
  <2>3. Working(o) /\ op[o].on \in Branches
    BY <2>1 DEF Working, Turns, Swaps, Shape
  <2>4. op[o].on \in rows /\ lane[op[o].on] = o
    BY <2>1, <2>3 DEF TurnOK
  <2>5. \A t \in Timelines : anc[t] # op[o].new
    BY <2>1, <2>2 DEF NewOK
  <2>6. /\ op[o].kind = "restore" => row[op[o].on].tl = op[o].from
        /\ op[o].kind = "reset" => Children(op[o].on) = {}
    BY <2>1, <2>3 DEF TurnOK
  <2> QED BY <2>1, <2>2, <2>3, <2>4, <2>5, <2>6
<1>2. PICK c \in FreshIds :
    /\ SwapRows(op[o].on, c, op[o].new, moved)
    /\ UNCHANGED project
    /\ IF op[o].was
       THEN /\ op' = [op EXCEPT ![o] = [op[o] EXCEPT !.pc = "launch", !.on = c,
                                                     !.new = NoTimeline]]
            /\ lane' = [lane EXCEPT ![c] = o]
            /\ status' = [status EXCEPT ![c] = "starting"]
       ELSE End(o) /\ UNCHANGED status
  BY DEF CommitSwap
<1>3. c \in Branches /\ c \notin rows /\ lane[c] = NoOp /\ c # b
  BY <1>1 DEF FreshIds, Known
<1>4. row[b] \in RowType
  BY <1>1, RowFacts DEF Inv
<1>5. /\ [row[b] EXCEPT !.name = Archived] \in RowType
      /\ [row[b] EXCEPT !.name = Archived].tl = row[b].tl
      /\ [row[b] EXCEPT !.name = Archived].parent = row[b].parent
      /\ [row[b] EXCEPT !.tl = op[o].new] \in RowType
      /\ [row[b] EXCEPT !.tl = op[o].new].tl = op[o].new
      /\ [row[b] EXCEPT !.tl = op[o].new].parent = row[b].parent
      /\ \A d \in rows : /\ [row[d] EXCEPT !.parent = c] \in RowType
                         /\ [row[d] EXCEPT !.parent = c].tl = row[d].tl
                         /\ [row[d] EXCEPT !.parent = c].parent = c
  BY <1>1, <1>3, <1>4, RowFacts DEF Inv, RowType
<1>6. row' = [d \in Branches |->
            IF d = b      THEN [row[b] EXCEPT !.name = Archived]
            ELSE IF d = c THEN [row[b] EXCEPT !.tl = op[o].new]
            ELSE IF d \in rows /\ (row[d].tl \in moved \/ row[d].parent = b)
                          THEN [row[d] EXCEPT !.parent = c]
            ELSE row[d]]
  BY <1>2 DEF SwapRows
<1> HIDE DEF b
<1>7. /\ row' \in [Branches -> RowType \cup {NoRow}]
      /\ row'[c] \in RowType /\ row'[c].tl = op[o].new /\ row'[c].parent = row[b].parent
      /\ \A x \in rows : row'[x] \in RowType /\ row'[x].tl = row[x].tl
      /\ \A x \in Branches : x \notin rows /\ x # c => row'[x] = NoRow
      /\ \A x \in rows : row'[x].parent = row[x].parent
                         \/ (row'[x].parent = c /\ (row[x].parent = b \/ row[x].tl \in moved))
  <2>1. b \in rows /\ b \in Branches /\ rows \subseteq Branches
    BY <1>1, RowFacts DEF b, Inv
  <2>2. \A x \in Branches : x \notin rows => row[x] = NoRow
    BY DEF rows
  <2>3. \A x \in rows : row[x] \in RowType
    BY RowFacts DEF Inv
  <2>4. row' \in [Branches -> RowType \cup {NoRow}]
    BY <1>5, <1>6, <2>2, <2>3
  <2>5. row'[c] \in RowType /\ row'[c].tl = op[o].new /\ row'[c].parent = row[b].parent
    BY <1>3, <1>5, <1>6
  <2>6. ASSUME NEW x \in rows
        PROVE  /\ row'[x] \in RowType /\ row'[x].tl = row[x].tl
               /\ \/ row'[x].parent = row[x].parent
                  \/ row'[x].parent = c /\ (row[x].parent = b \/ row[x].tl \in moved)
    <3>1. x \in Branches /\ x # c
      BY <1>3, <2>1
    <3>2. CASE x = b
      BY <1>5, <1>6, <2>1, <3>2
    <3>3. CASE x # b /\ (row[x].tl \in moved \/ row[x].parent = b)
      <4>1. row'[x] = [row[x] EXCEPT !.parent = c]
        BY <1>6, <3>1, <3>3
      <4> QED BY <1>5, <3>3, <4>1
    <3>4. CASE x # b /\ ~(row[x].tl \in moved \/ row[x].parent = b)
      <4>1. row'[x] = row[x]
        BY <1>6, <3>1, <3>4
      <4> QED BY <2>3, <4>1
    <3> QED BY <3>2, <3>3, <3>4
  <2>7. \A x \in Branches : x \notin rows /\ x # c => row'[x] = NoRow
    BY <1>6, <2>1, <2>2
  <2>8. \A x \in rows : row'[x] \in RowType /\ row'[x].tl = row[x].tl
    BY <2>6
  <2>9. \A x \in rows : row'[x].parent = row[x].parent
                        \/ (row'[x].parent = c /\ (row[x].parent = b \/ row[x].tl \in moved))
    BY <2>6
  <2> QED BY <2>4, <2>5, <2>7, <2>8, <2>9
<1>8. rows' = rows \cup {c}
  BY <1>3, <1>7, RowFacts DEF rows, Inv, BrAssumption
<1>9. /\ \A x \in rows : /\ row[x].tl \in Timelines /\ row[x].tl # op[o].new
                         /\ row[x].parent # c /\ row[x].parent \in rows \cup {NoBranch}
      /\ b \in rows
  BY <1>1, <1>3, RowFacts DEF Inv, RowTimelines, RowsOK, ForeignKeys, BrAssumption, b
<1>10. RowsOK'
  <2>1. ForeignKeys'
    BY <1>2, <1>7, <1>8, <1>9 DEF Inv, RowsOK, ForeignKeys
  <2>2. Distinct'
    BY <1>7, <1>8, <1>9 DEF Inv, RowsOK, Distinct
  <2>3. CASE op[o].kind = "reset"
    <3>1. \A x \in rows : row[x].parent # b
      BY <1>1, <2>3 DEF Children, b
    <3>2. moved = {}
      BY <2>3
    <3>3. anc'[op[o].new] = op[o].from
      BY <2>3
    <3>4. \A x \in rows : row'[x].parent = row[x].parent /\ anc'[row[x].tl] = anc[row[x].tl]
      BY <1>7, <1>9, <3>1, <3>2
    <3>5. Forest'
      BY <1>1, <1>3, <1>7, <1>8, <1>9, <3>3, <3>4, LeafForest DEF Inv, RowsOK
    <3> QED BY <2>1, <2>2, <3>5 DEF RowsOK
  <2>4. CASE op[o].kind = "restore"
    <3>1. row[b].tl = op[o].from /\ anc'[op[o].new] = NoTimeline
      BY <1>1, <2>4 DEF b
    <3>2. \A x \in rows : row[x].tl \in moved => anc[row[x].tl] = row[b].tl
      BY <2>4, <3>1
    <3>3. \A x \in rows : anc'[row[x].tl] = anc[row[x].tl]
            \/ (anc'[row[x].tl] = op[o].new /\ anc[row[x].tl] = row[b].tl)
      <4>1. ASSUME NEW x \in rows
            PROVE  anc'[row[x].tl] = anc[row[x].tl]
                   \/ (anc'[row[x].tl] = op[o].new /\ anc[row[x].tl] = row[b].tl)
        <5>1. row[x].tl \in Timelines /\ row[x].tl # op[o].new
          BY <1>9
        <5>2. anc'[row[x].tl] = IF row[x].tl \in moved THEN op[o].new ELSE anc[row[x].tl]
          BY <5>1
        <5>3. CASE row[x].tl \in moved
          BY <3>2, <5>2, <5>3
        <5>4. CASE row[x].tl \notin moved
          BY <5>2, <5>4
        <5> QED BY <5>3, <5>4
      <4> QED BY <4>1
    <3>4. \A x \in rows' : anc'[op[o].new] # row'[x].tl
      BY <1>1, <1>7, <1>8, <1>9, <3>1 DEF BrAssumption
    <3>5. \A x \in rows :
            \/ row'[x].parent = row[x].parent
            \/ row'[x].parent = c /\ (row[x].parent = b \/ anc[row[x].tl] = row[b].tl)
      BY <1>7, <3>2
    <3>6. \A x \in rows : anc[row[x].tl] # op[o].new
      BY <1>1, <1>9
    <3>7. Forest'
      BY <1>3, <1>7, <1>8, <1>9, <3>3, <3>4, <3>5, <3>6, SwapForest DEF Inv, RowsOK
    <3> QED BY <2>1, <2>2, <3>7 DEF RowsOK
  <2> QED BY <2>3, <2>4
<1>11. ASSUME NEW p \in Ops \ {o}, NEW x \in Branches, lane[x] = p, x \in rows, Children(x) = {}
       PROVE  Children(x)' = {}
  <2>1. \A y \in rows : row[y].parent # x
    BY <1>11 DEF Children
  <2> QED BY <1>3, <1>7, <1>8, <1>9, <1>11, <2>1 DEF Children
<1>12. op[o].kind = "reset" => Children(c)' = {}
  <2>1. op[o].kind = "reset" => \A x \in rows : row'[x].parent = row[x].parent
    BY <1>1, <1>7 DEF Children, b
  <2> QED BY <1>7, <1>8, <1>9, <2>1 DEF Children
<1>13. \A x \in Timelines :
           \/ anc'[x] = anc[x]
           \/ x = op[o].new /\ anc'[x] \in {op[o].from, NoTimeline} \cap (ps \cup {NoTimeline})
           \/ anc'[x] = op[o].new
  OBVIOUS
<1>14. CASE ~op[o].was
  <2>1. Moves(o, Idle) /\ UNCHANGED status
    BY <1>2, <1>14, IdleType DEF End, Moves, Inv, TypeOK
  <2> QED BY <1>2, <1>7, <1>8, <1>10, <1>11, <1>13, <2>1, IdleType, Inserted
<1>15. CASE op[o].was
  <2> DEFINE r == [op[o] EXCEPT !.pc = "launch", !.on = c, !.new = NoTimeline]
  <2>1. /\ r \in OpType /\ r.pc = "launch" /\ r.on = c /\ r.new = NoTimeline
        /\ r.from = op[o].from /\ r.kind = op[o].kind
    BY <1>1, <1>3 DEF OpType, Places
  <2>2. op' = [op EXCEPT ![o] = r] /\ lane' = [lane EXCEPT ![c] = o]
        /\ status' = [status EXCEPT ![c] = "starting"]
    BY <1>2, <1>15
  <2> HIDE DEF r
  <2>3. Moves(o, r) /\ lane'[c] = o
    BY <1>3, <2>1, <2>2 DEF Moves, Inv, TypeOK, BrAssumption
  <2> QED BY <1>2, <1>7, <1>8, <1>10, <1>11, <1>12, <1>13, <2>1, <2>2, <2>3, Inserted
<1> QED BY <1>14, <1>15

LEMMA ForkedInv == ASSUME BrAssumption, Inv, NEW o \in Ops, Forked(o) PROVE Inv'
<1>1. /\ op[o].pc = "fork" /\ op[o] \in OpType /\ Shape(op[o])
      /\ op[o].from \in ps \cup {NoTimeline}
      /\ ps' = ps \cup {op[o].new}
      /\ anc' = [anc EXCEPT ![op[o].new] = op[o].from]
      /\ doomed' = doomed
  BY DEF Forked, At, Inv, OpOK, TypeOK
<1>2. op[o].new \in Timelines /\ op[o].from \in Timelines \cup {NoTimeline}
  BY <1>1 DEF Shape, OpType
<1>3. /\ anc' \in [Timelines -> Timelines \cup {NoTimeline}]
      /\ anc'[op[o].new] = op[o].from
      /\ \A t \in Timelines : t # op[o].new => anc'[t] = anc[t]
  BY <1>1, <1>2 DEF Inv, TypeOK
<1>4. CASE Go(o, IF op[o].kind = "restore" THEN "detach" ELSE "undo")
           /\ UNCHANGED <<dbVars, lane, status>>
  <2>1. PICK to \in {"detach", "undo"} : Go(o, to) /\ (to = "detach" => op[o].kind = "restore")
    BY <1>4
  <2>2. UNCHANGED <<project, row, lane, status, doomed>>
    BY <1>1, <1>4 DEF dbVars
  <2>3. \A x \in Timelines :
          \/ anc'[x] = anc[x]
          \/ x = op[o].new /\ anc'[x] \in {op[o].from, NoTimeline} \cap (ps \cup {NoTimeline})
          \/ anc'[x] = op[o].new /\ to = "undo"
    BY <1>1, <1>3
  <2> QED BY <1>1, <1>3, <2>1, <2>2, <2>3, ForkedOn
<1>5. CASE op[o].kind = "newProject" /\ Commit(o)
  <2>1. op[o].kind \notin {"create", "reset"}
    BY <1>5
  <2>2. /\ project' = TRUE
        /\ \E b \in FreshIds, n \in Names : row' = [row EXCEPT ![b] = Row(NoBranch, op[o].new, n)]
        /\ End(o)
        /\ UNCHANGED status
    BY <1>5, <2>1 DEF Commit
  <2>3. PICK b \in FreshIds, n \in Names : row' = [row EXCEPT ![b] = Row(NoBranch, op[o].new, n)]
    BY <2>2
  <2> QED BY <1>1, <1>5, <2>2, <2>3, LeafStep
<1>6. CASE op[o].kind = "create" /\ Commit(o)
  <2>1. op[o].kind \notin {"newProject", "reset"}
    BY <1>6
  <2>2. /\ \E b \in FreshIds : row' = [row EXCEPT ![b] = Row(op[o].on, op[o].new, op[o].want)]
        /\ End(o)
        /\ UNCHANGED <<project, status>>
    BY <1>6, <2>1 DEF Commit
  <2>3. PICK b \in FreshIds : row' = [row EXCEPT ![b] = Row(op[o].on, op[o].new, op[o].want)]
    BY <2>2
  <2>4. op[o].want \in Names
    BY <1>1, <1>6 DEF Shape
  <2> QED BY <1>1, <1>6, <2>2, <2>3, <2>4, LeafStep
<1>7. CASE op[o].kind = "reset" /\ Commit(o)
  <2>1. op[o].kind \notin {"newProject", "create"}
    BY <1>7
  <2>2. CommitSwap(o, {})
    BY <1>7, <2>1 DEF Commit
  <2>3. \A t \in Timelines : t # op[o].new =>
          anc'[t] = IF t \in {} THEN op[o].new ELSE anc[t]
    BY <1>3
  <2>4. op[o].kind \in Swaps
    BY <1>7 DEF Swaps
  <2> QED BY <1>1, <1>3, <1>7, <2>2, <2>3, <2>4, SwapStep
<1>8. Commit(o) => op[o].kind \in {"newProject", "create", "reset"}
  BY DEF Commit
<1> QED BY <1>4, <1>5, <1>6, <1>7, <1>8 DEF Forked

LEMMA DetachedInv == ASSUME BrAssumption, Inv, NEW o \in Ops, Detached(o) PROVE Inv'
<1>1. PICK moved \in SUBSET {t \in ps \ {op[o].new} : anc[t] = op[o].from} :
        /\ At(o, "detach")
        /\ anc' = [t \in Timelines |-> IF t \in moved THEN op[o].new
                                       ELSE IF t = op[o].new THEN NoTimeline ELSE anc[t]]
        /\ UNCHANGED <<ps, doomed>>
        /\ \/ CommitSwap(o, moved)
           \/ Go(o, "undo") /\ UNCHANGED <<dbVars, lane, status>>
  BY DEF Detached
<1>2. op[o].pc = "detach" /\ op[o] \in OpType /\ Shape(op[o]) /\ NewOK(o)
  BY <1>1 DEF At, Inv, OpOK, TypeOK
<1>3. /\ op[o].kind = "restore" /\ op[o].kind \in Swaps
      /\ op[o].new \in Timelines /\ op[o].new \in ps /\ ps' = ps \cup {op[o].new}
  BY <1>1, <1>2 DEF Shape, NewOK, OpType, Swaps
<1>4. moved \in SUBSET Timelines /\ op[o].new \notin moved /\ \A t \in moved : anc[t] = op[o].from
  BY DEF Inv, TypeOK
<1>5. /\ anc' \in [Timelines -> Timelines \cup {NoTimeline}]
      /\ anc'[op[o].new] = NoTimeline
      /\ \A t \in Timelines : t # op[o].new =>
           anc'[t] = IF t \in moved THEN op[o].new ELSE anc[t]
  BY <1>1, <1>3, <1>4 DEF Inv, TypeOK
<1>6. CASE CommitSwap(o, moved)
  BY <1>1, <1>2, <1>3, <1>4, <1>5, <1>6, SwapStep
<1>7. CASE Go(o, "undo") /\ UNCHANGED <<dbVars, lane, status>>
  <2>1. UNCHANGED <<project, row, lane, status, doomed>>
    BY <1>1, <1>7 DEF dbVars
  <2>2. \A x \in Timelines :
          \/ anc'[x] = anc[x]
          \/ x = op[o].new /\ anc'[x] \in {op[o].from, NoTimeline} \cap (ps \cup {NoTimeline})
          \/ anc'[x] = op[o].new /\ "undo" = "undo"
    BY <1>5
  <2> QED BY <1>2, <1>3, <1>5, <1>7, <2>1, <2>2, ForkedOn
<1> QED BY <1>1, <1>6, <1>7

-----------------------------------------------------------------------------
(* The invariant of the specification.                                       *)

LEMMA InitInv == ASSUME BrAssumption, Init PROVE Inv
<1>1. rows = {} /\ RowTimelines = {}
  BY DEF Init, rows, RowTimelines
<1>2. \A o \in Ops : op[o] = Idle
  BY DEF Init
<1>3. TypeOK
  BY IdleType DEF Init, TypeOK, BrAssumption
<1>4. RowsOK /\ EngineOK
  BY <1>1 DEF RowsOK, ForeignKeys, Distinct, Forest, EngineOK, Ancestors, RowsBacked,
              NoOrphans, Init
<1>5. ComputesBacked
  BY DEF ComputesBacked, Init
<1>6. Pairs
  BY <1>2, IdleType DEF Pairs, Apart
<1>7. ASSUME NEW o \in Ops
      PROVE  OpOK(o)
  <2>1. ps = {} /\ op[o] = Idle
    BY <1>2 DEF Init
  <2> QED BY <1>1, <2>1 DEF OpOK, Shape, TurnOK, NewOK, Working, Idle, Turns, Swaps
<1> QED BY <1>3, <1>4, <1>5, <1>6, <1>7 DEF Inv

LEMMA StutterInv == ASSUME Inv, UNCHANGED vars PROVE Inv'
<1>1. /\ project' = project /\ row' = row /\ ps' = ps /\ anc' = anc /\ status' = status
      /\ lane' = lane /\ op' = op /\ doomed' = doomed
  BY DEF vars, dbVars, psVars
<1>2. /\ rows' = rows /\ RowTimelines' = RowTimelines /\ InFlight' = InFlight
      /\ \A b : Children(b)' = Children(b)
  BY <1>1 DEF rows, RowTimelines, InFlight, Children
<1>3. TypeOK' /\ ComputesBacked' /\ Pairs'
  BY <1>1, <1>2 DEF Inv, TypeOK, ComputesBacked, Pairs
<1>4. RowsOK' /\ EngineOK'
  BY <1>1, <1>2 DEF Inv, RowsOK, ForeignKeys, Distinct, Forest, Top, EngineOK, Ancestors,
                    RowsBacked, NoOrphans
<1>5. ASSUME NEW o \in Ops
      PROVE  OpOK(o)'
  BY <1>1, <1>2 DEF Inv, OpOK, TurnOK, NewOK, Working
<1> QED BY <1>3, <1>4, <1>5 DEF Inv

LEMMA NextInv == ASSUME BrAssumption, Inv, [Next]_vars PROVE Inv'
<1>1. ASSUME NEW o \in Ops, Turn(o)
      PROVE  Inv'
  BY <1>1, RefuseInv, CreateInv, RenameInv, DeleteInv, SwapInv, StartInv, StopInv DEF Turn
<1>2. ASSUME NEW o \in Ops, Resume(o)
      PROVE  Inv'
  BY <1>2, StoppedInv, StopFailsInv, LaunchedInv, ForkedInv, ForkFailsInv, DetachedInv,
     DetachFailsInv, UndoInv, DeletePsInv, DeleteSkInv, SweepInv, DeleteTenantInv,
     DeleteProjectRowInv DEF Resume
<1>3. ASSUME NEW o \in Ops, CreateProject(o) \/ DeleteProject(o)
      PROVE  Inv'
  BY <1>3, CreateProjectInv, DeleteProjectInv
<1>4. ASSUME NEW o \in Ops, NEW k \in BranchRequests, NEW b \in Branches, NEW n \in Names,
             Ask(o, k, b, n)
      PROVE  Inv'
  BY <1>4, AskInv
<1>5. ASSUME NEW b \in Branches, Crash(b)
      PROVE  Inv'
  BY <1>5, CrashInv
<1> QED BY <1>1, <1>2, <1>3, <1>4, <1>5, RestartInv, StutterInv DEF Next

\* Every request keeps what the others rely on, whatever the order of their awaits,
\* whichever engine call fails and wherever the daemon dies.
THEOREM BranchesInvariant == Spec => []Inv
BY BrAssumption, InitInv, NextInv, PTL DEF Spec

\* The rows, the engine, the computes and the requests' locals have their types.
THEOREM BranchesTypes == Spec => []TypeOK
<1>1. Inv => TypeOK
  BY DEF Inv
<1> QED BY <1>1, BranchesInvariant, PTL

\* create, delete, restore, reset and the drain of a project re-check in the lane what
\* they checked before, and that is enough: no row is deleted under a child, no project
\* under a branch, and the children a restore moves never close a cycle.
THEOREM BranchesTreeWhole == Spec => []TreeWhole
<1>1. Inv => TreeWhole
  BY DEF Inv, RowsOK, Forest, Top, TreeWhole, NoCycle
<1> QED BY <1>1, BranchesInvariant, PTL

\* No compensation and no delete takes the timeline of a branch that stays.
THEOREM BranchesRowsBacked == Spec => []RowsBacked
<1>1. Inv => RowsBacked
  BY DEF Inv, EngineOK
<1> QED BY <1>1, BranchesInvariant, PTL

\* Every timeline on the engine is a row's, or one a request will insert or compensate.
THEOREM BranchesNoOrphans == Spec => []NoOrphans
<1>1. Inv => NoOrphans
  BY DEF Inv, EngineOK
<1> QED BY <1>1, BranchesInvariant, PTL

\* With crashes at any await: rows, timelines and computes stand on one another.
THEOREM BranchesStateBacked == Spec => []StateBacked
<1>1. Inv => StateBacked
  BY DEF Inv, EngineOK, RowsOK, Forest, Top, TreeWhole, NoCycle, StateBacked
<1> QED BY <1>1, BranchesInvariant, PTL

-----------------------------------------------------------------------------
(* Where a created branch's data comes from.                                 *)

LEMMA SwapNewRow ==
  ASSUME BrAssumption, Inv, NEW o \in Ops, op[o].pc \in {"fork", "detach"},
         op[o].kind \in Swaps, NEW moved, CommitSwap(o, moved), NEW b \in rows' \ rows
  PROVE  row'[b].tl = op[o].new
<1>1. op[o].on \in rows
  BY DEF Inv, OpOK, TurnOK, Working, Turns, Swaps
<1>2. PICK c \in FreshIds : SwapRows(op[o].on, c, op[o].new, moved)
  BY DEF CommitSwap
<1>3. row[op[o].on] \in RowType
  BY <1>1, RowFacts DEF Inv
<1>4. [row[op[o].on] EXCEPT !.tl = op[o].new].tl = op[o].new
  BY <1>3 DEF RowType
<1>5. b \in Branches /\ row[b] = NoRow /\ row'[b] # NoRow /\ b # op[o].on /\ b \notin rows
  BY <1>1 DEF rows
<1>6. row'[b] = IF b = c THEN [row[op[o].on] EXCEPT !.tl = op[o].new] ELSE row[b]
  BY <1>2, <1>5 DEF SwapRows
<1> QED BY <1>4, <1>5, <1>6

\* Only the answer of an engine call brings a row, and it is its request's timeline's.
LEMMA NewRow ==
  ASSUME BrAssumption, Inv, [Next]_vars, NEW b \in rows' \ rows
  PROVE  \E o \in Ops : /\ op[o].new # NoTimeline
                        /\ row'[b].tl = op[o].new
                        /\ op[o].kind = "create" => Forked(o) /\ Commit(o)
<1>0. b \in Branches /\ row[b] = NoRow /\ row'[b] # NoRow /\ b \notin rows
  BY DEF rows
<1>1. ASSUME row' = row
      PROVE  FALSE
  BY <1>0, <1>1
<1>2. ASSUME NEW o \in Ops, Rename(o)
      PROVE  FALSE
  <2>1. op[o].on \in rows /\ row' = [row EXCEPT ![op[o].on].name = op[o].want]
    BY <1>2 DEF Rename
  <2>2. row'[b] = row[b]
    BY <1>0, <2>1 DEF Inv, TypeOK
  <2> QED BY <1>0, <2>2
<1>3. ASSUME NEW o \in Ops, DeleteSk(o)
      PROVE  FALSE
  <2>1. row'[b] = row[b] \/ row'[b] = NoRow
    BY <1>0, <1>3 DEF DeleteSk, Inv, TypeOK
  <2> QED BY <1>0, <2>1
<1>4. ASSUME NEW o \in Ops, Forked(o) \/ Detached(o)
      PROVE  /\ op[o].new # NoTimeline
             /\ row'[b].tl = op[o].new
             /\ op[o].kind = "create" => Forked(o) /\ Commit(o)
  <2>1. op[o].pc \in {"fork", "detach"} /\ (Forked(o) => op[o].pc = "fork")
        /\ (Detached(o) => op[o].pc = "detach")
    BY <1>4 DEF Forked, Detached, At
  <2>2. Shape(op[o]) /\ op[o] \in OpType
    BY DEF Inv, OpOK, TypeOK
  <2>3. op[o].new # NoTimeline /\ (Detached(o) => op[o].kind = "restore")
    BY <2>1, <2>2 DEF Shape
  <2>4. CASE Forked(o) /\ Commit(o)
    <3>1. ASSUME NEW parent, NEW n, NEW c \in FreshIds,
                 row' = [row EXCEPT ![c] = Row(parent, op[o].new, n)]
          PROVE  row'[b].tl = op[o].new
      <4>1. Row(parent, op[o].new, n).tl = op[o].new
        BY DEF Row
      <4>2. row'[b] = IF b = c THEN Row(parent, op[o].new, n) ELSE row[b]
        BY <1>0, <3>1 DEF Inv, TypeOK
      <4> QED BY <1>0, <4>1, <4>2
    <3>2. op[o].kind = "reset" /\ CommitSwap(o, {}) => row'[b].tl = op[o].new
      BY <2>1, SwapNewRow DEF Swaps
    <3> QED BY <2>3, <2>4, <3>1, <3>2 DEF Commit
  <2>5. CASE Forked(o) /\ ~Commit(o)
    BY <1>1, <2>5 DEF Forked, dbVars
  <2>6. CASE Detached(o)
    <3>1. op[o].kind = "restore" /\ op[o].kind \in Swaps
      BY <2>3, <2>6 DEF Swaps
    <3>2. (\E moved : CommitSwap(o, moved)) \/ row' = row
      BY <2>6 DEF Detached, dbVars
    <3>3. row'[b].tl = op[o].new
      BY <1>1, <2>1, <3>1, <3>2, SwapNewRow
    <3> QED BY <2>3, <3>1, <3>3
  <2> QED BY <1>4, <2>4, <2>5, <2>6
<1>5. ASSUME NEW o \in Ops, Turn(o)
      PROVE  FALSE
  BY <1>1, <1>2, <1>5 DEF Turn, Refuse, Create, Delete, Swap, Start, Stop, dbVars
<1>6. ASSUME NEW o \in Ops, Resume(o)
      PROVE  Forked(o) \/ Detached(o)
  BY <1>1, <1>3, <1>6 DEF Resume, Stopped, StopFails, Launched, ForkFails, DetachFails, Undo,
                         DeletePs, Visit, Drained, DeleteTenant, DeleteProjectRow, dbVars
<1>7. ASSUME \/ \E o \in Ops : CreateProject(o) \/ DeleteProject(o)
             \/ \E o \in Ops, k \in BranchRequests, x \in Branches, n \in Names : Ask(o, k, x, n)
             \/ \E x \in Branches : Crash(x)
             \/ Restart
             \/ UNCHANGED vars
      PROVE  FALSE
  BY <1>1, <1>7 DEF CreateProject, DeleteProject, Ask, Crash, Restart, vars, dbVars
<1>8. PICK o \in Ops : Resume(o)
  BY <1>5, <1>7 DEF Next
<1> QED BY <1>4, <1>6, <1>8

\* CreateForksParent: however requests interleave, the timeline that create() inserts a row
\* for branches off the timeline of the parent that the row names, not off one the parent
\* has meanwhile left or one that another request made.
THEOREM BranchesCreateForksParent == Spec => CreateForksParent
<1>1. ASSUME BrAssumption, Inv, [Next]_vars, NEW b \in NewRows("create")
      PROVE  anc'[row'[b].tl] = row'[row'[b].parent].tl
  <2>1. b \in rows' \ rows
    BY DEF NewRows
  <2>2. PICK p \in Ops : op[p].kind = "create" /\ op[p].new = row'[b].tl
    BY DEF NewRows
  <2>3. PICK o \in Ops : /\ op[o].new # NoTimeline
                         /\ row'[b].tl = op[o].new
                         /\ op[o].kind = "create" => Forked(o) /\ Commit(o)
    BY <1>1, <2>1, NewRow
  <2>4. o = p
    BY <1>1, <2>2, <2>3 DEF Inv, Pairs, Apart
  <2>5. op[o].kind = "create" /\ Forked(o) /\ Commit(o)
    BY <2>2, <2>3, <2>4
  <2>6. op[o].pc = "fork" /\ anc' = [anc EXCEPT ![op[o].new] = op[o].from]
        /\ op[o].new \in Timelines
    BY <1>1, <2>3, <2>5 DEF Forked, At, Inv, TypeOK, OpType
  <2>7. anc'[op[o].new] = op[o].from
    BY <1>1, <2>6 DEF Inv, TypeOK
  <2>8. PICK c \in FreshIds : row' = [row EXCEPT ![c] = Row(op[o].on, op[o].new, op[o].want)]
    BY <2>5 DEF Commit
  <2>9. op[o].on \in rows /\ row[op[o].on].tl = op[o].from
    BY <1>1, <2>5, <2>6 DEF Inv, OpOK, TurnOK, Working, Turns
  <2>10. c \in Branches /\ c # op[o].on /\ op[o].on \in Branches
    BY <2>9 DEF FreshIds, Known, rows
  <2>11. row'[op[o].on] = row[op[o].on]
    BY <1>1, <2>8, <2>10 DEF Inv, TypeOK
  <2>12. b \in Branches /\ row[b] = NoRow /\ row'[b] # NoRow
    BY <2>1 DEF rows
  <2>13. row'[b] = IF b = c THEN Row(op[o].on, op[o].new, op[o].want) ELSE row[b]
    BY <1>1, <2>8, <2>12 DEF Inv, TypeOK
  <2>14. row'[b].parent = op[o].on
    BY <2>12, <2>13 DEF Row
  <2> QED BY <2>3, <2>7, <2>9, <2>11, <2>14
<1>2. Inv /\ [Next]_vars =>
        [\A b \in NewRows("create") : anc'[row'[b].tl] = row'[row'[b].parent].tl]_vars
  BY <1>1, BrAssumption
<1> QED BY <1>2, BranchesInvariant, PTL DEF Spec, CreateForksParent

=============================================================================
