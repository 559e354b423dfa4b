---------------------------- MODULE BuildPipeline ----------------------------
(* runPipeline of compute/builds/provisioner.ts puts the two together: what      *)
(* OciPull leaves in the staging directory is renamed to the build's own and      *)
(* taken through the ValidationGate.  One pull at a time.                        *)
(*                                                                             *)
(* Rows and the active build are in PgBuilds.  A pull begins here once the last    *)
(* gate's teardown is over: the code does not wait for it, but the two share        *)
(* nothing, every gate having a project of its own.                             *)
EXTENDS OciPull, ValidationGate

vars == <<ociVars, gateVars>>

Init == OciInit /\ GateInit

Quiet ==
  /\ up
  /\ verdict \in {"none", "ready", "failed"}
  /\ runner = Off
  /\ there = {}
  /\ lane = Free
  /\ \A o \in Owners : deletes[o] = "no"

\* pull(): other builds on the volume are not followed.
Pull ==
  /\ Quiet
  /\ PullPrefix
  /\ verdict' = "none"
  /\ build' = FALSE
  /\ ran' = {} /\ touched' = FALSE
  /\ UNCHANGED <<runner, there, compute, endpoint, lane, deletes, up, left>>

\* pullPrefix, detectVersion or rename() threw: the staging directory goes, or its rm()
\* throws too.
Reclaim ==
  /\ FetchAt("failed")
  /\ FetchGo("idle")
  /\ \/ dest' = NoTree /\ UNCHANGED stuck
     \/ dest # NoTree /\ stuck' = TRUE /\ UNCHANGED dest
  /\ UNCHANGED <<image, tree, scratch, gateVars>>

NotABuild ==
  /\ FetchAt("pulled")
  /\ Throw("failed")
  /\ dest' = NoTree
  /\ UNCHANGED <<image, tree, scratch, stuck, gateVars>>

\* rename(tmpDir, finalDir), and the race begins.
Install ==
  /\ FetchAt("pulled")
  /\ FetchGo("idle")
  /\ dest' = NoTree
  /\ image' = <<>> /\ tree' = Empty
  /\ UNCHANGED <<scratch, stuck>>
  /\ Open

\* The daemon dies; at boot sweepTmp takes every .tmp- directory.
Restart ==
  /\ Crashes
  /\ fetch' = [pc |-> "idle", layer |-> 0, ok |-> FALSE]
  /\ image' = <<>> /\ tree' = Empty
  /\ scratch' = {} /\ dest' = NoTree
  /\ stuck' = FALSE
  /\ Restarted

Next ==
  \/ Pull \/ Reclaim \/ NotABuild \/ Install \/ Restart
  \/ OciSteps /\ UNCHANGED gateVars
  \/ GateNext /\ UNCHANGED ociVars

Spec == Init /\ [][Next]_vars /\ GateFair

TypeOK == OciTypeOK /\ GateTypeOK

=============================================================================
