------------------------------ MODULE Daemon -------------------------------
(***************************************************************************)
(* main() of index.ts: the lockfile, the boot, the abort of a failed boot, *)
(* the shutdown, over the engine, the MCP sessions and an open page.  The  *)
(* restart of a killed container is part of the model, the volume stays.   *)
(***************************************************************************)
EXTENDS EngineRuntime, McpSessions, LiveStatus

VARIABLES
  main,      \* "down", or where main() or shutdown() is suspended
  lock,      \* /data/.lock exists
  request    \* an HTTP request is being answered
vars == <<engineVars, mcpVars, liveVars, main, lock, request>>

(* The kinds of components a page may be out of date about. *)
ASSUME DmAssumption == Kinds = {Db, "launched"}

Quiet == UNCHANGED <<mcpVars, liveVars>>
KindOf(c) == IF c = Db THEN Db ELSE "launched"

Init == EngineInit /\ McpInit /\ LiveInit /\ main = "down" /\ lock = FALSE /\ request = FALSE

-----------------------------------------------------------------------------
(* Boot *)

TakeLock ==
  /\ main = "down" /\ ~lock
  /\ main' = "boot" /\ lock' = TRUE
  /\ UNCHANGED <<engineVars, request>> /\ Quiet

(* The command the refusal prints, run by an operator. *)
ClearLock ==
  /\ main = "down" /\ lock
  /\ lock' = FALSE
  /\ UNCHANGED <<engineVars, main, request>> /\ Quiet

(* State database, registry passes, pg_distrib. *)
BootPasses ==
  /\ main = "boot"
  /\ \/ main' = "engine" /\ BeginStart
     \/ main' = "unlock" /\ UNCHANGED engineVars
  /\ UNCHANGED <<lock, request>> /\ Quiet

(* start() of the engine has returned, or thrown after its own stop(). *)
EngineStarted ==
  /\ main = "engine"
  /\ \/ step = "up" /\ main' = "services" /\ UNCHANGED engineVars
     \/ /\ step = "stopped" /\ main' = "abort" /\ BeginStop
        /\ UNCHANGED <<Procs, DataDir, tracer, deaths>>
  /\ UNCHANGED <<lock, request>> /\ Quiet

(* Mutant: the catch does not wait for the engine. *)
ServicesUnlocking ==
  /\ main = "services"
  /\ \/ main' = "serving" /\ UNCHANGED <<step, k>>
     \/ main' = "unlock" /\ UNCHANGED <<step, k>>
  /\ UNCHANGED <<Procs, DataDir, tracer, deaths, lock, request>> /\ Quiet

(* Reconciliation, services, the sweep, listen(). *)
Services ==
  /\ main = "services"
  /\ \/ main' = "serving" /\ UNCHANGED <<step, k>>
     \/ main' = "abort" /\ BeginStop
  /\ UNCHANGED <<Procs, DataDir, tracer, deaths, lock, request>> /\ Quiet

-----------------------------------------------------------------------------
(* While it listens *)

Serve ==
  /\ main = "serving"
  /\ \/ ~request /\ request' = TRUE /\ Quiet
     \/ /\ UNCHANGED <<request, liveVars>>
        /\ \/ \E s \in Sessions : Initialize(s) \/ Use(s) \/ Delete(s) \/ GoIdle(s)
           \/ Sweep
     \/ (Connect \/ Answer) /\ UNCHANGED <<request, mcpVars>>
  /\ UNCHANGED <<engineVars, main, lock>>

(* The answer; a POST whose body arrives after the drain may still be the
   initialize of a session, which gets the answer it asked for. *)
Respond ==
  /\ request /\ main \in {"serving", "closing"}
  /\ request' = FALSE
  /\ UNCHANGED mcpVars \/ (\E s \in Sessions : Initialize(s))
  /\ UNCHANGED <<engineVars, liveVars, main, lock>>

Clients ==
  /\ UNCHANGED <<engineVars, main, lock, request>>
  /\ \/ PageStep /\ UNCHANGED mcpVars
     \/ (\E s \in Sessions : Disconnect(s)) /\ UNCHANGED liveVars

-----------------------------------------------------------------------------
(* Shutdown *)

(* Mutant: without the preClose hook. *)
SignalLeavingStreams ==
  /\ main = "serving"
  /\ main' = "closing"
  /\ UNCHANGED <<engineVars, mcpVars, liveVars, lock, request>>

(* The first signal: close() refuses new requests, preClose ends the streams
   and the MCP sessions. *)
Signal ==
  /\ main = "serving"
  /\ main' = "closing"
  /\ EndStream /\ UNCHANGED <<es, unread, Query>>
  /\ CloseAll
  /\ UNCHANGED <<engineVars, lock, request>>

(* close() waits for every response, streams included. *)
Drained == ~request /\ ~sub /\ \A s \in Sessions : ~stream[s]

Closed ==
  /\ main = "closing" /\ Drained
  /\ main' = "computes"
  /\ UNCHANGED <<engineVars, lock, request>> /\ Quiet

ComputesStopped ==
  /\ main = "computes"
  /\ main' = "stopping" /\ BeginStop
  /\ UNCHANGED <<Procs, DataDir, tracer, deaths, lock, request>> /\ Quiet

EngineStopped ==
  /\ main \in {"stopping", "abort"} /\ step = "stopped"
  /\ main' = "unlock"
  /\ UNCHANGED <<engineVars, lock, request>> /\ Quiet

Gone == Vanish /\ McpVanish /\ LiveVanish /\ request' = FALSE /\ main' = "down"

(* The rm() of the lockfile; until process.exit() another daemon may start. *)
Unlock ==
  /\ main = "unlock"
  /\ main' = "exit" /\ lock' = FALSE
  /\ UNCHANGED <<engineVars, request>> /\ Quiet

Exit == main = "exit" /\ Gone /\ UNCHANGED lock

(* The container dies: killed, out of memory, a signal before the handlers are
   installed, a second signal, the timer of 45 seconds. *)
Killed == main # "down" /\ Gone /\ UNCHANGED lock

-----------------------------------------------------------------------------
(* A step of the engine; each change of a launched component is published. *)
Engine ==
  /\ main \in {"engine", "services", "serving", "closing", "computes", "stopping", "abort"}
  /\ EngineStep
  /\ LET changed == {c \in Components : proc'[c] # proc[c]} IN
     Change({KindOf(c) : c \in changed}, changed \cap Launched # {})
  /\ UNCHANGED <<mcpVars, main, lock, request>>

Next ==
  \/ TakeLock \/ ClearLock \/ BootPasses \/ EngineStarted \/ Services
  \/ Serve \/ Respond \/ Clients \/ Engine
  \/ Signal \/ Closed \/ ComputesStopped \/ EngineStopped \/ Unlock \/ Exit \/ Killed

Spec == Init /\ [][Next]_vars

(* Requests are answered, the awaits of the shutdown end, a process told to
   stop does or is killed after its ten seconds; nothing is assumed of the
   hard exit, of clients or of a boot. *)
Fairness ==
  /\ WF_vars(Respond) /\ WF_vars(Closed) /\ WF_vars(ComputesStopped)
  /\ WF_vars(EngineStopped) /\ WF_vars(Unlock) /\ WF_vars(Exit)
  /\ WF_vars(Engine /\ StopStep)
FairSpec == Spec /\ Fairness

-----------------------------------------------------------------------------
TypeOK ==
  /\ EngineTypeOK /\ McpTypeOK /\ LiveTypeOK
  /\ main \in {"down", "boot", "engine", "services", "serving", "closing", "computes",
               "stopping", "abort", "unlock", "exit"}
  /\ lock \in BOOLEAN /\ request \in BOOLEAN

(* As long as an engine process runs the lockfile keeps a second daemon off
   the volume: a failed boot and a shutdown remove it only after the engine
   has stopped (main's catch, shutdown). *)
LockCoversEngine == (\E c \in Components : os[c] = "up") => lock

(* Hints and reconnects reach the page: with its stream open, nothing unread
   and no fetch under way or failed, the page shows no outdated state of a
   launched component, whatever hint was lost, dropped for backpressure or
   published while it reconnected (startEvents, useEvents, sseStream). *)
HintsReachClients ==
  es = "open" /\ sub /\ unread = 0 /\ fetch = "idle" => "launched" \notin shownOld

(* A signal ends the daemon by itself, although a page and MCP clients may
   hold their streams open for ever: close() does not wait for them, and the
   hard exit is not needed (preClose). *)
CloseEnds == main = "closing" ~> main = "down"
=============================================================================
