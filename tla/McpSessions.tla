---------------------------- MODULE McpSessions ----------------------------
(***************************************************************************)
(* The sessions of /mcp (mcp/session.ts, mcp/http.ts): a map from ids to   *)
(* transports, which a client, the idle sweep and the shutdown may close.  *)
(* Between the first instruction of a request and its hand-over to the     *)
(* transport there are only promise jobs, so a request is one step.        *)
(***************************************************************************)
EXTENDS Naturals, FiniteSets

CONSTANT Sessions      \* session ids; each is minted once

VARIABLES
  store,       \* SessionStore.sessions: the ids it holds
  transport,   \* "none", "open" or "closed"
  closes,      \* how often the transport was closed
  idle,        \* lastSeen is more than the time-to-live ago
  stream       \* the session has an open response stream
mcpVars == <<store, transport, closes, idle, stream>>

McpInit ==
  /\ store = {}
  /\ transport = [s \in Sessions |-> "none"]
  /\ closes = [s \in Sessions |-> 0]
  /\ idle = [s \in Sessions |-> FALSE]
  /\ stream = [s \in Sessions |-> FALSE]

Initialize(s) ==
  /\ transport[s] = "none"
  /\ transport' = [transport EXCEPT ![s] = "open"]
  /\ store' = store \cup {s}
  /\ UNCHANGED <<closes, idle, stream>>

(* A POST or GET of a known session; a GET opens a stream. *)
Use(s) ==
  /\ s \in store
  /\ idle' = [idle EXCEPT ![s] = FALSE]
  /\ stream' \in {stream, [stream EXCEPT ![s] = TRUE]}
  /\ UNCHANGED <<store, transport, closes>>

(* A client that goes away ends its stream, not its session. *)
Disconnect(s) ==
  /\ stream[s]
  /\ stream' = [stream EXCEPT ![s] = FALSE]
  /\ UNCHANGED <<store, transport, closes, idle>>

GoIdle(s) ==
  /\ s \in store /\ ~idle[s]
  /\ idle' = [idle EXCEPT ![s] = TRUE]
  /\ UNCHANGED <<store, transport, closes, stream>>

(* Mutant: onclose closes what it removes, instead of only removing it. *)
CloseTwice(S, kept) ==
  /\ transport' = [s \in Sessions |-> IF s \in S THEN "closed" ELSE transport[s]]
  /\ closes' = [s \in Sessions |-> IF s \in S THEN closes[s] + (IF s \in kept THEN 2 ELSE 1) ELSE closes[s]]
  /\ stream' = [s \in Sessions |-> s \notin S /\ stream[s]]
  /\ idle' = [s \in Sessions |-> s \notin S /\ idle[s]]
  /\ store' = kept \ S

(* transport.close() of the sessions S, and its onclose, which removes the
   entry: it finds none when the closer has removed it before (kept is what
   the closer leaves in the map). *)
Close(S, kept) ==
  /\ transport' = [s \in Sessions |-> IF s \in S THEN "closed" ELSE transport[s]]
  /\ closes' = [s \in Sessions |-> IF s \in S THEN closes[s] + 1 ELSE closes[s]]
  /\ stream' = [s \in Sessions |-> s \notin S /\ stream[s]]
  /\ idle' = [s \in Sessions |-> s \notin S /\ idle[s]]
  /\ store' = kept \ S

(* DELETE /mcp: the transport closes itself with its entry in place. *)
Delete(s) ==
  /\ s \in store
  /\ Close({s}, store)

Sweep ==
  LET old == {s \in store : idle[s]} IN
  /\ old # {}
  /\ Close(old, store \ old)

CloseAll == Close(store, {})

McpVanish ==
  /\ store' = {}
  /\ transport' = [s \in Sessions |-> "none"]
  /\ closes' = [s \in Sessions |-> 0]
  /\ idle' = [s \in Sessions |-> FALSE]
  /\ stream' = [s \in Sessions |-> FALSE]

McpTypeOK ==
  /\ store \subseteq Sessions
  /\ transport \in [Sessions -> {"none", "open", "closed"}]
  /\ closes \in [Sessions -> Nat]
  /\ idle \in [Sessions -> BOOLEAN] /\ stream \in [Sessions -> BOOLEAN]

(* Whoever closes a session, the client, the sweep or the shutdown, closes it
   once; and the map holds exactly the open ones, so that no session outlives
   the sweep's and the shutdown's reach, and no request is handed to a closed
   transport. *)
SessionsOwned ==
  \A s \in Sessions :
    /\ s \in store <=> transport[s] = "open"
    /\ closes[s] = IF transport[s] = "closed" THEN 1 ELSE 0
    /\ stream[s] => s \in store
=============================================================================
