---------------------------- MODULE LiveStatus -----------------------------
(***************************************************************************)
(* One open page and GET /api/status: the EventSource of /api/events       *)
(* (http/api.ts sseStream, services/events.ts), its reconnects and the     *)
(* query it invalidates (web/src/api/events.ts, hooks.ts).  The first load *)
(* of the page is over: the query holds an answer.                         *)
(***************************************************************************)
EXTENDS Naturals

CONSTANT Kinds,         \* what the answer tells of: kinds of engine components
         Buffer         \* unread events at which write() reports backpressure
ASSUME LsAssumption == Buffer \in Nat \ {0}

VARIABLES
  es,        \* EventSource: "wait" (reconnect timer), "headers" (accepted), "open"
  sub,       \* the stream subscribes to events and is in openSseResponses
  unread,    \* events written and not yet delivered
  fetch,     \* the query: "idle", "asked", "answered" or "failed"
  answerOld, \* what changed since the answer under way was computed
  shownOld   \* what changed since the answer the page shows was computed
liveVars == <<es, sub, unread, fetch, answerOld, shownOld>>

Stream == <<es, sub, unread>>
Query  == <<fetch, answerOld, shownOld>>

LiveInit ==
  /\ es = "wait" /\ sub = FALSE /\ unread = 0
  /\ fetch = "idle" /\ answerOld = {} /\ shownOld = Kinds

-----------------------------------------------------------------------------
(* The daemon's side *)

(* Mutant: backpressure is ignored, as before the hardening. *)
ChangeUnbounded(K, hint) ==
  /\ shownOld' = shownOld \cup K
  /\ answerOld' = IF fetch = "answered" THEN answerOld \cup K ELSE {}
  /\ unread' = IF hint /\ sub THEN unread + 1 ELSE unread
  /\ UNCHANGED <<es, sub, fetch>>

(* Components of kinds K changed state; `hint`: engine.health was published.
   write() takes the event even when it reports backpressure, and only then is
   the stream torn down. *)
Change(K, hint) ==
  /\ shownOld' = shownOld \cup K
  /\ answerOld' = IF fetch = "answered" THEN answerOld \cup K ELSE {}
  /\ IF hint /\ sub THEN unread' = unread + 1 /\ sub' = (unread' < Buffer)
                    ELSE UNCHANGED <<unread, sub>>
  /\ UNCHANGED <<es, fetch>>

(* raw.end() of an open stream, and its "close" handler. *)
EndStream == sub' = FALSE

Answer ==
  /\ fetch = "asked"
  /\ fetch' = "answered"
  /\ UNCHANGED <<Stream, answerOld, shownOld>>

-----------------------------------------------------------------------------
(* The page's side *)

Refetch == fetch' = "asked" /\ answerOld' = {} /\ UNCHANGED shownOld

(* The reconnect timer fires while the daemon listens. *)
Connect ==
  /\ es = "wait"
  /\ es' = "headers" /\ sub' = TRUE /\ unread' = 0
  /\ UNCHANGED Query

(* Mutant: only events invalidate. *)
OnOpenQuiet ==
  /\ es = "headers"
  /\ es' = "open"
  /\ UNCHANGED <<sub, unread, Query>>

OnOpen ==
  /\ es = "headers"
  /\ es' = "open" /\ Refetch
  /\ UNCHANGED <<sub, unread>>

OnMessage ==
  /\ es = "open" /\ unread > 0
  /\ unread' = unread - 1 /\ Refetch
  /\ UNCHANGED <<es, sub>>

(* The stream ended, or the connection is lost. *)
OnError ==
  /\ es # "wait"
  /\ es' = "wait" /\ sub' = FALSE /\ unread' = 0
  /\ UNCHANGED Query

Settle ==
  /\ fetch = "answered"
  /\ fetch' = "idle" /\ shownOld' = answerOld /\ answerOld' = {}
  /\ UNCHANGED Stream

FetchFails ==
  /\ fetch \in {"asked", "answered"}
  /\ fetch' = "failed" /\ answerOld' = {}
  /\ UNCHANGED <<Stream, shownOld>>

(* The daemon is gone, with every answer it ever gave. *)
LiveVanish ==
  /\ sub' = FALSE /\ shownOld' = Kinds
  /\ answerOld' = IF fetch = "answered" THEN Kinds ELSE {}
  /\ UNCHANGED <<es, unread, fetch>>

PageStep == OnOpen \/ OnMessage \/ OnError \/ Settle \/ FetchFails

-----------------------------------------------------------------------------
LiveTypeOK ==
  /\ es \in {"wait", "headers", "open"} /\ sub \in BOOLEAN
  /\ unread \in 0 .. Buffer
  /\ fetch \in {"idle", "asked", "answered", "failed"}
  /\ answerOld \subseteq Kinds /\ shownOld \subseteq Kinds
=============================================================================
