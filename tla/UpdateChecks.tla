----------------------------- MODULE UpdateChecks -----------------------------
(* "Check for updates": what Provisioner remembers of the image that the           *)
(* registry calls latest (lastCheck), and how pulls settle it, on top of the pulls, *)
(* activations and removes of PgBuilds.  The registry may move latest to another     *)
(* image at any time.                                                           *)
EXTENDS PgBuilds

CONSTANTS Incompatible,   \* the images whose Postgres cannot run on this base
          NoCheck

ASSUME UcAssumption ==
  /\ Incompatible \subseteq Digests \ Mislabelled
  /\ NoCheck \notin [dig : Digests, state : {"current", "incompatible", "unverified"}]

VARIABLES
  latest,    \* the image that the registry's latest tag names
  tag,       \* the tag of the last pull: latest, or a pinned one
  hopeless,  \* the failed rows whose error is about the image itself
  known,     \* lastCheck
  asking     \* the image a check has resolved, until it is classified

ucVars == <<latest, tag, hopeless, known, asking>>

UcInit ==
  /\ Init
  /\ latest \in Digests
  /\ tag = "pinned"
  /\ hopeless = {}
  /\ known = NoCheck
  /\ asking = NoDigest

-----------------------------------------------------------------------------
(* Provisioner.                                                              *)

\* classifyDigest, over the rows r of which bad are hopeless.
Classify(r, bad, d) ==
  LET at == {i \in Live(r) : r[i].dig = d}
      installed(m) == m # 0 /\ \E i \in Ready(r) : r[i].minor = m
      state == IF \E i \in at : r[i].st = "ready" \/ installed(r[i].minor) THEN "current"
               ELSE IF at \cap bad # {} THEN "incompatible"
               ELSE "unverified"
  IN [dig |-> d, state |-> state]

\* The rows whose error a step of a pull makes one about the image: majorMismatchMessage,
\* or detectVersion's about the base, which may also have run out of time first.
Condemned ==
  IF PullAt("mislabelled") /\ pull'.pc = "idle" THEN {{pull.id}}
  ELSE IF PullAt("detect") /\ pull'.pc = "staging" /\ pull.dig \in Incompatible
  THEN {{pull.id}, {}}
  ELSE {{}}

PullBegins == PullAt("idle") /\ pull'.pc # "idle"
PullEnds   == ~PullAt("idle") /\ pull'.pc = "idle" /\ pull.dig # NoDigest

\* Mutant: a pull of another tag settles nothing.
RefreshLatestOnly(r, bad) ==
  known' = IF PullEnds /\ tag = "latest" THEN Classify(r, bad, pull.dig) ELSE known

\* The finally block of runPipeline: a pull of latest, and one that came to the image
\* of the last check, refresh it.
Refresh(r, bad) ==
  known' = IF PullEnds /\ (tag = "latest" \/ (known # NoCheck /\ known.dig = pull.dig))
           THEN Classify(r, bad, pull.dig) ELSE known

Prompts(c) == c # NoCheck /\ c.state = "unverified"

\* A step of PgBuilds.
BuildStep ==
  /\ Next
  /\ PullAt("resolve") /\ tag = "latest" => pull'.dig \in {NoDigest, latest}
  /\ PullAt("detect") /\ pull.dig \in Incompatible => pull'.pc \in {"detect", "staging"}
  /\ IF PullBegins THEN tag' \in {"latest", "pinned"} ELSE UNCHANGED tag
  /\ \E bad \in Condemned : hopeless' = {i \in hopeless \cup bad : row'[i] # NoRow}
  /\ Refresh(row', hopeless')
  /\ UNCHANGED <<latest, asking>>

Retag ==
  /\ latest' \in Digests \ {latest}
  /\ UNCHANGED <<vars, tag, hopeless, known, asking>>

\* check(): the registry resolves latest ...
Resolve ==
  /\ asking = NoDigest
  /\ asking' = latest
  /\ UNCHANGED <<vars, latest, tag, hopeless, known>>

\* ... and its answer is classified by what is installed when it arrives.
Check ==
  /\ asking # NoDigest
  /\ known' = Classify(row, hopeless, asking)
  /\ asking' = NoDigest
  /\ UNCHANGED <<vars, latest, tag, hopeless>>

\* The registry does not answer.
CheckFails ==
  /\ asking # NoDigest
  /\ asking' = NoDigest
  /\ UNCHANGED <<vars, latest, tag, hopeless, known>>

UcNext == BuildStep \/ Retag \/ Resolve \/ Check \/ CheckFails

UcSpec == UcInit /\ [][UcNext]_<<vars, ucVars>>

-----------------------------------------------------------------------------
(* Properties.                                                               *)

SettledImage(d) == \E i \in Live(row) : row[i].dig = d /\ (row[i].st = "ready" \/ i \in hopeless)

\* "so /api/status + MCP don't keep prompting a Pull already settled": with no pull in
\* flight the daemon never offers an image that is installed or known not to work,
\* however checks, pulls of any tag and moves of latest are interleaved.
PromptHonest == PullAt("idle") /\ Prompts(known) => ~SettledImage(known.dig)

=============================================================================
