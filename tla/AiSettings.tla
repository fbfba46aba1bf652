----------------------------- MODULE AiSettings -----------------------------
(***************************************************************************)
(* The platform's model credentials (ai_settings_service): one row of      *)
(* platform_settings, a copy in Redis and one in every API process, which  *)
(* the model calls read, and the page an admin reads and saves.            *)
(*                                                                         *)
(* A save fills the caches after its flush and before its commit; a read   *)
(* fills them too, with what it has read a moment earlier.  No process     *)
(* drops its copy when another one saves.                                  *)
(***************************************************************************)
CONSTANTS
  None,
  Keys,     \* API keys an admin may type in
  Masked,   \* a key as the page shows it (mask_api_key)
  Bases,    \* base URLs as people write them
  Api,      \* Api[b]: what normalize_base_url makes of b
  EnvKey,   \* AI_API_KEY, or None
  EnvBase,  \* AI_BASE_URL, or the public default
  Admins,   \* bound: requests to the settings page, one each
  Procs     \* API processes (uvicorn --workers)

ASSUME SettingsAssumption ==
  /\ None \notin Keys \cup Bases \cup {Masked, ""} /\ Masked \notin Keys /\ "" \notin Bases
  /\ Api \in [Bases -> Bases] /\ \A b \in Bases : Api[Api[b]] = Api[b]
  /\ EnvKey \in Keys \cup {None} /\ EnvBase \in Bases

VARIABLES
  stored,  \* the committed row, or None
  cache,   \* cache[p]: the copy of a process, or None
  shared,  \* the copy in Redis, or None
  page     \* page[a]: an admin's request

settingsVars == <<stored, cache, shared, page>>

Setting == [key : Keys \cup {None}, base : Bases \cup {None}]
Blank == [key |-> None, base |-> None]
Row == IF stored = None THEN Blank ELSE stored

Fresh == [pc |-> "new"]
Ended == [pc |-> "done"]

SettingsTypeOK ==
  /\ stored \in Setting \cup {None}
  /\ cache \in [Procs -> Setting \cup {None}]
  /\ shared \in Setting \cup {None}
  /\ page \in [Admins -> {Fresh, Ended}
       \cup [pc : {"read"}, proc : Procs, seen : Setting]
       \cup [pc : {"merged", "flushed"}, proc : Procs, first : BOOLEAN, new : Setting]]

-----------------------------------------------------------------------------
(* What is read, shown and saved. *)

\* resolve_effective_ai_credentials: the copy first, then the environment.
Effective(s) ==
  [key  |-> IF s.key # None THEN s.key ELSE EnvKey,
   base |-> Api[IF s.base # None THEN s.base ELSE EnvBase]]

\* public_ai_settings_view: the credentials in effect, the key masked.
View(s) ==
  LET e == Effective(s)
  IN [key |-> IF e.key = None THEN None ELSE Masked, base |-> e.base]

\* None: not in the request; "": the field was emptied
Payload == [key : Keys \cup {None, Masked}, base : Bases \cup {None, ""}, clear : BOOLEAN]

\* An empty base URL clears the stored one.
MergeBase(s, base) == CASE base = None -> s.base [] base = "" -> None [] OTHER -> Api[base]

\* A bug: a masked key is taken for a new one.
MergeMasked(s, new) ==
  [key  |-> IF new.clear THEN None ELSE IF new.key = None THEN s.key ELSE new.key,
   base |-> MergeBase(s, new.base)]

\* save_ai_settings: a blank or masked key leaves the stored one as it is.
Merge(s, new) ==
  [key  |-> IF new.clear THEN None ELSE IF new.key \in {None, Masked} THEN s.key ELSE new.key,
   base |-> MergeBase(s, new.base)]

\* get_cached_ai_settings: the copy of the process, or Redis's, or nothing.
Cached(p) ==
  IF cache[p] # None THEN cache[p] ELSE IF shared # None THEN shared ELSE Blank

\* set_cached_ai_settings
SetCached(p, s) ==
  /\ cache' = [cache EXCEPT ![p] = s]
  /\ shared' = s

-----------------------------------------------------------------------------
(* Requests to the page. *)

\* GET, and the start of a process: the row is read ...
AskView(a, p) ==
  /\ page[a] = Fresh
  /\ page' = [page EXCEPT ![a] = [pc |-> "read", proc |-> p, seen |-> Row]]
  /\ UNCHANGED <<stored, cache, shared>>

\* ... and then copied.
Load(a) ==
  LET q == page[a] IN
  /\ q.pc = "read"
  /\ SetCached(q.proc, q.seen)
  /\ page' = [page EXCEPT ![a] = Ended]
  /\ UNCHANGED stored

\* PATCH: the row is read and merged with the payload ...
AskSave(a, p, new) ==
  /\ page[a] = Fresh
  /\ page' = [page EXCEPT ![a] = [pc |-> "merged", proc |-> p, first |-> stored = None,
                                 new |-> Merge(Row, new)]]
  /\ UNCHANGED <<stored, cache, shared>>

\* ... flushed, when no other save holds the row, and copied; of two first
\* saves the second fails on the primary key ...
FlushSave(a) ==
  LET q == page[a] IN
  /\ q.pc = "merged"
  /\ \A b \in Admins : page[b].pc # "flushed"
  /\ IF q.first /\ stored # None
     THEN page' = [page EXCEPT ![a] = Ended] /\ UNCHANGED <<cache, shared>>
     ELSE /\ page' = [page EXCEPT ![a].pc = "flushed"]
          /\ SetCached(q.proc, q.new)
  /\ UNCHANGED stored

\* ... and committed.
CommitSave(a) ==
  /\ page[a].pc = "flushed"
  /\ stored' = page[a].new
  /\ page' = [page EXCEPT ![a] = Ended]
  /\ UNCHANGED <<cache, shared>>

\* The copies keep what was never committed.
SaveFails(a) ==
  /\ page[a].pc = "flushed"
  /\ page' = [page EXCEPT ![a] = Ended]
  /\ UNCHANGED <<stored, cache, shared>>

SettingsInit ==
  /\ stored = None
  /\ cache = [p \in Procs |-> None] /\ shared = None
  /\ page = [a \in Admins |-> Fresh]

SettingsNext ==
  \E a \in Admins :
    \/ \E p \in Procs : AskView(a, p) \/ \E new \in Payload : AskSave(a, p, new)
    \/ Load(a) \/ FlushSave(a) \/ CommitSave(a) \/ SaveFails(a)

-----------------------------------------------------------------------------
(* Properties. *)

\* Saving the page as it was shown changes nothing for the model calls: the
\* masked key is not taken for a key, and the base URL shown is the one in
\* effect (public_ai_settings_view, save_ai_settings, mask_api_key).
SavingTheViewIsNeutral ==
  LET v == View(Row)
  IN Effective(Merge(Row, [key |-> v.key, base |-> v.base, clear |-> FALSE])) = Effective(Row)
=============================================================================
