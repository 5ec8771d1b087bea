----------------------------- MODULE Onboarding -----------------------------
(***************************************************************************)
(* The first run: the steps of _onboarding_step and the requests of        *)
(* POST /api/settings in server/api.py, with what a restart keeps of them. *)
(*                                                                         *)
(* A request has no suspension before its mate_name has been accepted, so  *)
(* one with several keys acts like one request for each, in the order of   *)
(* the code.  After that it awaits the embedding of one seed memory after  *)
(* the other.  Requests that are refused change nothing and are left out.  *)
(***************************************************************************)
EXTENDS Integers

CONSTANTS Requests,     \* requests that may be in progress together
          Locales,      \* VALID_LOCALES
          ConfigLocale, \* the locale of config.toml
          NumSeeds,     \* seed memories of all personas on the map, in order
          MaxLaunches   \* bound: launches of the process

VARIABLES
    key,      \* OPENAI_API_KEY is set, and the services are wired
    store,    \* the onboarding keys that world_state holds
    rows,     \* how often each seed memory is in memories
    at,       \* the seed a request embeds, or 0
    spoken,   \* the locale of the services
    renamed,  \* the persona of the Mate has the name the Keeper chose
    launches  \* launches so far

vars == <<key, store, rows, at, spoken, renamed, launches>>
process == <<key, launches>>

Seeds == 1 .. NumSeeds
Keys == {"locale", "keeper_name", "mate_name", "done"}

Init ==
    /\ key \in BOOLEAN
    /\ store = {}
    /\ rows = [n \in Seeds |-> 0]
    /\ at = [r \in Requests |-> 0]
    /\ spoken = ConfigLocale
    /\ renamed = FALSE
    /\ launches = 1

\* _onboarding_step
OnboardingStep ==
    IF "done" \in store THEN "done"
    ELSE IF ~key THEN "api_key"
    ELSE IF "locale" \notin store THEN "locale"
    ELSE IF "keeper_name" \notin store THEN "keeper_name"
    ELSE "mate_name"

-----------------------------------------------------------------------------
(* POST /api/settings.                                                     *)

\* Accepted in any step; the services follow at once, if they are there.
SetLocale(locale) ==
    /\ store' = store \cup {"locale"}
    /\ spoken' = IF key THEN locale ELSE spoken
    /\ UNCHANGED <<process, rows, at, renamed>>

SetKeeperName ==
    /\ store' = store \cup {"keeper_name"}
    /\ UNCHANGED <<process, rows, at, spoken, renamed>>

\* The Mate is named, and the first seed memory is embedded; without any the
\* onboarding is done.
NameMate(r) ==
    /\ OnboardingStep = "mate_name"
    /\ at[r] = 0
    /\ renamed' = TRUE
    /\ store' = store \cup {"mate_name"} \cup (IF NumSeeds = 0 THEN {"done"} ELSE {})
    /\ at' = [at EXCEPT ![r] = IF NumSeeds = 0 THEN 0 ELSE 1]
    /\ UNCHANGED <<process, rows, spoken>>

Insert(r) == rows' = [rows EXCEPT ![at[r]] = @ + 1]

\* The seed is inserted and the next one embedded; after the last the
\* onboarding is done, whatever other requests do.
WriteSeed(r) ==
    /\ at[r] # 0
    /\ Insert(r)
    /\ at' = [at EXCEPT ![r] = IF @ = NumSeeds THEN 0 ELSE @ + 1]
    /\ store' = store \cup (IF at[r] = NumSeeds THEN {"done"} ELSE {})
    /\ UNCHANGED <<process, spoken, renamed>>

-----------------------------------------------------------------------------
(* The process.                                                            *)

\* Requests in progress are gone, and neither the locale nor the name of the
\* Mate is read back from the database.
Relaunch ==
    /\ launches < MaxLaunches
    /\ launches' = launches + 1
    /\ key' \in BOOLEAN
    /\ at' = [r \in Requests |-> 0]
    /\ spoken' = ConfigLocale
    /\ renamed' = FALSE

Restart ==
    /\ Relaunch
    /\ UNCHANGED <<store, rows>>

\* The process dies after the last seed and before onboarding_done.
CrashBeforeDone(r) ==
    /\ at[r] # 0 /\ at[r] = NumSeeds
    /\ Insert(r)
    /\ Relaunch
    /\ UNCHANGED store

Next ==
    \/ \E locale \in Locales : SetLocale(locale)
    \/ SetKeeperName
    \/ \E r \in Requests : NameMate(r) \/ WriteSeed(r) \/ CrashBeforeDone(r)
    \/ Restart

Spec == Init /\ [][Next]_vars

-----------------------------------------------------------------------------
(* Properties.                                                             *)

\* Every variable keeps its type.
TypeOK ==
    /\ key \in BOOLEAN
    /\ store \subseteq Keys
    /\ rows \in [Seeds -> Nat]
    /\ at \in [Requests -> 0 .. NumSeeds]
    /\ spoken \in Locales \cup {ConfigLocale}
    /\ renamed \in BOOLEAN
    /\ launches \in Nat

\* "Write every map-visible persona's seed memories exactly once"
\* (_write_seed_memories_once): no completion, however often it is requested or
\* cut off, stores a seed memory a second time.
SeedsOnce == \A n \in Seeds : rows[n] <= 1

\* When the onboarding is done, the locale and both names have been given and
\* every seed memory is in the table, also if the request that completed it
\* followed one that was cut off by a crash (_onboarding_step).
DoneIsComplete == "done" \in store => store = Keys /\ \A n \in Seeds : rows[n] >= 1
=============================================================================
