----------------------------- MODULE LlmGateway -----------------------------
(***************************************************************************)
(* The one gateway to the language model and what its callers and the      *)
(* Keeper see of it: llm/client.py (call, call_with_tools, call_stream),   *)
(* llm/budget.py, llm/outage.py, the two handlers of __main__.py that turn *)
(* a tripped cap and an outage into frames, and POST /api/world.           *)
(*                                                                         *)
(* A call checks the day's spend when it is made and pays when replies     *)
(* arrive; in between the loop runs everything else.  Costs are in units   *)
(* of a fraction of a dollar.  A frame of a handler is published by a      *)
(* task of its own (_fire_and_forget), a frame of /api/world at once.      *)
(* The guards of the services read one usage_log and share the handlers;   *)
(* the model has one guard.                                                *)
(***************************************************************************)
EXTENDS Naturals, Sequences, FiniteSets

CONSTANTS Calls,      \* the call sites that can have a call in flight
          HardCap,    \* the daily hard cap
          MaxCost,    \* the most one reply costs
          Retries,    \* the length of BACKOFF_DELAYS
          MaxPending  \* bound: publishing tasks created and not yet run

ASSUME CallsAssumption == IsFiniteSet(Calls)
ASSUME CapAssumption == HardCap \in Nat \ {0} /\ MaxCost \in Nat
ASSUME RetryAssumption == Retries \in Nat
ASSUME PendingAssumption == MaxPending \in Nat \ {0}

FailureThreshold == 2

\* call with a schema, call without one or with tools, call_stream
Kinds == {"schema", "plain", "stream"}

VARIABLES
    pc,       \* where each call is suspended
    kind,     \* which of the gateway's entry points it is
    attempt,  \* the attempt of _attempt_with_backoff it is at
    reask,    \* it is asking again after an answer that broke the schema
    spend,    \* today_spend()
    streak,   \* consecutive failed dispatches, counted to FailureThreshold
    outage,   \* OutageTracker.active
    paused,   \* Simulation.paused
    hardStop, \* Simulation.hard_stop
    notice,   \* BudgetGuard.notice_active: the latest check refused its call
    pending,  \* frames whose publishing task has not run yet
    banner    \* what the frames published so far make a connected page show

callVars == <<pc, kind, attempt, reask>>
vars == <<pc, kind, attempt, reask, spend, streak, outage, paused, hardStop,
          notice, pending, banner>>

Frames == {"fog_on", "fog_off", "hard_stop"}

Init ==
    /\ pc = [c \in Calls |-> "idle"]
    /\ kind = [c \in Calls |-> "plain"]
    /\ attempt = [c \in Calls |-> 0]
    /\ reask = [c \in Calls |-> FALSE]
    /\ spend = 0
    /\ streak = 0
    /\ outage = FALSE
    /\ paused = FALSE
    /\ hardStop = FALSE
    /\ notice = FALSE
    /\ pending = <<>>
    /\ banner = [fog |-> FALSE, hardStop |-> FALSE]

-----------------------------------------------------------------------------
(* Helpers.                                                                *)

Emit(frame) ==
    /\ Len(pending) < MaxPending
    /\ pending' = Append(pending, frame)

\* The call is over: it has returned a result or raised.
Done(c) ==
    /\ pc' = [pc EXCEPT ![c] = "idle"]
    /\ kind' = [kind EXCEPT ![c] = "plain"]
    /\ attempt' = [attempt EXCEPT ![c] = 0]
    /\ reask' = [reask EXCEPT ![c] = FALSE]

\* Mutant: the recovery is not announced.
ReportSuccessQuietly ==
    /\ streak' = 0
    /\ outage' = FALSE
    /\ UNCHANGED pending

\* OutageTracker.report_success and the handler of its change.
ReportSuccess ==
    /\ streak' = 0
    /\ outage' = FALSE
    /\ IF outage THEN Emit("fog_off") ELSE UNCHANGED pending

\* OutageTracker.report_failure and the handler of its change.
ReportFailure ==
    /\ streak' = IF streak < FailureThreshold THEN streak + 1 ELSE streak
    /\ outage' = (outage \/ streak' >= FailureThreshold)
    /\ IF outage' /\ ~outage THEN Emit("fog_on") ELSE UNCHANGED pending

\* on_hard_cap: a world that is paused already is left as it is.
OnHardCap ==
    IF paused
    THEN UNCHANGED <<paused, hardStop, pending>>
    ELSE /\ paused' = TRUE
         /\ hardStop' = TRUE
         /\ Emit("hard_stop")

-----------------------------------------------------------------------------
(* Calls.                                                                  *)

\* Mutant: the call is not gated.
AdmitUngated(c) ==
    /\ pc[c] = "idle"
    /\ \E k \in Kinds : kind' = [kind EXCEPT ![c] = k]
    /\ pc' = [pc EXCEPT ![c] = "dispatched"]
    /\ notice' = FALSE
    /\ UNCHANGED <<attempt, reask, spend, streak, outage, paused, hardStop,
                   pending, banner>>

\* The guard lets the call through and the first request goes out.
Admit(c) ==
    /\ pc[c] = "idle"
    /\ spend < HardCap
    /\ \E k \in Kinds : kind' = [kind EXCEPT ![c] = k]
    /\ pc' = [pc EXCEPT ![c] = "dispatched"]
    /\ notice' = FALSE
    /\ UNCHANGED <<attempt, reask, spend, streak, outage, paused, hardStop,
                   pending, banner>>

\* check_hard_cap signals and raises; nothing is sent.
Refuse(c) ==
    /\ pc[c] = "idle"
    /\ spend >= HardCap
    /\ notice' = TRUE
    /\ OnHardCap
    /\ UNCHANGED <<callVars, spend, streak, outage, banner>>

\* A usable reply is paid for and ends the call.
Reply(c) ==
    /\ pc[c] = "dispatched"
    /\ \E cost \in 0 .. MaxCost : spend' = spend + cost
    /\ ReportSuccess
    /\ Done(c)
    /\ UNCHANGED <<paused, hardStop, notice, banner>>

\* Mutant: an invalid answer is asked again until it is valid.
InvalidReplyForever(c) ==
    /\ pc[c] = "dispatched"
    /\ kind[c] = "schema"
    /\ \E cost \in 0 .. MaxCost : spend' = spend + cost
    /\ ReportSuccess
    /\ reask' = [reask EXCEPT ![c] = TRUE]
    /\ attempt' = [attempt EXCEPT ![c] = 0]
    /\ UNCHANGED <<pc, kind, paused, hardStop, notice, banner>>

\* A reply that breaks the schema is paid for too.  The first one is asked
\* again, without another look at the budget; the second one is skipped.
InvalidReply(c) ==
    /\ pc[c] = "dispatched"
    /\ kind[c] = "schema"
    /\ \E cost \in 0 .. MaxCost : spend' = spend + cost
    /\ ReportSuccess
    /\ IF reask[c]
       THEN Done(c)
       ELSE /\ reask' = [reask EXCEPT ![c] = TRUE]
            /\ attempt' = [attempt EXCEPT ![c] = 0]
            /\ UNCHANGED <<pc, kind>>
    /\ UNCHANGED <<paused, hardStop, notice, banner>>

\* A rate limit skips the call at once.
RateLimited(c) ==
    /\ pc[c] = "dispatched"
    /\ ReportFailure
    /\ Done(c)
    /\ UNCHANGED <<spend, paused, hardStop, notice, banner>>

\* Mutant: one retry too many.
BackOffOnceMore(c) ==
    /\ pc[c] = "dispatched"
    /\ kind[c] # "stream"
    /\ attempt[c] <= Retries
    /\ pc' = [pc EXCEPT ![c] = "backoff"]
    /\ UNCHANGED <<kind, attempt, reask, spend, streak, outage, paused,
                   hardStop, notice, pending, banner>>

\* The transport fails: a stream is given up, a call backs off.
BackOff(c) ==
    /\ pc[c] = "dispatched"
    /\ kind[c] # "stream"
    /\ attempt[c] < Retries
    /\ pc' = [pc EXCEPT ![c] = "backoff"]
    /\ UNCHANGED <<kind, attempt, reask, spend, streak, outage, paused,
                   hardStop, notice, pending, banner>>

GiveUp(c) ==
    /\ pc[c] = "dispatched"
    /\ kind[c] = "stream" \/ attempt[c] = Retries
    /\ ReportFailure
    /\ Done(c)
    /\ UNCHANGED <<spend, paused, hardStop, notice, banner>>

\* Mutant: the retries are not counted.
RetryUncounted(c) ==
    /\ pc[c] = "backoff"
    /\ pc' = [pc EXCEPT ![c] = "dispatched"]
    /\ UNCHANGED <<kind, attempt, reask, spend, streak, outage, paused,
                   hardStop, notice, pending, banner>>

Retry(c) ==
    /\ pc[c] = "backoff"
    /\ attempt' = [attempt EXCEPT ![c] = @ + 1]
    /\ pc' = [pc EXCEPT ![c] = "dispatched"]
    /\ UNCHANGED <<kind, reask, spend, streak, outage, paused, hardStop,
                   notice, pending, banner>>

-----------------------------------------------------------------------------
(* The day, the Keeper and the publishing tasks.                           *)

\* UTC midnight: what was spent before is not today's.
Rollover ==
    /\ spend' = 0
    /\ UNCHANGED <<callVars, streak, outage, paused, hardStop, notice,
                   pending, banner>>

Pause ==
    /\ paused' = TRUE
    /\ UNCHANGED <<callVars, spend, streak, outage, hardStop, notice, pending,
                   banner>>

\* Mutant: resuming forgets what stopped the world.
ResumeKeepsHardStop ==
    /\ paused' = FALSE
    /\ banner' = [banner EXCEPT !.hardStop = FALSE]
    /\ UNCHANGED <<callVars, spend, streak, outage, hardStop, notice, pending>>

Resume ==
    /\ paused' = FALSE
    /\ hardStop' = FALSE
    /\ banner' = [banner EXCEPT !.hardStop = FALSE]
    /\ UNCHANGED <<callVars, spend, streak, outage, notice, pending>>

\* The page's handling of a published frame (applyStateFrame).
Publish ==
    /\ pending # <<>>
    /\ pending' = Tail(pending)
    /\ banner' = CASE Head(pending) = "fog_on"  -> [banner EXCEPT !.fog = TRUE]
                   [] Head(pending) = "fog_off" -> [banner EXCEPT !.fog = FALSE]
                   [] OTHER -> [banner EXCEPT !.hardStop = TRUE]
    /\ UNCHANGED <<callVars, spend, streak, outage, paused, hardStop, notice>>

-----------------------------------------------------------------------------

\* What the transport answers to the request in flight.
Answer(c) ==
    Reply(c) \/ InvalidReply(c) \/ RateLimited(c) \/ BackOff(c) \/ GiveUp(c)

Next ==
    \/ \E c \in Calls : Admit(c) \/ Refuse(c) \/ Answer(c) \/ Retry(c)
    \/ Rollover \/ Pause \/ Resume \/ Publish

\* The transport answers or fails every request, the backoff sleeps end and
\* the loop runs the publishing tasks; nobody has to call, pause or resume.
Fairness ==
    /\ \A c \in Calls : WF_vars(Answer(c)) /\ WF_vars(Retry(c))
    /\ WF_vars(Publish)

Spec == Init /\ [][Next]_vars
FairSpec == Spec /\ Fairness

-----------------------------------------------------------------------------

TypeOK ==
    /\ pc \in [Calls -> {"idle", "dispatched", "backoff"}]
    /\ kind \in [Calls -> Kinds]
    /\ attempt \in [Calls -> 0 .. Retries]
    /\ reask \in [Calls -> BOOLEAN]
    /\ spend \in Nat
    /\ streak \in 0 .. FailureThreshold
    /\ outage \in BOOLEAN
    /\ paused \in BOOLEAN
    /\ hardStop \in BOOLEAN
    /\ notice \in BOOLEAN
    /\ pending \in Seq(Frames)
    /\ banner \in [fog : BOOLEAN, hardStop : BOOLEAN]

-----------------------------------------------------------------------------
(* Safety.                                                                 *)

\* The hard cap is checked when a call starts and paid for when it ends, so
\* a day can cost more than the cap, but never by more than two replies of
\* every call that can be in flight: the request and its one re-ask.
BoundedOvershoot ==
    spend <= HardCap - 1 + MaxCost * (2 * Cardinality(Calls))

\* A world stopped by the cap is a paused world, and a page that has had every
\* frame says so, whatever the Keeper pauses and resumes before the publishing
\* task of the trip has run.
HardStopIsShown == hardStop => paused /\ (pending = <<>> => banner.hardStop)

\* Once the publishing tasks have run, the fog the page shows is the
\* outage the tracker sees.
FogSettles == pending = <<>> => banner.fog = outage

-----------------------------------------------------------------------------
(* Liveness, under FairSpec.                                               *)

\* Every admitted call ends, however often the transport fails.
CallsEnd == \A c \in Calls : pc[c] # "idle" ~> pc[c] = "idle"

=============================================================================
