---------------------------- MODULE PeerSociety ----------------------------
(***************************************************************************)
(* The decision loop of the map peers and their conversations:             *)
(* peers/decide.py, peers/converse.py, the wiring of the two in            *)
(* __main__.py (on_talk, is_busy) and the POST /api/board handler.         *)
(*                                                                         *)
(* Everything runs on one asyncio loop, so a step of this module is what a *)
(* task does from one suspension to the next.  The tasks are the scheduler *)
(* loop of each peer (run_peer; the task is named by its peer) and the     *)
(* requests that post to the board.  A task that talks keeps the decision  *)
(* lock of the speaker while it runs the target's own decision, so one     *)
(* task can be inside several nested calls of decide: held[t] is the set   *)
(* of locks it has, cur[t] the peer of its innermost call.  When the       *)
(* innermost call returns, every enclosing one returns in the same step.   *)
(***************************************************************************)
EXTENDS Naturals, Sequences, FiniteSets

CONSTANTS Peers,          \* the map peers
          BoardRequests,  \* concurrent POST /api/board requests
          ChoosableActions, \* the actions the language model picks from
          TurnLimits,     \* what conversation_turn_limit() may answer
          RepeatExclusionRun  \* identical actions after which one is excluded

Actions == {"move", "talk", "post_board", "read_board", "rest", "emote"}

ASSUME PeersAssumption == Peers \cap BoardRequests = {}
ASSUME ActionsAssumption == ChoosableActions \subseteq Actions
ASSUME TurnsAssumption == TurnLimits \subseteq Nat \ {0}
ASSUME RunAssumption == RepeatExclusionRun \in Nat \ {0}

Tasks == Peers \cup BoardRequests

VARIABLES
    pc,       \* where each task is suspended
    cur,      \* the peer whose decision the task's innermost call makes
    held,     \* the decision locks the task has
    waiters,  \* per peer, the tasks queued for its lock, first come first
    schema,   \* the action the task's request excludes, "none" if nothing
    conv,     \* the conversation the task runs: partner, turn limit, turns
    todo,     \* the peers a board request has still to re-decide
    busy,     \* ConversationEngine.busy
    last,     \* the peer's latest recorded action
    run,      \* how many times in a row, counted up to RepeatExclusionRun + 1
    heading   \* who chose the peer's course: the simulation, or a decision

vars == <<pc, cur, held, waiters, schema, conv, todo, busy, last, run, heading>>

Suspended == {"waiting", "deciding", "reading", "talking", "judging",
              "remembering", "mailing"}
Conversing == {"talking", "judging", "remembering", "mailing"}
NoConv == [b |-> "none", cap |-> 0, turn |-> 0, ends |-> {}]
Convs == [b : Peers \cup {"none"}, cap : TurnLimits \cup {0}, turn : Nat,
          ends : SUBSET Peers]

\* Per-task bookkeeping of a task that is inside no decision.
Init ==
    /\ pc = [t \in Tasks |-> "idle"]
    /\ cur = [t \in Tasks |-> "none"]
    /\ held = [t \in Tasks |-> {}]
    /\ waiters = [p \in Peers |-> <<>>]
    /\ schema = [t \in Tasks |-> "none"]
    /\ conv = [t \in Tasks |-> NoConv]
    /\ todo = [t \in BoardRequests |-> {}]
    /\ busy = {}
    /\ last = [p \in Peers |-> "none"]
    /\ run = [p \in Peers |-> 0]
    /\ heading = [p \in Peers |-> "simulation"]

-----------------------------------------------------------------------------
(* decide() up to its first suspension, and its return.                    *)

\* The action run three times in a row, which the request may not contain.
Excluded(p) == IF run[p] >= RepeatExclusionRun THEN last[p] ELSE "none"

Unlocked(p) == \A t \in Tasks : p \notin held[t]

\* Mutant: decide() without its lock.
LockFreeNoLock(p) == TRUE

\* An asyncio.Lock is taken without suspending only if nobody queues for it.
LockFree(p) == Unlocked(p) /\ waiters[p] = <<>>

\* The language model is asked, with the schema built now.
Ask(t, p) ==
    /\ pc' = [pc EXCEPT ![t] = "deciding"]
    /\ cur' = [cur EXCEPT ![t] = p]
    /\ held' = [held EXCEPT ![t] = @ \cup {p}]
    /\ schema' = [schema EXCEPT ![t] = Excluded(p)]

\* The innermost decide returns, and with it every call around it: all the
\* locks are released.  A scheduler sleeps, a request goes on to its next peer.
Return(t) ==
    /\ pc' = [pc EXCEPT ![t] = IF t \in BoardRequests THEN "next" ELSE "idle"]
    /\ cur' = [cur EXCEPT ![t] = "none"]
    /\ held' = [held EXCEPT ![t] = {}]
    /\ schema' = [schema EXCEPT ![t] = "none"]

\* decide(p) is called by task t when the busy set is occupied.
Decide(t, p, occupied) ==
    \/ /\ p \in occupied
       /\ Return(t)
       /\ UNCHANGED waiters
    \/ /\ p \notin occupied
       /\ LockFree(p)
       /\ Ask(t, p)
       /\ UNCHANGED waiters
    \/ /\ p \notin occupied
       /\ ~LockFree(p)
       /\ pc' = [pc EXCEPT ![t] = "waiting"]
       /\ cur' = [cur EXCEPT ![t] = p]
       /\ waiters' = [waiters EXCEPT ![p] = Append(@, t)]
       /\ schema' = [schema EXCEPT ![t] = "none"]
       /\ UNCHANGED held

\* The lock was released and this task is the first of the queue.
Acquire(t) ==
    LET p == cur[t] IN
    /\ pc[t] = "waiting"
    /\ Unlocked(p)
    /\ waiters[p] # <<>>
    /\ Head(waiters[p]) = t
    /\ waiters' = [waiters EXCEPT ![p] = Tail(@)]
    /\ Ask(t, p)
    /\ UNCHANGED <<conv, todo, busy, last, run, heading>>

-----------------------------------------------------------------------------
(* Who calls decide().                                                     *)

\* The timer of a peer's scheduler loop.
Wake(p) ==
    /\ pc[p] = "idle"
    /\ Decide(p, p, busy)
    /\ UNCHANGED <<conv, todo, busy, last, run, heading>>

\* POST /api/board: every map peer is to decide again, one after the other.
PostBoard(t) ==
    /\ pc[t] = "idle"
    /\ todo' = [todo EXCEPT ![t] = Peers]
    /\ pc' = [pc EXCEPT ![t] = "next"]
    /\ UNCHANGED <<cur, held, waiters, schema, conv, busy, last, run, heading>>

Redecide(t) ==
    /\ pc[t] = "next"
    /\ \E p \in todo[t] :
         /\ todo' = [todo EXCEPT ![t] = @ \ {p}]
         /\ Decide(t, p, busy)
    /\ UNCHANGED <<conv, busy, last, run, heading>>

Respond(t) ==
    /\ pc[t] = "next"
    /\ todo[t] = {}
    /\ pc' = [pc EXCEPT ![t] = "idle"]
    /\ UNCHANGED <<cur, held, waiters, schema, conv, todo, busy, last, run,
                   heading>>

-----------------------------------------------------------------------------
(* The answer: record_action, then _route.                                 *)

\* Mutant: the record of past actions grows without bound.
RecordUnbounded(p, act) ==
    /\ last' = [last EXCEPT ![p] = act]
    /\ run' = [run EXCEPT ![p] = IF last[p] # act THEN 1 ELSE @ + 1]

\* The latest actions are kept; of a run only as much as can matter.
Record(p, act) ==
    /\ last' = [last EXCEPT ![p] = act]
    /\ run' = [run EXCEPT ![p] =
                  IF last[p] # act THEN 1
                  ELSE IF @ > RepeatExclusionRun THEN @ ELSE @ + 1]

\* The model answers act, which the schema of the request allows.
Answers(t, act) ==
    /\ pc[t] = "deciding"
    /\ act \in ChoosableActions \ {schema[t]}
    /\ Record(cur[t], act)

\* assign_destination, unless there is no such node or no path to it.
Sail(p) == heading' \in {heading, [heading EXCEPT ![p] = "decision"]}

DecideMove(t) ==
    /\ Answers(t, "move")
    /\ Sail(cur[t])
    /\ Return(t)
    /\ UNCHANGED <<waiters, conv, todo, busy>>

\* rest is also what every failed or skipped request falls back to, the
\* excluded action or not.
DecideRest(t) ==
    /\ pc[t] = "deciding"
    /\ Record(cur[t], "rest")
    /\ Sail(cur[t])
    /\ Return(t)
    /\ UNCHANGED <<waiters, conv, todo, busy>>

\* emote routes nothing; post_board writes and publishes without suspending.
DecideAtOnce(t) ==
    /\ \E act \in {"emote", "post_board"} : Answers(t, act)
    /\ Return(t)
    /\ UNCHANGED <<waiters, conv, todo, busy, heading>>

\* With posts on the board, reading it waits for the memory's embedding.
DecideReadBoard(t) ==
    /\ Answers(t, "read_board")
    /\ \/ Return(t)
       \/ /\ pc' = [pc EXCEPT ![t] = "reading"]
          /\ schema' = [schema EXCEPT ![t] = "none"]
          /\ UNCHANGED <<cur, held>>
    /\ UNCHANGED <<waiters, conv, todo, busy, heading>>

FinishReading(t) ==
    /\ pc[t] = "reading"
    /\ Return(t)
    /\ UNCHANGED <<waiters, conv, todo, busy, last, run, heading>>

-----------------------------------------------------------------------------
(* Conversations.                                                          *)

\* Mutant: only the speaker is checked.
EligibleSpeakerOnly(a, b) == a \notin busy

\* Whether the two are near enough is the simulation's and left open.
Eligible(a, b) == a \notin busy /\ b \notin busy

\* Any peer in town can be the target, the speaker itself included.
DecideTalk(t) ==
    /\ Answers(t, "talk")
    /\ \E b \in Peers, cap \in TurnLimits :
         /\ Eligible(cur[t], b)
         /\ busy' = busy \cup {cur[t], b}
         /\ conv' = [conv EXCEPT ![t] =
                       [b |-> b, cap |-> cap, turn |-> 0, ends |-> {}]]
    /\ pc' = [pc EXCEPT ![t] = "talking"]
    /\ schema' = [schema EXCEPT ![t] = "none"]
    /\ UNCHANGED <<cur, held, waiters, todo, heading>>

\* The target is unknown, too far away, or one of the two is busy.
DecideTalkInVain(t) ==
    /\ Answers(t, "talk")
    /\ Return(t)
    /\ UNCHANGED <<waiters, conv, todo, busy, heading>>

\* start() ends and on_talk has the target decide again, inside the
\* speaker's decision.
Close(t) ==
    /\ busy' = busy \ {cur[t], conv[t].b}
    /\ conv' = [conv EXCEPT ![t] = NoConv]
    /\ Decide(t, conv[t].b, busy')
    /\ UNCHANGED <<todo, last, run, heading>>

Speaker(t) == IF conv[t].turn % 2 = 0 THEN cur[t] ELSE conv[t].b

\* One line is spoken.  The turn limit or both wanting to end closes the
\* transcript, which goes to events before its outcome is asked for.
Speak(t) ==
    /\ pc[t] = "talking"
    /\ \E wantsToEnd \in BOOLEAN :
         LET ends == IF wantsToEnd THEN conv[t].ends \cup {Speaker(t)}
                                   ELSE conv[t].ends \ {Speaker(t)}
         IN  /\ conv' = [conv EXCEPT ![t].turn = @ + 1, ![t].ends = ends]
             /\ pc' = [pc EXCEPT ![t] =
                         IF \/ conv[t].turn + 1 = conv[t].cap
                            \/ {cur[t], conv[t].b} \subseteq ends
                         THEN "judging" ELSE "talking"]
    /\ UNCHANGED <<cur, held, waiters, schema, todo, busy, last, run, heading>>

\* A skipped turn ends the conversation early.
SkipTurn(t) ==
    /\ pc[t] = "talking"
    /\ \/ /\ conv[t].turn = 0
          /\ Close(t)
       \/ /\ conv[t].turn > 0
          /\ pc' = [pc EXCEPT ![t] = "judging"]
          /\ UNCHANGED <<cur, held, waiters, schema, conv, todo, busy, last,
                         run, heading>>

\* The outcome is written to both memories, then to the relationship, then
\* each of the two may cause a letter; a skipped outcome is dropped.
Judge(t) ==
    /\ pc[t] = "judging"
    /\ pc' = [pc EXCEPT ![t] = "remembering"]
    /\ UNCHANGED <<cur, held, waiters, schema, conv, todo, busy, last, run,
                   heading>>

SkipOutcome(t) ==
    /\ pc[t] = "judging"
    /\ Close(t)

Remember(t) ==
    /\ pc[t] = "remembering"
    /\ pc' = [pc EXCEPT ![t] = "mailing"]
    /\ UNCHANGED <<cur, held, waiters, schema, conv, todo, busy, last, run,
                   heading>>

Mail(t) ==
    /\ pc[t] = "mailing"
    /\ Close(t)

\* Mutant: start() without its finally.
RaiseKeepsBusy(t) ==
    /\ pc[t] \in {"talking", "judging", "mailing"}
    /\ pc' = [pc EXCEPT ![t] = IF t \in BoardRequests THEN "idle" ELSE "dead"]
    /\ conv' = [conv EXCEPT ![t] = NoConv]
    /\ cur' = [cur EXCEPT ![t] = "none"]
    /\ held' = [held EXCEPT ![t] = {}]
    /\ schema' = [schema EXCEPT ![t] = "none"]
    /\ todo' = [r \in BoardRequests |-> IF r = t THEN {} ELSE todo[r]]
    /\ UNCHANGED <<waiters, busy, last, run, heading>>

\* Mutant: the lock is not released when the decision raises.
RaiseKeepsLocks(t) ==
    /\ pc[t] \in {"talking", "judging", "mailing"}
    /\ busy' = busy \ {cur[t], conv[t].b}
    /\ conv' = [conv EXCEPT ![t] = NoConv]
    /\ pc' = [pc EXCEPT ![t] = IF t \in BoardRequests THEN "idle" ELSE "dead"]
    /\ cur' = [cur EXCEPT ![t] = "none"]
    /\ schema' = [schema EXCEPT ![t] = "none"]
    /\ todo' = [r \in BoardRequests |-> IF r = t THEN {} ELSE todo[r]]
    /\ UNCHANGED <<held, waiters, last, run, heading>>

\* A turn, an outcome or a letter raises.  Nothing on the way up catches it:
\* the busy marks and the locks are released, the scheduler task is over for
\* good, a request answers with an error.
Raise(t) ==
    /\ pc[t] \in {"talking", "judging", "mailing"}
    /\ busy' = busy \ {cur[t], conv[t].b}
    /\ conv' = [conv EXCEPT ![t] = NoConv]
    /\ pc' = [pc EXCEPT ![t] = IF t \in BoardRequests THEN "idle" ELSE "dead"]
    /\ cur' = [cur EXCEPT ![t] = "none"]
    /\ held' = [held EXCEPT ![t] = {}]
    /\ schema' = [schema EXCEPT ![t] = "none"]
    /\ todo' = [r \in BoardRequests |-> IF r = t THEN {} ELSE todo[r]]
    /\ UNCHANGED <<waiters, last, run, heading>>

-----------------------------------------------------------------------------

\* The simulation sends a peer that arrived or was blocked elsewhere,
\* in a conversation or not.
Drift(p) ==
    /\ heading' = [heading EXCEPT ![p] = "simulation"]
    /\ UNCHANGED <<pc, cur, held, waiters, schema, conv, todo, busy, last, run>>

\* What a task does once it is inside a decision or between two of them.
Step(t) ==
    \/ Acquire(t)
    \/ DecideMove(t) \/ DecideRest(t) \/ DecideAtOnce(t)
    \/ DecideReadBoard(t) \/ FinishReading(t)
    \/ DecideTalk(t) \/ DecideTalkInVain(t)
    \/ Speak(t) \/ SkipTurn(t)
    \/ Judge(t) \/ SkipOutcome(t) \/ Remember(t) \/ Mail(t)
    \/ Raise(t)

Next ==
    \/ \E p \in Peers : Wake(p) \/ Drift(p)
    \/ \E t \in BoardRequests : PostBoard(t) \/ Redecide(t) \/ Respond(t)
    \/ \E t \in Tasks : Step(t)

\* The loop runs every ready task, the language model's client gives up
\* after a bounded number of attempts, and the timers of run_peer ring.
Fairness ==
    /\ \A p \in Peers : WF_vars(Wake(p))
    /\ \A t \in BoardRequests : WF_vars(Redecide(t) \/ Respond(t))
    /\ \A t \in Tasks : WF_vars(Step(t))

Spec == Init /\ [][Next]_vars
FairSpec == Spec /\ Fairness

-----------------------------------------------------------------------------

TypeOK ==
    /\ pc \in [Tasks -> Suspended \cup {"idle", "next", "dead"}]
    /\ cur \in [Tasks -> Peers \cup {"none"}]
    /\ held \in [Tasks -> SUBSET Peers]
    /\ waiters \in [Peers -> Seq(Tasks)]
    /\ schema \in [Tasks -> Actions \cup {"none"}]
    /\ conv \in [Tasks -> Convs]
    /\ todo \in [BoardRequests -> SUBSET Peers]
    /\ busy \in SUBSET Peers
    /\ last \in [Peers -> Actions \cup {"none"}]
    /\ run \in [Peers -> 0 .. RepeatExclusionRun + 1]
    /\ heading \in [Peers -> {"simulation", "decision"}]

(* Safety.                                                                 *)

Pair(t) == {cur[t], conv[t].b}

Talking == {t \in Tasks : pc[t] \in Conversing}

\* The busy set is exactly the peers of the running conversations, and no
\* peer is in two of them: what eligible() and the finally of start() are for.
BusyExact ==
    /\ busy = UNION {Pair(t) : t \in Talking}
    /\ \A t, u \in Talking : t # u => Pair(t) \cap Pair(u) = {}

\* No two tasks are inside decide() of the same peer with its lock, whatever
\* timers, board posts and conversations overlap (the claim of decide()).
OneDecisionPerPeer ==
    \A t, u \in Tasks : t # u => held[t] \cap held[u] = {}

\* A fourth identical action in a row is never the model's choice: only the
\* fallback of a failed request can repeat rest.
AntiRepeat == \A p \in Peers : run[p] > RepeatExclusionRun => last[p] = "rest"

\* "Failures always degrade to rest - a peer is never left undecided" (the
\* module docstring of decide.py): no failure ends a peer's scheduler loop.
SchedulersSurvive == \A p \in Peers : pc[p] # "dead"

-----------------------------------------------------------------------------
(* Liveness, under FairSpec.                                               *)

\* Every conversation ends and frees both peers, even when the decisions
\* around it wait for each other.
ConversationsEnd == \A p \in Peers : p \in busy ~> p \notin busy

\* decide() "always resolves to some action": a call that is under way
\* returns, or its task fails.
EveryDecisionResolves ==
    \A t \in Tasks : pc[t] \in Suspended ~> pc[t] \notin Suspended

Position(t) == CHOOSE i \in DOMAIN waiters[cur[t]] : waiters[cur[t]][i] = t

\* t cannot go on before u has: u has the lock t waits for, or is ahead of t.
WaitsFor(t, u) ==
    /\ pc[t] = "waiting"
    /\ \/ cur[t] \in held[u]
       \/ /\ pc[u] = "waiting"
          /\ cur[u] = cur[t]
          /\ Position(u) < Position(t)

\* Some tasks wait for each other only; one that waits for a lock taken
\* further up its own call stack waits for itself.
WaitCycle ==
    \E S \in (SUBSET Tasks) \ {{}} :
        \A t \in S : \E u \in S : WaitsFor(t, u)

\* Waiting for each other is the only thing that can keep a decision from
\* returning: as long as it does not happen, every call returns.
DecisionsResolveUnlessCycle == []~WaitCycle => EveryDecisionResolves

-----------------------------------------------------------------------------
(* What the conversations promise, whatever runs them.                     *)

Book == INSTANCE ConversationBook
            WITH talks <- [t \in Tasks |-> IF pc[t] \in Conversing
                                           THEN Pair(t) ELSE {}]

\* The loop implements the conversation book: a conversation starts between
\* free peers only, keeps its two peers, and ends.
ImplementsBook == Book!Spec

=============================================================================
