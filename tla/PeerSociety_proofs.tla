------------------------- MODULE PeerSociety_proofs -------------------------
(***************************************************************************)
(* Theorems about PeerSociety, for any number of peers, requests, turns    *)
(* and repetitions.                                                        *)
(***************************************************************************)
EXTENDS PeerSociety, FiniteSetTheorems, TLAPS

(* What a task is about while it is inside a decision.                     *)

\* The innermost call of a suspended task is for a peer; a conversation has
\* a partner; the language model is asked under the lock of the peer.
TaskShape ==
    \A t \in Tasks :
        /\ pc[t] \in Suspended => cur[t] \in Peers
        /\ pc[t] \in Conversing => conv[t].b \in Peers
        /\ pc[t] = "deciding" => cur[t] \in held[t]

\* The schema of a pending request excludes what would be excluded now: the
\* peer's record has not changed since it was built.
SchemaFresh == \A t \in Tasks : pc[t] = "deciding" => schema[t] = Excluded(cur[t])

Inv == TypeOK /\ TaskShape

-----------------------------------------------------------------------------

\* No task is inside a decision at first.
LEMMA InitInv == Init => Inv
  BY TurnsAssumption, RunAssumption
  DEF Init, Inv, TypeOK, TaskShape, Suspended, Conversing, NoConv, Convs

\* Whatever decide() does before it suspends keeps the types.
LEMMA DecideTypes ==
  ASSUME TypeOK, NEW t \in Tasks, NEW p \in Peers, NEW occupied,
         Decide(t, p, occupied)
  PROVE  /\ pc' \in [Tasks -> Suspended \cup {"idle", "next", "dead"}]
         /\ cur' \in [Tasks -> Peers \cup {"none"}]
         /\ held' \in [Tasks -> SUBSET Peers]
         /\ waiters' \in [Peers -> Seq(Tasks)]
         /\ schema' \in [Tasks -> Actions \cup {"none"}]
         /\ \A u \in Tasks \ {t} : /\ pc'[u] = pc[u]
                                   /\ cur'[u] = cur[u]
                                   /\ held'[u] = held[u]
                                   /\ schema'[u] = schema[u]
         /\ pc'[t] \in {"idle", "next", "waiting", "deciding"}
         /\ pc'[t] \in {"waiting", "deciding"} => cur'[t] = p
         /\ pc'[t] = "deciding" => p \in held'[t] /\ schema'[t] = Excluded(p)
         /\ \/ held'[t] = {}
            \/ held'[t] = held[t]
            \/ LockFree(p) /\ held'[t] = held[t] \cup {p}
  <1>1. Excluded(p) \in Actions \cup {"none"}
    BY DEF TypeOK, Excluded
  <1>2. CASE p \in occupied /\ Return(t) /\ UNCHANGED waiters
    BY <1>2 DEF Return, TypeOK, Suspended
  <1>3. CASE p \notin occupied /\ LockFree(p) /\ Ask(t, p) /\ UNCHANGED waiters
    BY <1>1, <1>3 DEF Ask, TypeOK, Suspended
  <1>4. CASE /\ p \notin occupied
             /\ ~LockFree(p)
             /\ pc' = [pc EXCEPT ![t] = "waiting"]
             /\ cur' = [cur EXCEPT ![t] = p]
             /\ waiters' = [waiters EXCEPT ![p] = Append(@, t)]
             /\ schema' = [schema EXCEPT ![t] = "none"]
             /\ UNCHANGED held
    BY <1>4 DEF TypeOK, Suspended
  <1>5. QED
    BY <1>2, <1>3, <1>4 DEF Decide

\* A recorded action is counted within its bound.
LEMMA RecordTypes ==
  ASSUME TypeOK, NEW p \in Peers, NEW act \in Actions, Record(p, act)
  PROVE  /\ last' \in [Peers -> Actions \cup {"none"}]
         /\ run' \in [Peers -> 0 .. RepeatExclusionRun + 1]
  <1>1. last' \in [Peers -> Actions \cup {"none"}]
    BY DEF Record, TypeOK
  <1>2. run' \in [Peers -> 0 .. RepeatExclusionRun + 1]
    BY RunAssumption DEF Record, TypeOK
  <1>3. QED
    BY <1>1, <1>2

\* A task whose decision returns has no lock, no request and no peer.
LEMMA ReturnTypes ==
  ASSUME Inv, NEW t \in Tasks, Return(t)
  PROVE  /\ pc' \in [Tasks -> Suspended \cup {"idle", "next", "dead"}]
         /\ cur' \in [Tasks -> Peers \cup {"none"}]
         /\ held' \in [Tasks -> SUBSET Peers]
         /\ schema' \in [Tasks -> Actions \cup {"none"}]
         /\ \A u \in Tasks \ {t} : /\ pc'[u] = pc[u]
                                   /\ cur'[u] = cur[u]
                                   /\ held'[u] = held[u]
                                   /\ schema'[u] = schema[u]
         /\ pc'[t] \in {"idle", "next"}
         /\ held'[t] = {}
  BY DEF Inv, Return, TypeOK

\* An answer that ends the decision keeps the invariant.
LEMMA AnswerReturnInv ==
  ASSUME Inv, NEW t \in Tasks, NEW act \in Actions, Record(cur[t], act),
         pc[t] = "deciding", Return(t),
         heading' \in [Peers -> {"simulation", "decision"}],
         UNCHANGED <<waiters, conv, todo, busy>>
  PROVE  Inv'
  <1>1. cur[t] \in Peers
    BY DEF Inv, TaskShape, Suspended
  <1>2. TypeOK'
    BY <1>1, RecordTypes, ReturnTypes DEF Inv, TypeOK
  <1>3. TaskShape'
    BY ReturnTypes DEF Inv, TaskShape, Suspended, Conversing
  <1>4. QED
    BY <1>2, <1>3 DEF Inv

\* The end of a conversation, and the partner's decision after it.
LEMMA CloseInv ==
  ASSUME Inv, NEW t \in Tasks, pc[t] \in Conversing, Close(t)
  PROVE  Inv'
  <1>1. conv[t].b \in Peers
    BY DEF Inv, TaskShape
  <1>2. /\ Decide(t, conv[t].b, busy')
        /\ busy' \in SUBSET Peers
        /\ conv' \in [Tasks -> Convs]
        /\ \A u \in Tasks \ {t} : conv'[u] = conv[u]
        /\ todo' = todo /\ last' = last /\ run' = run /\ heading' = heading
    BY DEF Close, Inv, TypeOK, Convs, NoConv
  <1>3. TypeOK /\ TaskShape
    BY DEF Inv
  <1>4. TypeOK'
    BY <1>1, <1>2, <1>3, DecideTypes DEF TypeOK
  <1>5. TaskShape'
    BY <1>1, <1>2, <1>3, DecideTypes DEF TaskShape, Suspended, Conversing
  <1>6. QED
    BY <1>4, <1>5 DEF Inv

\* A line spoken changes neither partner nor any other conversation.
LEMMA SpeakEffect ==
  ASSUME Inv, NEW t \in Tasks, Speak(t)
  PROVE  /\ conv' \in [Tasks -> Convs]
         /\ \A u \in Tasks : conv'[u].b = conv[u].b
         /\ \A u \in Tasks \ {t} : conv'[u] = conv[u]
         /\ pc' \in {[pc EXCEPT ![t] = "judging"], [pc EXCEPT ![t] = "talking"]}
         /\ conv'[t].turn = conv[t].turn + 1 /\ conv'[t].cap = conv[t].cap
         /\ pc' = [pc EXCEPT ![t] = "talking"] => conv'[t].turn # conv[t].cap
  <1>1. PICK ends :
          /\ ends \in {conv[t].ends \cup {Speaker(t)}, conv[t].ends \ {Speaker(t)}}
          /\ conv' = [conv EXCEPT ![t].turn = @ + 1, ![t].ends = ends]
          /\ pc' = [pc EXCEPT ![t] =
                      IF \/ conv[t].turn + 1 = conv[t].cap
                         \/ {cur[t], conv[t].b} \subseteq ends
                      THEN "judging" ELSE "talking"]
    BY Zenon DEF Speak
  <1>2. Speaker(t) \in Peers
    BY DEF Inv, Speak, Speaker, TaskShape, Suspended, Conversing
  <1>3. conv[t] \in Convs /\ ends \in SUBSET Peers
    BY <1>1, <1>2 DEF Inv, TypeOK, Convs
  <1>4. [conv[t] EXCEPT !.turn = @ + 1, !.ends = ends] \in Convs
    <2>1. [conv[t] EXCEPT !.turn = @ + 1] \in Convs
      BY <1>3 DEF Convs
    <2>2. \A c \in Convs : [c EXCEPT !.ends = ends] \in Convs
      BY <1>3 DEF Convs
    <2>3. QED
      BY <2>1, <2>2
  <1>5. [conv[t] EXCEPT !.turn = @ + 1, !.ends = ends].b = conv[t].b
    BY <1>3 DEF Convs
  <1>6. conv' = [conv EXCEPT ![t] = [conv[t] EXCEPT !.turn = @ + 1, !.ends = ends]]
    BY <1>1
  <1>7. conv' \in [Tasks -> Convs] /\ \A u \in Tasks : conv'[u].b = conv[u].b
    BY <1>4, <1>5, <1>6 DEF Inv, TypeOK
  <1>8. \A u \in Tasks \ {t} : conv'[u] = conv[u]
    BY <1>6 DEF Inv, TypeOK
  <1>9. conv'[t].turn = conv[t].turn + 1 /\ conv'[t].cap = conv[t].cap
    BY <1>3, <1>6 DEF Inv, TypeOK, Convs
  <1>10. pc' \in {[pc EXCEPT ![t] = "judging"], [pc EXCEPT ![t] = "talking"]}
    BY <1>1
  <1>11. pc' = [pc EXCEPT ![t] = "talking"] => conv'[t].turn # conv[t].cap
    BY <1>1, <1>9 DEF Inv, TypeOK
  <1>12. QED
    BY <1>7, <1>8, <1>9, <1>10, <1>11

\* Every step keeps the types and what a suspended task is about.
LEMMA InvStep == Inv /\ [Next]_vars => Inv'
  <1> SUFFICES ASSUME Inv, [Next]_vars
               PROVE  Inv'
    OBVIOUS
  <1> USE DEF Inv
  <1>1. ASSUME NEW p \in Peers, Wake(p)
        PROVE  Inv'
    <2>1. p \in Tasks
      BY DEF Tasks
    <2>2. QED
      BY <1>1, <2>1, DecideTypes
      DEF Wake, TypeOK, TaskShape, Suspended, Conversing, Convs
  <1>2. ASSUME NEW p \in Peers, Drift(p)
        PROVE  Inv'
    BY <1>2 DEF Drift, TypeOK, TaskShape
  <1>3. ASSUME NEW t \in BoardRequests, PostBoard(t)
        PROVE  Inv'
    BY <1>3 DEF PostBoard, TypeOK, TaskShape, Tasks, Suspended, Conversing
  <1>4. ASSUME NEW t \in BoardRequests, Redecide(t)
        PROVE  Inv'
    <2>1. t \in Tasks
      BY DEF Tasks
    <2>2. PICK p \in todo[t] : /\ todo' = [todo EXCEPT ![t] = @ \ {p}]
                               /\ Decide(t, p, busy)
      BY <1>4 DEF Redecide
    <2>3. p \in Peers
      BY DEF TypeOK
    <2>4. /\ conv' = conv /\ busy' = busy /\ last' = last
          /\ run' = run /\ heading' = heading
      BY <1>4 DEF Redecide
    <2>5. todo' \in [BoardRequests -> SUBSET Peers]
      BY <2>2 DEF TypeOK
    <2>6. Decide(t, p, busy) /\ TypeOK
      BY <2>2
    <2>7. TypeOK'
      BY <2>1, <2>6, <2>3, <2>4, <2>5, DecideTypes DEF TypeOK
    <2>8. TaskShape'
      BY <2>1, <2>6, <2>3, <2>4, DecideTypes
      DEF TaskShape, Suspended, Conversing
    <2>9. QED
      BY <2>7, <2>8
  <1>5. ASSUME NEW t \in BoardRequests, Respond(t)
        PROVE  Inv'
    BY <1>5 DEF Respond, TypeOK, TaskShape, Tasks, Suspended, Conversing
  <1>6. ASSUME NEW t \in Tasks, Step(t)
        PROVE  Inv'
    <2>1. CASE Acquire(t)
      BY <2>1 DEF Acquire, Ask, Excluded, TypeOK, TaskShape, Suspended, Conversing
    <2>2. CASE DecideMove(t)
      BY <2>2, AnswerReturnInv, ActionsAssumption
      DEF DecideMove, Answers, Sail, TypeOK
    <2>3. CASE DecideRest(t)
      BY <2>3, AnswerReturnInv DEF DecideRest, Sail, TypeOK, Actions
    <2>4. CASE DecideAtOnce(t)
      BY <2>4, AnswerReturnInv, ActionsAssumption
      DEF DecideAtOnce, Answers, TypeOK
    <2>5. CASE DecideReadBoard(t)
      <3>1. CASE Return(t)
        BY <2>5, <3>1, AnswerReturnInv, ActionsAssumption
        DEF DecideReadBoard, Answers, TypeOK
      <3>2. CASE /\ pc' = [pc EXCEPT ![t] = "reading"]
                 /\ schema' = [schema EXCEPT ![t] = "none"]
                 /\ UNCHANGED <<cur, held>>
        <4>1. cur[t] \in Peers /\ "read_board" \in Actions
          BY <2>5 DEF DecideReadBoard, Answers, TaskShape, Suspended, Actions
        <4>2. Record(cur[t], "read_board")
          BY <2>5 DEF DecideReadBoard, Answers
        <4>3. QED
          BY <2>5, <3>2, <4>1, <4>2, RecordTypes
          DEF DecideReadBoard, TypeOK, TaskShape, Suspended, Conversing
      <3>3. QED
        BY <2>5, <3>1, <3>2 DEF DecideReadBoard
    <2>6. CASE FinishReading(t)
      BY <2>6, ReturnTypes
      DEF FinishReading, TypeOK, TaskShape, Suspended, Conversing
    <2>7. CASE DecideTalk(t)
      <3>1. cur[t] \in Peers /\ "talk" \in Actions
        BY <2>7 DEF DecideTalk, Answers, TaskShape, Suspended, Actions
      <3>2. Record(cur[t], "talk")
        BY <2>7 DEF DecideTalk, Answers
      <3>3. PICK b \in Peers, cap \in TurnLimits :
              /\ busy' = busy \cup {cur[t], b}
              /\ conv' = [conv EXCEPT ![t] =
                           [b |-> b, cap |-> cap, turn |-> 0, ends |-> {}]]
        BY <2>7 DEF DecideTalk
      <3>4. conv' \in [Tasks -> Convs]
        BY <3>3 DEF TypeOK, Convs
      <3>5. TypeOK'
        BY <2>7, <3>1, <3>2, <3>3, <3>4, RecordTypes
        DEF DecideTalk, TypeOK, Suspended
      <3>6. TaskShape'
        BY <2>7, <3>1, <3>3
        DEF DecideTalk, TypeOK, TaskShape, Suspended, Conversing, Convs
      <3>7. QED
        BY <3>5, <3>6
    <2>8. CASE DecideTalkInVain(t)
      BY <2>8, AnswerReturnInv, ActionsAssumption
      DEF DecideTalkInVain, Answers, TypeOK
    <2>9. CASE Speak(t)
      <3>1. /\ pc[t] = "talking"
            /\ UNCHANGED <<cur, held, waiters, schema, todo, busy, last, run,
                           heading>>
        BY <2>9 DEF Speak
      <3>2. TypeOK'
        BY <2>9, <3>1, SpeakEffect DEF TypeOK, Suspended
      <3>3. \A u \in Tasks : /\ pc'[u] \in Conversing => pc[u] \in Conversing
                             /\ pc'[u] \in Suspended => pc[u] \in Suspended
                             /\ pc'[u] = "deciding" => pc[u] = "deciding"
                             /\ conv'[u].b = conv[u].b
        BY <2>9, <3>1, SpeakEffect DEF TypeOK, Suspended, Conversing
      <3>4. TaskShape'
        BY <3>1, <3>3 DEF TaskShape
      <3>5. QED
        BY <3>2, <3>4
    <2>10. CASE SkipTurn(t)
      <3>1. CASE Close(t)
        BY <2>10, <3>1, CloseInv DEF SkipTurn, Conversing
      <3>2. CASE ~Close(t)
        BY <2>10, <3>2 DEF SkipTurn, TypeOK, TaskShape, Suspended, Conversing
      <3>3. QED
        BY <3>1, <3>2
    <2>11. CASE Judge(t) \/ Remember(t)
      BY <2>11 DEF Judge, Remember, TypeOK, TaskShape, Suspended, Conversing
    <2>12. CASE SkipOutcome(t) \/ Mail(t)
      BY <2>12, CloseInv DEF SkipOutcome, Mail, Conversing
    <2>13. CASE Raise(t)
      BY <2>13
      DEF Raise, TypeOK, TaskShape, Suspended, Conversing, Convs, NoConv
    <2>14. QED
      BY <1>6, <2>1, <2>2, <2>3, <2>4, <2>5, <2>6, <2>7, <2>8, <2>9, <2>10,
         <2>11, <2>12, <2>13 DEF Step
  <1>7. CASE UNCHANGED vars
    BY <1>7 DEF vars, TypeOK, TaskShape
  <1>8. QED
    BY <1>1, <1>2, <1>3, <1>4, <1>5, <1>6, <1>7 DEF Next

\* The variables always have their types.
THEOREM TypeCorrect == Spec => []TypeOK
  <1>1. Inv => TypeOK
    BY DEF Inv
  <1>2. QED
    BY InitInv, InvStep, <1>1, PTL DEF Spec

-----------------------------------------------------------------------------
(* What one step may do to locks, queues, records and the busy set.        *)

Others(t) ==
    \A u \in Tasks \ {t} : /\ pc'[u] = pc[u]
                          /\ cur'[u] = cur[u]
                          /\ held'[u] = held[u]
                          /\ schema'[u] = schema[u]
                          /\ conv'[u] = conv[u]

\* A lock is taken only while nobody has it.
LockStep(t) ==
    \/ held'[t] = {}
    \/ held'[t] = held[t]
    \/ \E p \in Peers : Unlocked(p) /\ held'[t] = held[t] \cup {p}

\* A request is made from the record of its peer; the record of a peer is
\* written by the task that decides for it, and never with the action the
\* schema excludes, rest aside.
RecordStep(t) ==
    /\ pc'[t] = "deciding" => /\ UNCHANGED <<last, run>>
                              /\ cur'[t] \in Peers
                              /\ schema'[t] = Excluded(cur'[t])
    /\ \/ UNCHANGED <<last, run>>
       \/ /\ pc[t] = "deciding"
          /\ \E act \in Actions : /\ Record(cur[t], act)
                                  /\ act = "rest" \/ act # schema[t]

\* A conversation goes on, starts between two free peers, or ends.
BusyStep(t) ==
    \/ /\ busy' = busy
       /\ pc[t] \in Conversing <=> pc'[t] \in Conversing
       /\ pc[t] \in Conversing => cur'[t] = cur[t] /\ conv'[t].b = conv[t].b
    \/ /\ pc[t] \notin Conversing
       /\ pc'[t] \in Conversing
       /\ {cur'[t], conv'[t].b} \cap busy = {}
       /\ busy' = busy \cup {cur'[t], conv'[t].b}
    \/ /\ pc[t] \in Conversing
       /\ pc'[t] \notin Conversing
       /\ busy' = busy \ {cur[t], conv[t].b}

\* A task joins the end of a queue, leaves the head of its queue, or is in none;
\* only a suspended task gets to keep locks.
QueueStep(t) ==
    /\ \/ held'[t] = {}
       \/ pc'[t] \in Suspended
       \/ held'[t] = held[t] /\ pc[t] \notin Suspended
    /\ \/ /\ pc[t] # "waiting" /\ pc'[t] # "waiting"
          /\ waiters' = waiters
       \/ /\ pc[t] # "waiting" /\ pc'[t] = "waiting" /\ cur'[t] \in Peers
          /\ waiters' = [waiters EXCEPT ![cur'[t]] = Append(@, t)]
       \/ /\ pc[t] = "waiting" /\ pc'[t] # "waiting" /\ cur[t] \in Peers
          /\ waiters[cur[t]] # <<>> /\ Head(waiters[cur[t]]) = t
          /\ waiters' = [waiters EXCEPT ![cur[t]] = Tail(@)]

\* A conversation begins with its first line before it, and goes on to the next
\* line below its limit or to the next thing after the last, or ends.
TalkStep(t) ==
    \/ pc'[t] \notin Conversing
    \/ /\ pc[t] \notin Conversing /\ pc'[t] = "talking"
       /\ conv'[t].turn = 0 /\ conv'[t].cap \in TurnLimits
    \/ /\ pc[t] = "talking" /\ pc'[t] = "talking"
       /\ conv'[t].turn = conv[t].turn + 1 /\ conv'[t].turn # conv[t].cap
       /\ conv'[t].cap = conv[t].cap
    \/ pc[t] = "talking" /\ pc'[t] = "judging"
    \/ pc[t] = "judging" /\ pc'[t] = "remembering"
    \/ pc[t] = "remembering" /\ pc'[t] = "mailing"

TaskStep(t) ==
    /\ Others(t) /\ LockStep(t) /\ RecordStep(t) /\ BusyStep(t) /\ QueueStep(t)
    /\ TalkStep(t)

\* decide() before it suspends, called by a task that waits for no lock.
LEMMA DecideQueueStep ==
  ASSUME TypeOK, NEW t \in Tasks, NEW p \in Peers, NEW occupied,
         Decide(t, p, occupied), pc[t] # "waiting"
  PROVE  QueueStep(t)
  <1>1. CASE Return(t) /\ UNCHANGED waiters
    BY <1>1 DEF Return, QueueStep, TypeOK
  <1>2. CASE Ask(t, p) /\ UNCHANGED waiters
    BY <1>2 DEF Ask, QueueStep, TypeOK, Suspended
  <1>3. CASE /\ pc' = [pc EXCEPT ![t] = "waiting"]
             /\ cur' = [cur EXCEPT ![t] = p]
             /\ waiters' = [waiters EXCEPT ![p] = Append(@, t)]
    BY <1>3 DEF QueueStep, TypeOK, Suspended
  <1>4. QED
    BY <1>1, <1>2, <1>3 DEF Decide

\* A call of decide() outside of a conversation.
LEMMA DecideTaskStep ==
  ASSUME Inv, NEW t \in Tasks, pc[t] \in {"idle", "next"}, NEW p \in Peers,
         Decide(t, p, busy), UNCHANGED <<conv, busy, last, run>>
  PROVE  TaskStep(t)
  <1>1. TypeOK
    BY DEF Inv
  <1>2. Others(t)
    BY <1>1, DecideTypes DEF Others
  <1>3. LockStep(t)
    BY <1>1, DecideTypes DEF LockStep, LockFree
  <1>4. RecordStep(t)
    BY <1>1, DecideTypes DEF RecordStep
  <1>5. BusyStep(t)
    BY <1>1, DecideTypes DEF BusyStep, Conversing
  <1>6. QueueStep(t)
    BY <1>1, DecideQueueStep
  <1>7. TalkStep(t)
    BY <1>1, DecideTypes DEF TalkStep, Conversing
  <1>8. QED
    BY <1>2, <1>3, <1>4, <1>5, <1>6, <1>7 DEF TaskStep

\* The end of a conversation is such a step, the partner's decision with it.
LEMMA CloseTaskStep ==
  ASSUME Inv, NEW t \in Tasks, pc[t] \in Conversing, Close(t)
  PROVE  TaskStep(t)
  <1>1. /\ Decide(t, conv[t].b, busy')
        /\ conv[t].b \in Peers
        /\ busy' = busy \ {cur[t], conv[t].b}
        /\ \A u \in Tasks \ {t} : conv'[u] = conv[u]
        /\ last' = last /\ run' = run
    BY DEF Close, Inv, TaskShape, TypeOK
  <1>2. TypeOK
    BY DEF Inv
  <1>3. Others(t)
    BY <1>1, <1>2, DecideTypes DEF Others
  <1>4. LockStep(t)
    BY <1>1, <1>2, DecideTypes DEF LockStep, LockFree
  <1>5. RecordStep(t)
    BY <1>1, <1>2, DecideTypes DEF RecordStep
  <1>6. BusyStep(t)
    BY <1>1, <1>2, DecideTypes DEF BusyStep, Conversing
  <1>7. QueueStep(t)
    BY <1>1, <1>2, DecideQueueStep DEF Conversing
  <1>8. TalkStep(t)
    BY <1>1, <1>2, DecideTypes DEF TalkStep, Conversing
  <1>9. QED
    BY <1>3, <1>4, <1>5, <1>6, <1>7, <1>8 DEF TaskStep

\* So is an answer that ends the decision.
LEMMA AnswerTaskStep ==
  ASSUME Inv, NEW t \in Tasks, NEW act \in Actions, Record(cur[t], act),
         act = "rest" \/ act # schema[t],
         pc[t] = "deciding", Return(t), UNCHANGED <<waiters, conv, busy>>
  PROVE  TaskStep(t)
  <1>1. Others(t)
    BY ReturnTypes DEF Others
  <1>2. LockStep(t)
    BY ReturnTypes DEF LockStep
  <1>3. RecordStep(t)
    BY ReturnTypes DEF RecordStep
  <1>4. BusyStep(t)
    BY ReturnTypes DEF BusyStep, Conversing
  <1>5. QueueStep(t)
    BY ReturnTypes DEF QueueStep
  <1>6. TalkStep(t)
    BY ReturnTypes DEF TalkStep, Conversing
  <1>7. QED
    BY <1>1, <1>2, <1>3, <1>4, <1>5, <1>6 DEF TaskStep

\* What a task does inside a decision is such a step.
LEMMA StepTaskStep ==
  ASSUME Inv, NEW t \in Tasks, Step(t)
  PROVE  TaskStep(t)
  <1> USE DEF Inv
  <1>1. CASE Acquire(t)
    BY <1>1
    DEF Acquire, Ask, Excluded, TypeOK, TaskShape, Suspended, TaskStep,
        Others, LockStep, RecordStep, BusyStep, QueueStep, TalkStep, Conversing
  <1>2. CASE DecideMove(t)
    BY <1>2, AnswerTaskStep, ActionsAssumption DEF DecideMove, Answers
  <1>3. CASE DecideRest(t)
    BY <1>3, AnswerTaskStep DEF DecideRest, Actions
  <1>4. CASE DecideAtOnce(t)
    BY <1>4, AnswerTaskStep, ActionsAssumption DEF DecideAtOnce, Answers
  <1>5. CASE DecideReadBoard(t)
    <2>1. CASE Return(t)
      BY <1>5, <2>1, AnswerTaskStep, ActionsAssumption
      DEF DecideReadBoard, Answers
    <2>2. CASE ~Return(t)
      BY <1>5, <2>2, ActionsAssumption
      DEF DecideReadBoard, Answers, TypeOK, TaskStep, Others, LockStep,
          RecordStep, BusyStep, QueueStep, TalkStep, Suspended, Conversing
    <2>3. QED
      BY <2>1, <2>2
  <1>6. CASE FinishReading(t)
    BY <1>6, ReturnTypes
    DEF FinishReading, TaskStep, Others, LockStep, RecordStep, BusyStep,
        QueueStep, TalkStep, Conversing
  <1>7. CASE DecideTalk(t)
    BY <1>7, ActionsAssumption
    DEF DecideTalk, Answers, Eligible, TypeOK, TaskStep, Others, LockStep,
        RecordStep, BusyStep, QueueStep, TalkStep, Suspended, Conversing
  <1>8. CASE DecideTalkInVain(t)
    BY <1>8, AnswerTaskStep, ActionsAssumption DEF DecideTalkInVain, Answers
  <1>9. CASE Speak(t)
    <2>1. /\ pc[t] = "talking"
          /\ UNCHANGED <<cur, held, waiters, schema, todo, busy, last, run, heading>>
      BY <1>9 DEF Speak
    <2>2. /\ pc'[t] \in {"judging", "talking"}
          /\ \A u \in Tasks \ {t} : pc'[u] = pc[u] /\ conv'[u] = conv[u]
          /\ conv'[t].b = conv[t].b
      BY <1>9, SpeakEffect DEF TypeOK
    <2>3. Others(t) /\ LockStep(t) /\ RecordStep(t) /\ BusyStep(t) /\ QueueStep(t)
      BY <2>1, <2>2
      DEF Others, LockStep, RecordStep, BusyStep, QueueStep, Suspended, Conversing
    <2>4. TalkStep(t)
      BY <1>9, <2>1, SpeakEffect DEF TypeOK, TalkStep
    <2>5. QED
      BY <2>3, <2>4 DEF TaskStep
  <1>10. CASE SkipTurn(t)
    <2>1. CASE Close(t)
      BY <1>10, <2>1, CloseTaskStep DEF SkipTurn, Conversing
    <2>2. CASE ~Close(t)
      BY <1>10, <2>2
      DEF SkipTurn, TypeOK, TaskStep, Others, LockStep, RecordStep,
          BusyStep, QueueStep, TalkStep, Suspended, Conversing
    <2>3. QED
      BY <2>1, <2>2
  <1>11. CASE Judge(t) \/ Remember(t)
    BY <1>11
    DEF Judge, Remember, TypeOK, TaskStep, Others, LockStep, RecordStep,
        BusyStep, QueueStep, TalkStep, Suspended, Conversing
  <1>12. CASE SkipOutcome(t) \/ Mail(t)
    BY <1>12, CloseTaskStep DEF SkipOutcome, Mail, Conversing
  <1>13. CASE Raise(t)
    BY <1>13
    DEF Raise, TypeOK, TaskStep, Others, LockStep, RecordStep, BusyStep,
        QueueStep, TalkStep, Conversing
  <1>14. QED
    BY <1>1, <1>2, <1>3, <1>4, <1>5, <1>6, <1>7, <1>8, <1>9, <1>10,
       <1>11, <1>12, <1>13 DEF Step

\* Every step of the loop is one of a single task, or changes nothing here.
LEMMA NextTaskStep ==
  ASSUME Inv, Next
  PROVE  \/ \E t \in Tasks : TaskStep(t)
         \/ UNCHANGED <<pc, cur, held, waiters, schema, conv, busy, last, run>>
  <1>1. ASSUME NEW p \in Peers, Wake(p)
        PROVE  TaskStep(p)
    BY <1>1, DecideTaskStep DEF Wake, Tasks
  <1>2. ASSUME NEW p \in Peers, Drift(p)
        PROVE  UNCHANGED <<pc, cur, held, waiters, schema, conv, busy, last, run>>
    BY <1>2 DEF Drift
  <1>3. ASSUME NEW t \in BoardRequests, PostBoard(t) \/ Respond(t)
        PROVE  TaskStep(t)
    BY <1>3
    DEF PostBoard, Respond, TaskStep, Others, LockStep, RecordStep, BusyStep,
        QueueStep, TalkStep, Conversing, Suspended, Inv, TypeOK, Tasks
  <1>4. ASSUME NEW t \in BoardRequests, Redecide(t)
        PROVE  TaskStep(t)
    <2>1. PICK p \in todo[t] : Decide(t, p, busy)
      BY <1>4 DEF Redecide
    <2>2. t \in Tasks /\ p \in Peers /\ pc[t] \in {"idle", "next"}
      BY <1>4 DEF Redecide, Tasks, Inv, TypeOK
    <2>3. QED
      BY <1>4, <2>1, <2>2, DecideTaskStep DEF Redecide
  <1>5. ASSUME NEW t \in Tasks, Step(t)
        PROVE  TaskStep(t)
    BY <1>5, StepTaskStep
  <1>6. QED
    BY <1>1, <1>2, <1>3, <1>4, <1>5 DEF Next, Tasks

-----------------------------------------------------------------------------
(* The safety theorems.                                                    *)

\* The lock of decide() excludes: no two tasks decide for one peer at a time.
THEOREM OneDecisionAtATime == Spec => []OneDecisionPerPeer
  <1>1. Init => OneDecisionPerPeer
    BY DEF Init, OneDecisionPerPeer
  <1>2. Inv /\ OneDecisionPerPeer /\ [Next]_vars => OneDecisionPerPeer'
    <2> SUFFICES ASSUME Inv, OneDecisionPerPeer, [Next]_vars
                 PROVE  OneDecisionPerPeer'
      OBVIOUS
    <2>1. ASSUME NEW t \in Tasks, TaskStep(t)
          PROVE  OneDecisionPerPeer'
      BY <2>1 DEF TaskStep, Others, LockStep, Unlocked, OneDecisionPerPeer
    <2>2. CASE UNCHANGED held
      BY <2>2 DEF OneDecisionPerPeer
    <2>3. QED
      BY <2>1, <2>2, NextTaskStep DEF vars
  <1>3. QED
    BY <1>1, <1>2, InitInv, InvStep, PTL DEF Spec

\* A fourth identical action in a row is only ever a fallback to rest.  The
\* schema of a request is built before the language model is awaited and the
\* record is written after it, so the theorem needs that the lock keeps every
\* other decision of the same peer out in between.
THEOREM NoFourthRepetition == Spec => []AntiRepeat
  <1> DEFINE IInv == Inv /\ OneDecisionPerPeer /\ SchemaFresh /\ AntiRepeat
  <1>1. Init => SchemaFresh /\ AntiRepeat
    BY RunAssumption DEF Init, SchemaFresh, AntiRepeat
  <1>2. IInv /\ [Next]_vars => SchemaFresh' /\ AntiRepeat'
    <2> SUFFICES ASSUME IInv, [Next]_vars
                 PROVE  SchemaFresh' /\ AntiRepeat'
      OBVIOUS
    <2>1. ASSUME NEW t \in Tasks, TaskStep(t)
          PROVE  SchemaFresh' /\ AntiRepeat'
      <3>1. CASE UNCHANGED <<last, run>>
        <4>1. AntiRepeat'
          BY <3>1 DEF AntiRepeat
        <4>2. SchemaFresh'
          BY <2>1, <3>1 DEF TaskStep, Others, RecordStep, SchemaFresh, Excluded
        <4>3. QED
          BY <4>1, <4>2
      <3>2. ASSUME pc[t] = "deciding", NEW act \in Actions,
                   Record(cur[t], act), act = "rest" \/ act # schema[t]
            PROVE  SchemaFresh' /\ AntiRepeat'
        <4> DEFINE p == cur[t]
            ExcludedAfter(q) ==
              IF run'[q] >= RepeatExclusionRun THEN last'[q] ELSE "none"
        <4>1. p \in Peers /\ p \in held[t] /\ schema[t] = Excluded(p)
          BY <3>2 DEF Inv, TaskShape, SchemaFresh, Suspended
        <4>2. \A q \in Peers \ {p} : last'[q] = last[q] /\ run'[q] = run[q]
          BY <3>2, <4>1 DEF Record, Inv, TypeOK
        <4>3. \A u \in Tasks \ {t} : pc[u] = "deciding" => cur[u] # p
          BY <4>1 DEF Inv, TaskShape, OneDecisionPerPeer
        <4>4. SchemaFresh'
          <5>1. ASSUME NEW u \in Tasks \ {t}, pc'[u] = "deciding"
                PROVE  schema'[u] = ExcludedAfter(cur'[u])
            <6>1. /\ pc[u] = "deciding" /\ cur'[u] = cur[u]
                  /\ schema'[u] = schema[u]
              BY <2>1, <5>1 DEF TaskStep, Others
            <6>2. cur[u] \in Peers \ {p} /\ schema[u] = Excluded(cur[u])
              BY <4>3, <6>1 DEF Inv, TaskShape, SchemaFresh, Suspended
            <6>3. QED
              BY <4>2, <6>1, <6>2 DEF Excluded
          <5>2. pc'[t] = "deciding" => schema'[t] = ExcludedAfter(cur'[t])
            BY <2>1 DEF TaskStep, RecordStep, Excluded
          <5>3. QED
            BY <5>1, <5>2 DEF SchemaFresh, Excluded
        <4>5. run'[p] > RepeatExclusionRun => last'[p] = "rest"
          BY <3>2, <4>1, RunAssumption
          DEF Record, Excluded, Inv, TypeOK, AntiRepeat
        <4>6. AntiRepeat'
          BY <4>2, <4>5 DEF AntiRepeat
        <4>7. QED
          BY <4>4, <4>6
      <3>3. QED
        BY <2>1, <3>1, <3>2 DEF TaskStep, RecordStep
    <2>2. CASE UNCHANGED <<pc, cur, held, waiters, schema, conv, busy, last, run>>
      BY <2>2 DEF SchemaFresh, AntiRepeat, Excluded
    <2>3. QED
      BY <2>1, <2>2, NextTaskStep DEF vars
  <1>3. QED
    BY <1>1, <1>2, InitInv, InvStep, OneDecisionAtATime, PTL DEF Spec

\* The busy set is the disjoint union of the running conversations: whatever
\* a conversation waits for, nobody else's start or end touches its peers.
THEOREM BusySetExact == Spec => []BusyExact
  <1>1. Init => BusyExact
    BY DEF Init, BusyExact, Talking, Conversing
  <1>2. Inv /\ BusyExact /\ [Next]_vars => BusyExact'
    <2> SUFFICES ASSUME Inv, BusyExact, [Next]_vars
                 PROVE  BusyExact'
      OBVIOUS
    <2>1. ASSUME NEW t \in Tasks, TaskStep(t)
          PROVE  BusyExact'
      <3>1. \A u \in Tasks \ {t} : /\ u \in Talking' <=> u \in Talking
                                  /\ Pair(u)' = Pair(u)
        BY <2>1 DEF TaskStep, Others, Talking, Pair
      <3>2. CASE /\ busy' = busy
                 /\ pc[t] \in Conversing <=> pc'[t] \in Conversing
                 /\ pc[t] \in Conversing => cur'[t] = cur[t] /\ conv'[t].b = conv[t].b
        <4>1. Talking' = Talking
          BY <3>1, <3>2 DEF Talking
        <4>2. \A u \in Talking : Pair(u)' = Pair(u)
          BY <3>1, <3>2 DEF Talking, Pair
        <4>3. QED
          BY <3>2, <4>1, <4>2 DEF BusyExact
      <3>3. CASE /\ pc[t] \notin Conversing
                 /\ pc'[t] \in Conversing
                 /\ {cur'[t], conv'[t].b} \cap busy = {}
                 /\ busy' = busy \cup {cur'[t], conv'[t].b}
        <4>1. Talking' = Talking \cup {t} /\ t \notin Talking
          BY <3>1, <3>3 DEF Talking
        <4>2. \A u \in Talking : Pair(u)' = Pair(u) /\ Pair(u) \subseteq busy
          BY <3>1, <4>1 DEF BusyExact, Talking
        <4>3. Pair(t)' \cap busy = {} /\ busy' = busy \cup Pair(t)'
          BY <3>3 DEF Pair
        <4>4. busy' = UNION {Pair(u)' : u \in Talking'}
          BY <4>1, <4>2, <4>3 DEF BusyExact
        <4>5. \A u, v \in Talking' : u # v => Pair(u)' \cap Pair(v)' = {}
          BY <4>1, <4>2, <4>3 DEF BusyExact
        <4>6. QED
          BY <4>4, <4>5 DEF BusyExact
      <3>4. CASE /\ pc[t] \in Conversing
                 /\ pc'[t] \notin Conversing
                 /\ busy' = busy \ {cur[t], conv[t].b}
        <4>1. Talking' = Talking \ {t} /\ t \in Talking
          BY <3>1, <3>4 DEF Talking
        <4>2. \A u \in Talking' : Pair(u)' = Pair(u) /\ Pair(u) \cap Pair(t) = {}
          BY <3>1, <4>1 DEF BusyExact, Talking
        <4>3. busy' = busy \ Pair(t)
          BY <3>4 DEF Pair
        <4>4. busy' = UNION {Pair(u)' : u \in Talking'}
          BY <4>1, <4>2, <4>3 DEF BusyExact
        <4>5. \A u, v \in Talking' : u # v => Pair(u)' \cap Pair(v)' = {}
          BY <4>1, <4>2 DEF BusyExact
        <4>6. QED
          BY <4>4, <4>5 DEF BusyExact
      <3>5. QED
        BY <2>1, <3>2, <3>3, <3>4 DEF TaskStep, BusyStep
    <2>2. CASE UNCHANGED <<pc, cur, held, waiters, schema, conv, busy, last, run>>
      BY <2>2 DEF BusyExact, Talking, Pair
    <2>3. QED
      BY <2>1, <2>2, NextTaskStep DEF vars
  <1>3. QED
    BY <1>1, <1>2, InitInv, InvStep, PTL DEF Spec

-----------------------------------------------------------------------------
(* The conversation book.                                                  *)

TheTalks == [t \in Tasks |-> IF pc[t] \in Conversing THEN Pair(t) ELSE {}]

\* Every step of the loop starts or ends one conversation as the book allows,
\* or leaves the book alone (the safety half of ImplementsBook).
THEOREM KeepsTheBook == Spec => Book!SafeSpec
  <1>1. Init => Book!Init
    BY DEF Init, Book!Init, Conversing
  <1>2. Inv /\ BusyExact /\ [Next]_vars => [Book!Next]_TheTalks
    <2> SUFFICES ASSUME Inv, BusyExact, [Next]_vars
                 PROVE  [Book!Next]_TheTalks
      OBVIOUS
    <2>1. ASSUME NEW t \in Tasks, TaskStep(t)
          PROVE  [Book!Next]_TheTalks
      <3>1. \A u \in Tasks \ {t} : /\ pc'[u] = pc[u]
                                  /\ Pair(u)' = Pair(u)
        BY <2>1 DEF TaskStep, Others, Pair
      <3>2. CASE /\ busy' = busy
                 /\ pc[t] \in Conversing <=> pc'[t] \in Conversing
                 /\ pc[t] \in Conversing => cur'[t] = cur[t] /\ conv'[t].b = conv[t].b
        <4>1. TheTalks' = TheTalks
          BY <3>1, <3>2 DEF TheTalks, Pair
        <4>2. QED
          BY <4>1
      <3>3. CASE /\ pc[t] \notin Conversing
                 /\ pc'[t] \in Conversing
                 /\ {cur'[t], conv'[t].b} \cap busy = {}
                 /\ busy' = busy \cup {cur'[t], conv'[t].b}
        <4>1. TheTalks[t] = {}
          BY <3>3 DEF TheTalks
        <4>2. TheTalks' = [TheTalks EXCEPT ![t] = {cur'[t], conv'[t].b}]
          BY <3>1, <3>3 DEF TheTalks, Pair
        <4>3. \A u \in Tasks : TheTalks[u] \subseteq busy
          BY DEF TheTalks, BusyExact, Talking
        <4>4. cur'[t] \in Peers /\ conv'[t].b \in Peers
          BY <3>3, InvStep DEF Inv, TaskShape, Suspended, Conversing
        <4>5. \A u \in Tasks : {cur'[t], conv'[t].b} \cap TheTalks[u] = {}
          BY <3>3, <4>3
        <4>6. /\ TheTalks[t] = {}
              /\ \E a, b \in Peers :
                   /\ \A u \in Tasks : {a, b} \cap TheTalks[u] = {}
                   /\ TheTalks' = [TheTalks EXCEPT ![t] = {a, b}]
          BY <4>1, <4>2, <4>4, <4>5
        <4>7. Book!Start(t)
          BY <4>6, Zenon DEF Book!Start, TheTalks
        <4>8. QED
          BY <4>7 DEF Book!Next
      <3>4. CASE /\ pc[t] \in Conversing
                 /\ pc'[t] \notin Conversing
                 /\ busy' = busy \ {cur[t], conv[t].b}
        <4>1. TheTalks[t] # {}
          BY <3>4 DEF TheTalks, Pair
        <4>2. TheTalks' = [TheTalks EXCEPT ![t] = {}]
          BY <3>1, <3>4 DEF TheTalks
        <4>3. Book!End(t)
          BY <4>1, <4>2 DEF Book!End, TheTalks
        <4>4. QED
          BY <4>3 DEF Book!Next
      <3>5. QED
        BY <2>1, <3>2, <3>3, <3>4 DEF TaskStep, BusyStep
    <2>2. CASE UNCHANGED <<pc, cur, held, waiters, schema, conv, busy, last, run>>
      BY <2>2 DEF TheTalks, Pair
    <2>3. QED
      BY <2>1, <2>2, NextTaskStep DEF vars
  <1>3. QED
    BY <1>1, <1>2, InitInv, InvStep, BusySetExact, PTL
    DEF Spec, Book!SafeSpec, TheTalks

-----------------------------------------------------------------------------
(* Waiting.                                                                *)

\* The queue of a lock has exactly the tasks that wait for it, each once.
Queued ==
    /\ \A p \in Peers : \A i, j \in DOMAIN waiters[p] :
          /\ pc[waiters[p][i]] = "waiting" /\ cur[waiters[p][i]] = p
          /\ waiters[p][i] = waiters[p][j] => i = j
    /\ \A t \in Tasks : pc[t] = "waiting" =>
          \E i \in DOMAIN waiters[cur[t]] : waiters[cur[t]][i] = t

\* Only a task inside a decision has locks: none is left with a scheduler that
\* died or a request that failed.
LocksInUse == \A t \in Tasks : held[t] # {} => pc[t] \in Suspended

\* What a task at its Acquire waits for has come.
Served(t) == Unlocked(cur[t]) /\ Head(waiters[cur[t]]) = t

\* A task that can go on: its answer may come, or its lock is free.
GoesOn(t) == pc[t] \in Suspended /\ (pc[t] = "waiting" => Served(t))

\* No wake-up is lost: whoever waits is served, or waits for a task that is
\* inside a decision itself.
NoLostWakeup ==
    \A t \in Tasks : pc[t] = "waiting" =>
        Served(t) \/ \E u \in Tasks : WaitsFor(t, u) /\ pc[u] \in Suspended

\* While some task is inside a decision, one of them can go on, unless tasks wait
\* for each other in a cycle.
StuckOnlyInCycle ==
    (\E t \in Tasks : pc[t] \in Suspended) /\ ~WaitCycle => \E t \in Tasks : GoesOn(t)

\* A cycle has a task that waits while it keeps a lock: one that came from a
\* conversation to the partner's decision, within its own (on_talk).
CycleNeedsNesting ==
    WaitCycle => \E t \in Tasks : pc[t] = "waiting" /\ held[t] # {}

\* Nobody is overtaken in a queue.
InTurn ==
    [][\A t \in Tasks : pc[t] = "waiting" /\ pc'[t] = "waiting"
          => Position(t)' <= Position(t)]_vars

LEMMA QueueTypes ==
  ASSUME TypeOK, NEW p \in Peers
  PROVE  /\ Len(waiters[p]) \in Nat
         /\ DOMAIN waiters[p] = 1 .. Len(waiters[p])
         /\ \A i \in DOMAIN waiters[p] : waiters[p][i] \in Tasks
  <1>1. waiters[p] \in Seq(Tasks)
    BY DEF TypeOK
  <1>2. QED
    BY <1>1

\* A task stands in its queue where Position says.
LEMMA PositionTypes ==
  ASSUME Inv, Queued, NEW t \in Tasks, pc[t] = "waiting"
  PROVE  /\ cur[t] \in Peers
         /\ Position(t) \in DOMAIN waiters[cur[t]]
         /\ waiters[cur[t]][Position(t)] = t
         /\ Position(t) \in Nat
         /\ \A i \in DOMAIN waiters[cur[t]] : waiters[cur[t]][i] = t => i = Position(t)
  <1>1. cur[t] \in Peers
    BY DEF Inv, TaskShape, Suspended
  <1>2. \E i \in DOMAIN waiters[cur[t]] : waiters[cur[t]][i] = t
    BY DEF Queued
  <1>3. Position(t) \in DOMAIN waiters[cur[t]] /\ waiters[cur[t]][Position(t)] = t
    BY <1>2 DEF Position
  <1>4. \A i \in DOMAIN waiters[cur[t]] : waiters[cur[t]][i] = t => i = Position(t)
    BY <1>1, <1>3 DEF Queued
  <1>5. Position(t) \in Nat
    BY <1>1, <1>3, QueueTypes DEF Inv
  <1>6. QED
    BY <1>1, <1>3, <1>4, <1>5

\* One task at the end of a queue more.
LEMMA QueueGrows ==
  ASSUME TypeOK, NEW p \in Peers, NEW t \in Tasks,
         waiters' = [waiters EXCEPT ![p] = Append(@, t)]
  PROVE  /\ DOMAIN waiters'[p] = (DOMAIN waiters[p]) \cup {Len(waiters[p]) + 1}
         /\ Len(waiters[p]) + 1 \notin DOMAIN waiters[p]
         /\ \A i \in DOMAIN waiters[p] : waiters'[p][i] = waiters[p][i]
         /\ waiters'[p][Len(waiters[p]) + 1] = t
         /\ \A q \in Peers \ {p} : waiters'[q] = waiters[q]
  <1>1. waiters[p] \in Seq(Tasks) /\ waiters'[p] = Append(waiters[p], t)
    BY DEF TypeOK
  <1>2. \A q \in Peers \ {p} : waiters'[q] = waiters[q]
    BY DEF TypeOK
  <1>3. QED
    BY <1>1, <1>2

\* The head of a queue less.
LEMMA QueueShrinks ==
  ASSUME TypeOK, NEW p \in Peers, waiters[p] # <<>>,
         waiters' = [waiters EXCEPT ![p] = Tail(@)]
  PROVE  /\ 1 \in DOMAIN waiters[p] /\ Head(waiters[p]) = waiters[p][1]
         /\ \A i \in DOMAIN waiters'[p] :
               i + 1 \in DOMAIN waiters[p] /\ waiters'[p][i] = waiters[p][i + 1] /\ i \in Nat
         /\ \A i \in DOMAIN waiters[p] : i # 1 => i - 1 \in DOMAIN waiters'[p] /\ i \in Nat
         /\ \A q \in Peers \ {p} : waiters'[q] = waiters[q]
  <1>1. waiters[p] \in Seq(Tasks) /\ waiters'[p] = Tail(waiters[p])
    BY DEF TypeOK
  <1>2. \A q \in Peers \ {p} : waiters'[q] = waiters[q]
    BY DEF TypeOK
  <1>3. ASSUME NEW v \in Seq(Tasks), v # <<>>
        PROVE  /\ 1 \in DOMAIN v /\ Head(v) = v[1]
               /\ \A i \in DOMAIN Tail(v) :
                     i + 1 \in DOMAIN v /\ Tail(v)[i] = v[i + 1] /\ i \in Nat
               /\ \A i \in DOMAIN v : i # 1 => i - 1 \in DOMAIN Tail(v) /\ i \in Nat
    <2>1. Len(v) \in Nat /\ Len(v) # 0 /\ DOMAIN v = 1 .. Len(v)
      BY <1>3
    <2>2. Head(v) = v[1]
      OBVIOUS
    <2>3. Len(Tail(v)) = Len(v) - 1 /\ DOMAIN Tail(v) = 1 .. Len(v) - 1
      BY <2>1
    <2>4. \A i \in 1 .. Len(v) - 1 : Tail(v)[i] = v[i + 1]
      BY <2>1, <2>3
    <2>5. QED
      BY <2>1, <2>2, <2>3, <2>4
  <1>4. /\ 1 \in DOMAIN waiters[p] /\ Head(waiters[p]) = waiters[p][1]
        /\ \A i \in DOMAIN Tail(waiters[p]) :
              i + 1 \in DOMAIN waiters[p] /\ Tail(waiters[p])[i] = waiters[p][i + 1]
              /\ i \in Nat
        /\ \A i \in DOMAIN waiters[p] :
              i # 1 => i - 1 \in DOMAIN Tail(waiters[p]) /\ i \in Nat
    BY <1>1, <1>3
  <1>5. waiters'[p] = Tail(waiters[p])
    BY <1>1
  <1>6. QED
    BY <1>2, <1>4, <1>5

LEMMA QueuedStep ==
  ASSUME Inv, Queued, NEW t \in Tasks, TaskStep(t)
  PROVE  Queued'
  <1>1. \A u \in Tasks \ {t} : pc'[u] = pc[u] /\ cur'[u] = cur[u]
    BY DEF TaskStep, Others
  <1>2. TypeOK
    BY DEF Inv
  <1>3. CASE pc[t] # "waiting" /\ pc'[t] # "waiting" /\ waiters' = waiters
    <2>1. \A p \in Peers : \A i \in DOMAIN waiters[p] : waiters[p][i] \in Tasks \ {t}
      BY <1>2, <1>3, QueueTypes DEF Queued
    <2>2. QED
      BY <1>1, <1>3, <2>1 DEF Queued
  <1>4. CASE /\ pc[t] # "waiting" /\ pc'[t] = "waiting" /\ cur'[t] \in Peers
             /\ waiters' = [waiters EXCEPT ![cur'[t]] = Append(@, t)]
    <2> DEFINE p == cur'[t]
               n == Len(waiters[p]) + 1
    <2>1. /\ DOMAIN waiters'[p] = (DOMAIN waiters[p]) \cup {n} /\ n \notin DOMAIN waiters[p]
          /\ \A i \in DOMAIN waiters[p] : waiters'[p][i] = waiters[p][i]
          /\ waiters'[p][n] = t
          /\ \A q \in Peers \ {p} : waiters'[q] = waiters[q]
      BY <1>2, <1>4, QueueGrows
    <2>2. \A q \in Peers : \A i \in DOMAIN waiters[q] : waiters[q][i] \in Tasks \ {t}
      BY <1>2, <1>4, QueueTypes DEF Queued
    <2>3. p \in Peers /\ pc'[t] = "waiting"
      BY <1>4
    <2> HIDE DEF n
    <2>4. ASSUME NEW q \in Peers, NEW i \in DOMAIN waiters'[q], NEW j \in DOMAIN waiters'[q]
          PROVE  /\ pc'[waiters'[q][i]] = "waiting" /\ cur'[waiters'[q][i]] = q
                 /\ waiters'[q][i] = waiters'[q][j] => i = j
      <3>1. CASE q # p
        BY <1>1, <2>1, <2>2, <2>4, <3>1 DEF Queued
      <3>2. CASE q = p
        <4>1. ASSUME NEW k \in DOMAIN waiters'[q]
              PROVE  \/ k = n /\ waiters'[q][k] = t
                     \/ /\ k \in DOMAIN waiters[q] /\ waiters'[q][k] = waiters[q][k]
                        /\ waiters[q][k] \in Tasks \ {t}
          BY <2>1, <2>2, <3>2
        <4>2. QED
          BY <1>1, <2>3, <2>4, <3>2, <4>1 DEF Queued
      <3>3. QED
        BY <3>1, <3>2
    <2>5. ASSUME NEW u \in Tasks, pc'[u] = "waiting"
          PROVE  \E i \in DOMAIN waiters'[cur'[u]] : waiters'[cur'[u]][i] = u
      <3>1. CASE u = t
        BY <2>1, <3>1
      <3>2. CASE u # t
        <4>1. pc[u] = "waiting" /\ cur'[u] = cur[u] /\ cur[u] \in Peers
          BY <1>1, <2>5, <3>2 DEF Inv, TaskShape, Suspended
        <4>2. PICK i \in DOMAIN waiters[cur[u]] : waiters[cur[u]][i] = u
          BY <4>1 DEF Queued
        <4>3. QED
          BY <2>1, <4>1, <4>2
      <3>3. QED
        BY <3>1, <3>2
    <2>6. QED
      BY <2>4, <2>5 DEF Queued
  <1>5. CASE /\ pc[t] = "waiting" /\ pc'[t] # "waiting" /\ cur[t] \in Peers
             /\ waiters[cur[t]] # <<>> /\ Head(waiters[cur[t]]) = t
             /\ waiters' = [waiters EXCEPT ![cur[t]] = Tail(@)]
    <2> DEFINE p == cur[t]
    <2>1. /\ 1 \in DOMAIN waiters[p] /\ waiters[p][1] = t
          /\ \A i \in DOMAIN waiters'[p] :
                i + 1 \in DOMAIN waiters[p] /\ waiters'[p][i] = waiters[p][i + 1] /\ i \in Nat
          /\ \A i \in DOMAIN waiters[p] : i # 1 => i - 1 \in DOMAIN waiters'[p] /\ i \in Nat
          /\ \A q \in Peers \ {p} : waiters'[q] = waiters[q]
      BY <1>2, <1>5, QueueShrinks
    <2>2. p \in Peers
      BY <1>5
    <2>3. \A q \in Peers \ {p} : \A i \in DOMAIN waiters[q] : waiters[q][i] \in Tasks \ {t}
      BY <1>2, QueueTypes DEF Queued
    <2>4. \A i \in DOMAIN waiters'[p] : waiters'[p][i] \in Tasks \ {t}
      <3>1. ASSUME NEW i \in DOMAIN waiters'[p]
            PROVE  waiters'[p][i] \in Tasks \ {t}
        <4>1. i + 1 \in DOMAIN waiters[p] /\ waiters'[p][i] = waiters[p][i + 1] /\ i + 1 # 1
          <5>1. i + 1 \in DOMAIN waiters[p] /\ waiters'[p][i] = waiters[p][i + 1] /\ i \in Nat
            BY <2>1, <3>1
          <5>2. i # 0
            <6>1. waiters'[p] \in Seq(Tasks)
              BY <1>2, <1>5 DEF TypeOK
            <6>2. QED
              BY <3>1, <6>1
          <5>3. QED
            BY <5>1, <5>2
        <4>2. waiters[p][i + 1] \in Tasks
          BY <1>2, <2>2, <4>1, QueueTypes
        <4>3. waiters[p][i + 1] # t
          BY <2>1, <2>2, <4>1 DEF Queued
        <4>4. QED
          BY <4>1, <4>2, <4>3
      <3>2. QED
        BY <3>1
    <2>5. ASSUME NEW q \in Peers, NEW i \in DOMAIN waiters'[q], NEW j \in DOMAIN waiters'[q]
          PROVE  /\ pc'[waiters'[q][i]] = "waiting" /\ cur'[waiters'[q][i]] = q
                 /\ waiters'[q][i] = waiters'[q][j] => i = j
      <3>1. CASE q # p
        BY <1>1, <2>1, <2>3, <2>5, <3>1 DEF Queued
      <3>2. CASE q = p
        <4>1. waiters'[p][i] \in Tasks \ {t} /\ waiters'[p][i] = waiters[p][i + 1]
              /\ waiters'[p][j] = waiters[p][j + 1]
              /\ i + 1 \in DOMAIN waiters[p] /\ j + 1 \in DOMAIN waiters[p]
              /\ i \in Nat /\ j \in Nat
          BY <2>1, <2>4, <2>5, <3>2
        <4>2. /\ pc[waiters[p][i + 1]] = "waiting" /\ cur[waiters[p][i + 1]] = p
              /\ waiters[p][i + 1] = waiters[p][j + 1] => i + 1 = j + 1
          BY <2>2, <4>1 DEF Queued
        <4>3. QED
          BY <1>1, <3>2, <4>1, <4>2
      <3>3. QED
        BY <3>1, <3>2
    <2>6. ASSUME NEW u \in Tasks, pc'[u] = "waiting"
          PROVE  \E i \in DOMAIN waiters'[cur'[u]] : waiters'[cur'[u]][i] = u
      <3>1. u # t /\ pc[u] = "waiting" /\ cur'[u] = cur[u] /\ cur[u] \in Peers
        BY <1>1, <1>5, <2>6 DEF Inv, TaskShape, Suspended
      <3>2. PICK i \in DOMAIN waiters[cur[u]] : waiters[cur[u]][i] = u
        BY <3>1 DEF Queued
      <3>3. CASE cur[u] # p
        BY <2>1, <3>1, <3>2, <3>3
      <3>4. CASE cur[u] = p
        <4>1. i # 1
          BY <2>1, <3>1, <3>2, <3>4
        <4>2. i - 1 \in DOMAIN waiters'[p] /\ i \in Nat
          BY <2>1, <3>2, <3>4, <4>1
        <4>3. waiters'[p][i - 1] = waiters[p][(i - 1) + 1] /\ (i - 1) + 1 = i
          BY <2>1, <4>2
        <4>4. QED
          BY <3>1, <3>2, <3>4, <4>2, <4>3
      <3>5. QED
        BY <3>3, <3>4
    <2>7. QED
      BY <2>5, <2>6 DEF Queued
  <1>6. QED
    BY <1>3, <1>4, <1>5 DEF TaskStep, QueueStep

\* The queues are exact, and locks are in use, in every behaviour.
LEMMA QueuesExact == Spec => [](Queued /\ LocksInUse)
  <1>1. Init => Queued /\ LocksInUse
    BY DEF Init, Queued, LocksInUse
  <1>2. Inv /\ Queued /\ LocksInUse /\ [Next]_vars => (Queued /\ LocksInUse)'
    <2> SUFFICES ASSUME Inv, Queued, LocksInUse, [Next]_vars
                 PROVE  Queued' /\ LocksInUse'
      OBVIOUS
    <2>1. ASSUME NEW t \in Tasks, TaskStep(t)
          PROVE  Queued' /\ LocksInUse'
      <3>1. \A u \in Tasks \ {t} : pc'[u] = pc[u] /\ held'[u] = held[u]
        BY <2>1 DEF TaskStep, Others
      <3>2. held'[t] # {} => pc'[t] \in Suspended
        BY <2>1 DEF TaskStep, QueueStep, LocksInUse
      <3>3. LocksInUse'
        BY <3>1, <3>2 DEF LocksInUse
      <3>4. QED
        BY <2>1, <3>3, QueuedStep
    <2>2. CASE UNCHANGED <<pc, cur, held, waiters>>
      BY <2>2 DEF Queued, LocksInUse
    <2>3. QED
      BY <2>1, <2>2, NextTaskStep DEF vars
  <1>3. QED
    BY <1>1, <1>2, InitInv, InvStep, PTL DEF Spec

LEMMA WaitersProgress ==
  ASSUME Inv, Queued, LocksInUse
  PROVE  NoLostWakeup
  <1> SUFFICES ASSUME NEW t \in Tasks, pc[t] = "waiting", ~Served(t)
               PROVE  \E u \in Tasks : WaitsFor(t, u) /\ pc[u] \in Suspended
    BY DEF NoLostWakeup
  <1> DEFINE p == cur[t]
  <1>1. /\ p \in Peers /\ Position(t) \in DOMAIN waiters[p]
        /\ waiters[p][Position(t)] = t /\ Position(t) \in Nat
    BY PositionTypes
  <1>2. CASE ~Unlocked(p)
    <2>1. PICK u \in Tasks : p \in held[u]
      BY <1>2 DEF Unlocked
    <2>2. WaitsFor(t, u) /\ pc[u] \in Suspended
      BY <2>1 DEF WaitsFor, LocksInUse
    <2>3. QED
      BY <2>2
  <1>3. CASE Unlocked(p)
    <2>1. /\ 1 \in DOMAIN waiters[p] /\ Head(waiters[p]) = waiters[p][1]
          /\ Position(t) >= 1
      BY <1>1, QueueTypes DEF Inv
    <2>2. Head(waiters[p]) # t
      BY <1>3 DEF Served
    <2>3. Position(t) # 1
      BY <1>1, <2>1, <2>2
    <2> DEFINE u == waiters[p][1]
    <2>4. u \in Tasks /\ pc[u] = "waiting" /\ cur[u] = p
      BY <1>1, <2>1, QueueTypes DEF Inv, Queued
    <2>5. Position(u) = 1
      BY <2>1, <2>4, PositionTypes
    <2>6. Position(u) < Position(t)
      BY <1>1, <2>1, <2>3, <2>5
    <2>7. WaitsFor(t, u) /\ pc[u] \in Suspended
      BY <2>4, <2>6 DEF WaitsFor, Suspended
    <2>8. QED
      BY <2>4, <2>7
  <1>4. QED
    BY <1>2, <1>3

\* No wake-up is ever lost, whatever raises, nests and queues.
THEOREM WakeupsArrive == Spec => []NoLostWakeup
  <1>1. Spec => []Inv
    BY InitInv, InvStep, PTL DEF Spec
  <1>2. QED
    BY <1>1, QueuesExact, WaitersProgress, PTL

\* The decisions are deadlocked only by a cycle of tasks that wait for each other:
\* what EveryDecisionResolves fails for is the only way to get stuck.
THEOREM OnlyCyclesBlock == Spec => []StuckOnlyInCycle
  <1>1. ASSUME NoLostWakeup
        PROVE  StuckOnlyInCycle
    <2> SUFFICES ASSUME NEW s \in Tasks, pc[s] \in Suspended,
                        \A t \in Tasks : ~GoesOn(t)
                 PROVE  WaitCycle
      BY DEF StuckOnlyInCycle
    <2> DEFINE S == {t \in Tasks : pc[t] \in Suspended}
    <2>1. \A t \in S : pc[t] = "waiting" /\ ~Served(t)
      BY DEF GoesOn
    <2>2. \A t \in S : \E u \in S : WaitsFor(t, u)
      BY <1>1, <2>1 DEF NoLostWakeup
    <2>3. S \subseteq Tasks /\ s \in S
      OBVIOUS
    <2> HIDE DEF S
    <2>4. QED
      BY <2>2, <2>3 DEF WaitCycle
  <1>2. QED
    BY <1>1, WakeupsArrive, PTL

\* Every set of naturals has a least one: the intervals up to its members are
\* finite sets, and those are well founded.
LEMMA LeastNumber ==
  ASSUME NEW N, N \subseteq Nat, N # {}
  PROVE  \E m \in N : \A n \in N : m <= n
  <1> DEFINE T == {1 .. n : n \in N}
  <1>1. T \subseteq FiniteSubsetsOf(Nat)
    <2>1. ASSUME NEW n \in N
          PROVE  1 .. n \in FiniteSubsetsOf(Nat)
      <3>1. IsFiniteSet(1 .. n)
        BY FS_Interval
      <3>2. QED
        BY <3>1 DEF FiniteSubsetsOf
    <2>2. QED
      BY <2>1
  <1>2. T # {}
    OBVIOUS
  <1> HIDE DEF T
  <1>3. \E x \in T : \A y \in T : ~ (<<y, x>> \in StrictSubsetOrdering(Nat))
    BY <1>1, <1>2, FS_StrictSubsetOrderingWellFounded, WFMin
  <1>4. PICK m \in N : \A n \in N : ~ (<<1 .. n, 1 .. m>> \in StrictSubsetOrdering(Nat))
    BY <1>3 DEF T
  <1>5. ASSUME NEW n \in N
        PROVE  m <= n
    <2>1. n \in Nat /\ m \in Nat
      OBVIOUS
    <2>2. 1 .. n \subseteq Nat /\ 1 .. m \subseteq Nat
      BY <2>1
    <2>3. ~ (1 .. n \subseteq 1 .. m /\ 1 .. n # 1 .. m)
      BY <1>4, <2>2 DEF StrictSubsetOrdering
    <2>4. CASE n < m
      <3>1. 1 .. n \subseteq 1 .. m /\ m \in 1 .. m /\ m \notin 1 .. n
        BY <2>1, <2>4
      <3>2. QED
        BY <2>3, <3>1
    <2>5. QED
      BY <2>1, <2>4
  <1>6. QED
    BY <1>5

\* A cycle runs through a decision that is nested in another: a queue alone has a
\* first task, which waits for nobody behind it.
THEOREM CyclesAreNested == Spec => []CycleNeedsNesting
  <1>1. ASSUME Inv, Queued
        PROVE  CycleNeedsNesting
    <2> SUFFICES ASSUME NEW S \in (SUBSET Tasks) \ {{}},
                        \A t \in S : \E u \in S : WaitsFor(t, u)
                 PROVE  \E t \in Tasks : pc[t] = "waiting" /\ held[t] # {}
      BY DEF CycleNeedsNesting, WaitCycle
    <2>1. \A t \in S : t \in Tasks /\ pc[t] = "waiting" /\ Position(t) \in Nat
      BY <1>1, PositionTypes DEF WaitsFor
    <2> DEFINE N == {Position(t) : t \in S}
    <2>2. N \subseteq Nat /\ N # {}
      <3>1. PICK t \in S : TRUE
        OBVIOUS
      <3>2. Position(t) \in N
        OBVIOUS
      <3>3. QED
        BY <2>1, <3>2
    <2>3. PICK m \in N : \A n \in N : m <= n
      BY <2>2, LeastNumber
    <2>4. PICK t \in S : Position(t) = m
      BY <2>3
    <2>5. PICK u \in S : WaitsFor(t, u)
      OBVIOUS
    <2>6. Position(u) \in N /\ Position(u) \in Nat /\ m \in Nat
      BY <2>1, <2>2, <2>3
    <2>7. ~(Position(u) < Position(t))
      BY <2>3, <2>4, <2>6
    <2>8. cur[t] \in held[u]
      BY <2>5, <2>7 DEF WaitsFor
    <2>9. QED
      BY <2>1, <2>8
  <1>2. Spec => []Inv
    BY InitInv, InvStep, PTL DEF Spec
  <1>3. QED
    BY <1>1, <1>2, QueuesExact, PTL

\* A step moves nobody back in a queue: a task joins at the end, and the head leaves.
LEMMA TurnStep ==
  ASSUME Inv, Queued, Queued', NEW t \in Tasks, TaskStep(t),
         NEW u \in Tasks, pc[u] = "waiting", pc'[u] = "waiting"
  PROVE  Position(u)' <= Position(u)
  <1> DEFINE p == cur[u]
             i == Position(u)
  <1>1. u # t /\ cur'[u] = p
    BY DEF TaskStep, QueueStep, Others
  <1>2. p \in Peers /\ i \in DOMAIN waiters[p] /\ waiters[p][i] = u /\ i \in Nat
    BY PositionTypes
  <1>3. TypeOK
    BY DEF Inv
  <1> HIDE DEF i
  <1>4. \E k \in DOMAIN waiters'[p] : waiters'[p][k] = u /\ k \in Nat /\ k <= i
    <2>1. CASE waiters'[p] = waiters[p]
      BY <1>2, <2>1
    <2>2. CASE /\ cur'[t] \in Peers
               /\ waiters' = [waiters EXCEPT ![cur'[t]] = Append(@, t)]
      <3>1. i \in DOMAIN waiters'[p] /\ waiters'[p][i] = waiters[p][i]
        BY <1>2, <1>3, <2>2, QueueGrows
      <3>2. QED
        BY <1>2, <3>1
    <2>3. CASE /\ cur[t] \in Peers /\ waiters[cur[t]] # <<>> /\ Head(waiters[cur[t]]) = t
               /\ waiters' = [waiters EXCEPT ![cur[t]] = Tail(@)]
      <3>1. CASE cur[t] # p
        BY <1>2, <1>3, <2>1, <2>3, <3>1, QueueShrinks
      <3>2. CASE cur[t] = p
        <4>1. /\ waiters[p][1] = t
              /\ \A k \in DOMAIN waiters'[p] : waiters'[p][k] = waiters[p][k + 1]
              /\ i # 1 => i - 1 \in DOMAIN waiters'[p]
          BY <1>2, <1>3, <2>3, <3>2, QueueShrinks
        <4>2. i # 1 /\ i >= 1
          BY <1>1, <1>2, <1>3, <4>1, QueueTypes
        <4>3. i - 1 \in DOMAIN waiters'[p] /\ i - 1 \in Nat /\ i - 1 <= i /\ (i - 1) + 1 = i
          BY <1>2, <4>1, <4>2
        <4>4. waiters'[p][i - 1] = u
          BY <1>2, <4>1, <4>3
        <4>5. QED
          BY <4>3, <4>4
      <3>3. QED
        BY <3>1, <3>2
    <2>4. QED
      BY <2>1, <2>2, <2>3 DEF TaskStep, QueueStep
  <1>5. PICK k \in DOMAIN waiters'[p] : waiters'[p][k] = u /\ k \in Nat /\ k <= i
    BY <1>4
  <1>6. /\ Position(u)' \in DOMAIN waiters'[p]
        /\ waiters'[p][Position(u)'] = u
    BY <1>1, <1>5 DEF Position
  <1>7. Position(u)' = k
    BY <1>2, <1>5, <1>6 DEF Queued
  <1>8. QED
    BY <1>5, <1>7 DEF i

\* Nobody is overtaken while it waits for a peer's lock.
THEOREM LocksAreFair == Spec => InTurn
  <1>1. Inv /\ Queued /\ Queued' /\ [Next]_vars
          => [\A t \in Tasks : pc[t] = "waiting" /\ pc'[t] = "waiting"
                => Position(t)' <= Position(t)]_vars
    <2> SUFFICES ASSUME Inv, Queued, Queued', Next
                 PROVE  \A t \in Tasks : pc[t] = "waiting" /\ pc'[t] = "waiting"
                          => Position(t)' <= Position(t)
      OBVIOUS
    <2>1. ASSUME NEW u \in Tasks, TaskStep(u)
          PROVE  \A t \in Tasks : pc[t] = "waiting" /\ pc'[t] = "waiting"
                   => Position(t)' <= Position(t)
      BY <2>1, TurnStep
    <2>2. CASE UNCHANGED <<pc, cur, held, waiters>>
      <3>1. \A t \in Tasks : Position(t)' = Position(t)
        BY <2>2 DEF Position
      <3>2. \A t \in Tasks : pc[t] = "waiting" => Position(t) \in Nat
        BY PositionTypes
      <3>3. QED
        BY <3>1, <3>2
    <2>3. QED
      BY <2>1, <2>2, NextTaskStep
  <1>2. Spec => []Inv
    BY InitInv, InvStep, PTL DEF Spec
  <1>3. QED
    BY <1>1, <1>2, QueuesExact, PTL DEF Spec, InTurn

-----------------------------------------------------------------------------
(* How long a conversation can last.                                       *)

\* The lines, and after the last one the outcome, the memories and the letters,
\* that a conversation has before it.
Left(t) ==
    CASE pc[t] = "talking" -> conv[t].cap - conv[t].turn + 3
      [] pc[t] = "judging" -> 3
      [] pc[t] = "remembering" -> 2
      [] pc[t] = "mailing" -> 1
      [] OTHER -> 0

\* A transcript that is still growing is below its limit.
BelowLimit ==
    \A t \in Tasks : pc[t] = "talking" => /\ conv[t].cap \in TurnLimits
                                          /\ conv[t].turn < conv[t].cap

\* A conversation has something before it, and never more than its turn limit and
\* what follows the last line.
ConversationsAreShort ==
    \A t \in Tasks : IF pc[t] \in Conversing THEN Left(t) \in 1 .. conv[t].cap + 3
                     ELSE Left(t) = 0

\* Whatever the task of a conversation does brings the conversation nearer to its
\* end, and nothing else that happens sets it back.
ConversationsWindDown ==
    [][\A t \in Tasks : pc[t] \in Conversing => /\ Left(t)' <= Left(t)
                                                /\ Step(t) => Left(t)' < Left(t)]_vars

\* The limit is a number of lines from the first on.
LEMMA LimitTypes ==
  ASSUME TypeOK, NEW t \in Tasks
  PROVE  /\ conv[t].turn \in Nat /\ conv[t].cap \in Nat
         /\ \A n \in TurnLimits : n \in Nat \ {0}
  <1>1. TurnLimits \cup {0} \subseteq Nat /\ \A n \in TurnLimits : n \in Nat \ {0}
    BY TurnsAssumption
  <1>2. conv[t] \in Convs
    BY DEF TypeOK
  <1>3. conv[t].turn \in Nat /\ conv[t].cap \in TurnLimits \cup {0}
    BY <1>2 DEF Convs
  <1>4. QED
    BY <1>1, <1>3

\* What is left is a number within those bounds.
LEMMA LeftBounds ==
  ASSUME TypeOK, BelowLimit, NEW t \in Tasks
  PROVE  IF pc[t] \in Conversing THEN Left(t) \in 1 .. conv[t].cap + 3
         ELSE Left(t) = 0
  <1>1. conv[t].turn \in Nat /\ conv[t].cap \in Nat
    BY LimitTypes
  <1>2. CASE pc[t] = "talking"
    <2>1. conv[t].turn < conv[t].cap
      BY <1>2 DEF BelowLimit
    <2>2. QED
      BY <1>1, <1>2, <2>1 DEF Left, Conversing
  <1>3. CASE pc[t] # "talking"
    BY <1>1, <1>3 DEF Left, Conversing
  <1>4. QED
    BY <1>2, <1>3

\* A task that takes a step uses one of them up, the others keep theirs.
LEMMA TalkStepLeft ==
  ASSUME Inv, TypeOK', BelowLimit, NEW t \in Tasks, TaskStep(t)
  PROVE  /\ BelowLimit'
         /\ pc[t] \in Conversing => Left(t)' < Left(t)
         /\ \A u \in Tasks \ {t} : Left(u)' = Left(u)
  <1>1. TypeOK /\ TalkStep(t) /\ Others(t)
    BY DEF Inv, TaskStep
  <1>2. /\ conv[t].turn \in Nat /\ conv[t].cap \in Nat
        /\ conv'[t].turn \in Nat /\ conv'[t].cap \in Nat
        /\ \A n \in TurnLimits : n \in Nat \ {0}
    <2>1. conv'[t].turn \in Nat /\ conv'[t].cap \in TurnLimits \cup {0}
      BY DEF TypeOK, Convs
    <2>2. TurnLimits \cup {0} \subseteq Nat
      BY TurnsAssumption
    <2>3. QED
      BY <1>1, <2>1, <2>2, LimitTypes
  <1>3. pc'[t] = "talking" => conv'[t].cap \in TurnLimits /\ conv'[t].turn < conv'[t].cap
    BY <1>1, <1>2 DEF TalkStep, BelowLimit, Conversing
  <1>4. BelowLimit'
    BY <1>1, <1>3 DEF Others, BelowLimit
  <1>5. pc[t] \in Conversing => Left(t)' < Left(t)
    <2>1. pc[t] \in Conversing => Left(t) \in Nat \ {0}
      BY <1>1, <1>2, LeftBounds
    <2>2. CASE pc'[t] \notin Conversing
      <3>1. Left(t)' = 0
        BY <2>2 DEF Left, Conversing
      <3>2. QED
        BY <2>1, <3>1
    <2>3. CASE /\ pc[t] = "talking" /\ pc'[t] = "talking"
               /\ conv'[t].turn = conv[t].turn + 1 /\ conv'[t].cap = conv[t].cap
      BY <1>2, <2>3 DEF Left
    <2>4. CASE pc[t] = "talking" /\ pc'[t] = "judging"
      <3>1. conv[t].turn < conv[t].cap
        BY <2>4 DEF BelowLimit
      <3>2. QED
        BY <1>2, <2>4, <3>1 DEF Left
    <2>5. CASE \/ pc[t] = "judging" /\ pc'[t] = "remembering"
               \/ pc[t] = "remembering" /\ pc'[t] = "mailing"
      BY <2>5 DEF Left
    <2>6. QED
      BY <1>1, <2>2, <2>3, <2>4, <2>5 DEF TalkStep
  <1>6. \A u \in Tasks \ {t} : Left(u)' = Left(u)
    BY <1>1 DEF Others, Left
  <1>7. QED
    BY <1>4, <1>5, <1>6

\* A transcript never outgrows its limit.
LEMMA LimitsHold == Spec => []BelowLimit
  <1>1. Init => BelowLimit
    BY DEF Init, BelowLimit
  <1>2. Inv /\ Inv' /\ BelowLimit /\ [Next]_vars => BelowLimit'
    <2> SUFFICES ASSUME Inv, Inv', BelowLimit, [Next]_vars
                 PROVE  BelowLimit'
      OBVIOUS
    <2>1. ASSUME NEW t \in Tasks, TaskStep(t)
          PROVE  BelowLimit'
      BY <2>1, TalkStepLeft DEF Inv
    <2>2. CASE UNCHANGED <<pc, conv>>
      BY <2>2 DEF BelowLimit
    <2>3. QED
      BY <2>1, <2>2, NextTaskStep DEF vars
  <1>3. QED
    BY <1>1, <1>2, InitInv, InvStep, PTL DEF Spec

\* A conversation takes no more steps than its turn limit and three, whatever the
\* two peers say and however often one of them changes its mind about ending.
THEOREM ConversationsStayShort == Spec => []ConversationsAreShort
  <1>1. Inv /\ BelowLimit => ConversationsAreShort
    BY LeftBounds DEF Inv, ConversationsAreShort
  <1>2. Spec => []Inv
    BY InitInv, InvStep, PTL DEF Spec
  <1>3. QED
    BY <1>1, <1>2, LimitsHold, PTL

\* Every step of its task uses one of them up: with tasks that go on, this is why
\* every conversation ends and both peers are free again.
THEOREM EveryLineCounts == Spec => ConversationsWindDown
  <1>1. Inv /\ Inv' /\ BelowLimit /\ BelowLimit' /\ [Next]_vars
          => [\A t \in Tasks : pc[t] \in Conversing =>
                /\ Left(t)' <= Left(t)
                /\ Step(t) => Left(t)' < Left(t)]_vars
    <2> SUFFICES ASSUME Inv, TypeOK', BelowLimit, Next,
                        NEW t \in Tasks, pc[t] \in Conversing, Left(t)' \in Int
                 PROVE  /\ Left(t)' <= Left(t)
                        /\ Step(t) => Left(t)' < Left(t)
      <3> DEFINE Numbers == \A t \in Tasks : Left(t) \in Int
      <3>1. TypeOK /\ BelowLimit => Numbers
        BY LeftBounds, LimitTypes
      <3>2. TypeOK' /\ BelowLimit' => Numbers'
        BY <3>1, PTL
      <3>3. QED
        BY <3>2 DEF Inv
    <2>1. Left(t) \in Int
      BY LeftBounds, LimitTypes DEF Inv
    <2>2. Step(t) => Left(t)' < Left(t)
      BY StepTaskStep, TalkStepLeft
    <2>3. Left(t)' <= Left(t)
      <3>1. ASSUME NEW u \in Tasks, TaskStep(u)
            PROVE  Left(t)' <= Left(t)
        <4>1. CASE u = t
          BY <2>1, <3>1, <4>1, TalkStepLeft
        <4>2. CASE u # t
          BY <2>1, <3>1, <4>2, TalkStepLeft
        <4>3. QED
          BY <4>1, <4>2
      <3>2. CASE UNCHANGED <<pc, conv>>
        <4>1. Left(t)' = Left(t)
          BY <3>2 DEF Left
        <4>2. QED
          BY <2>1, <4>1
      <3>3. QED
        BY <3>1, <3>2, NextTaskStep
    <2>4. QED
      BY <2>2, <2>3
  <1>2. QED
    BY <1>1, InitInv, InvStep, LimitsHold, PTL DEF Spec, ConversationsWindDown
=============================================================================
