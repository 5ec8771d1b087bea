--------------------------- MODULE MateLine_proofs ---------------------------
(***************************************************************************)
(* Theorems about MateLine, for any messages, titles and bounds.           *)
(***************************************************************************)
EXTENDS MateLine, SequenceTheorems, TLAPS

Active(m) == turn[m].stage \notin {"new", "waiting", "over"}
Streaming(m) == In(m, "stream") \/ In(m, "file")

\* Only the holder of the lock is past waiting.
Locked == \A m \in Messages : Active(m) => line # <<>> /\ line[1] = m

\* A note is held only while its memory is written.
Held == \A m \in Messages : turn[m].stage \notin {"note", "file"} => turn[m].note = {}

\* A page that is not subscribed has no bubble and gets no chat frame.
Speech(frame) == frame.t \in {"delta", "done"}
Silent == link # "live" => pane.bubble = {} /\ \A i \in DOMAIN queue : ~Speech(queue[i])

\* A reply that has begun on the page, or on its way there, and whose handle did
\* not raise: what follows of other replies comes after its end, and its end is
\* on the way, or it goes on.
Says(frame, t, m) == frame.t = t /\ frame.of = m
Begun(m, i) == (i = 0 /\ m \in pane.bubble) \/ (i \in DOMAIN queue /\ Says(queue[i], "delta", m))
Ordered ==
    \A m \in Messages \ past.failed, i \in 0 .. Len(queue) : Begun(m, i) =>
        /\ \A j \in DOMAIN queue : j > i /\ Speech(queue[j]) /\ queue[j].of # m =>
              \E k \in DOMAIN queue : i < k /\ k < j /\ Says(queue[k], "done", m)
        /\ \/ Streaming(m)
           \/ \E k \in DOMAIN queue : i < k /\ Says(queue[k], "done", m)

\* The last fog frame waiting to be published is the fog; without one the last
\* on the way to the page is, or what the page shows.
Cloud(frame) == frame.t \in {"fog", "snapshot"}
Settled ==
    \/ /\ pane.fog = fog
       /\ \A i \in DOMAIN queue : ~Cloud(queue[i])
    \/ \E i \in DOMAIN queue :
          /\ Cloud(queue[i]) /\ queue[i].on = fog
          /\ \A j \in DOMAIN queue : j > i => ~Cloud(queue[j])
Clouds ==
    /\ pending # <<>> => pending[Len(pending)].on = fog
    /\ pending = <<>> /\ link # "off" /\ ~past.missed => Settled

-----------------------------------------------------------------------------
(* Types.                                                                  *)

\* TypeOK without its last part, which is one of Silent.
Typed ==
    /\ up \in BOOLEAN
    /\ line \in Seq(Messages)
    /\ turn \in [Messages -> Turns]
    /\ notes \subseteq Notes /\ remembered \subseteq notes
    /\ fog \in BOOLEAN /\ pending \in Seq([t : {"fog"}, on : BOOLEAN])
    /\ link \in {"off", "greeted", "live"} /\ queue \in Seq(Frames)
    /\ pane \in Panes
    /\ past \in Pasts

LEMMA AtType == \A stage \in Stages : At(stage) \in Turns
    BY BoundsAssumption DEF At, Turns

LEMMA PastType ==
    ASSUME past \in Pasts
    PROVE  /\ \A A \in SUBSET Messages : [past EXCEPT !.answered = A] \in Pasts
           /\ \A A \in SUBSET Notes : [past EXCEPT !.orphans = A] \in Pasts
           /\ \A A \in SUBSET Messages, B \in SUBSET Notes :
                 [past EXCEPT !.failed = A, !.orphans = B] \in Pasts
           /\ \A b \in BOOLEAN : [past EXCEPT !.missed = b] \in Pasts
           /\ \A k \in Nat : [past EXCEPT !.flips = k] \in Pasts
           /\ \A k \in Nat, b \in BOOLEAN :
                 [past EXCEPT !.links = k, !.missed = b] \in Pasts
           /\ \A k \in Nat, D \in SUBSET Messages, A \in SUBSET Notes :
                 [past EXCEPT !.crashes = k, !.dropped = D, !.orphans = A] \in Pasts
           /\ past.answered \subseteq Messages /\ past.dropped \subseteq Messages
           /\ past.failed \subseteq Messages
           /\ past.orphans \subseteq Notes /\ past.missed \in BOOLEAN
           /\ past.flips + 1 \in Nat /\ past.links + 1 \in Nat /\ past.crashes + 1 \in Nat
    <1>1. past.flips + 1 \in Nat /\ past.links + 1 \in Nat /\ past.crashes + 1 \in Nat
      BY DEF Pasts
    <1>2. /\ past.answered \subseteq Messages /\ past.dropped \subseteq Messages
          /\ past.failed \subseteq Messages
          /\ past.orphans \subseteq Notes /\ past.missed \in BOOLEAN
      BY DEF Pasts
    <1>3. /\ \A A \in SUBSET Messages : [past EXCEPT !.answered = A] \in Pasts
          /\ \A A \in SUBSET Notes : [past EXCEPT !.orphans = A] \in Pasts
          /\ \A A \in SUBSET Messages, B \in SUBSET Notes :
                [past EXCEPT !.failed = A, !.orphans = B] \in Pasts
      BY DEF Pasts
    <1>4. /\ \A b \in BOOLEAN : [past EXCEPT !.missed = b] \in Pasts
          /\ \A k \in Nat : [past EXCEPT !.flips = k] \in Pasts
      BY DEF Pasts
    <1>5. \A k \in Nat, b \in BOOLEAN : [past EXCEPT !.links = k, !.missed = b] \in Pasts
      BY DEF Pasts
    <1>6. \A k \in Nat, D \in SUBSET Messages, A \in SUBSET Notes :
              [past EXCEPT !.crashes = k, !.dropped = D, !.orphans = A] \in Pasts
      BY DEF Pasts
    <1>7. QED
      BY <1>1, <1>2, <1>3, <1>4, <1>5, <1>6

LEMMA FrameTypes ==
    /\ \A m \in Messages : Delta(m) \in Frames /\ Done(m) \in Frames
    /\ \A on \in BOOLEAN : Fog(on) \in Frames /\ Snapshot(on) \in Frames
                           /\ Fog(on) \in [t : {"fog"}, on : BOOLEAN]
    BY DEF Delta, Done, Fog, Snapshot, Frames, ChatFrames

LEMMA SeqFacts ==
    ASSUME NEW S, NEW s \in Seq(S)
    PROVE  /\ \A x \in S : Append(s, x) \in Seq(S)
           /\ s # <<>> => Head(s) \in S /\ Tail(s) \in Seq(S)
           /\ Len(s) \in Nat /\ DOMAIN s = 1 .. Len(s)
    OBVIOUS

LEMMA ReleaseType ==
    ASSUME TypeOK, NEW m \in Messages, line # <<>>, Release(m)
    PROVE  line' \in Seq(Messages) /\ turn' \in [Messages -> Turns]
    <1>1. line' \in Seq(Messages)
      BY SeqFacts DEF Release, TypeOK
    <1>2. At("over") \in Turns /\ At("recall") \in Turns
      BY AtType DEF Stages
    <1>3. QED
      BY <1>1, <1>2 DEF Release, TypeOK

LEMMA PublishType ==
    ASSUME TypeOK, NEW frame \in Frames, Publish(frame)
    PROVE  queue' \in Seq(Frames)
    BY SeqFacts DEF Publish, TypeOK

LEMMA ToldType ==
    ASSUME TypeOK, NEW m \in Messages
    PROVE  Told(m) \subseteq notes /\ remembered \subseteq Told(m)
    BY DEF Told, TypeOK

\* The parts of TypeOK that the steps of a message leave alone.
LEMMA StepTypes ==
    ASSUME TypeOK, NEW m \in Messages, Active(m), Locked, Step(m)
    PROVE  Typed'
    <1> USE DEF Active
    <1> Typed
      BY DEF TypeOK, Typed
    <1>1. /\ up' = up /\ fog' = fog /\ pending' = pending /\ link' = link /\ pane' = pane
      BY DEF Step, Recalled, OpenStream, Refused, SendDelta, Skipped, Replied, Filed,
             Summarise, Ends, Raises, Untold, Fails, NoteCall, FileReport, weather, wire
    <1>2. line # <<>> /\ turn[m] \in Turns /\ turn \in [Messages -> Turns]
      BY DEF Locked, Typed
    <1>3. Delta(m) \in Frames /\ Done(m) \in Frames
      BY FrameTypes
    <1>4. ASSUME past' = past \/ Answers(m)
          PROVE  past' \in Pasts
      <2>1. past.answered \cup {m} \in SUBSET Messages /\ past \in Pasts
        BY PastType DEF Typed
      <2>2. QED
        BY <1>4, <2>1, PastType DEF Answers
    <1>5. Told(m) \subseteq notes
      BY ToldType
    <1>6. CASE Recalled(m) \/ Summarise(m)
      <2>1. \A stage \in DOMAIN NextStage : NextStage[stage] \in Stages
        BY DEF NextStage, Stages
      <2>2. \E stage \in Stages : Goto(m, stage)
        BY <1>6, <2>1 DEF Recalled, Summarise, Stages
      <2>3. turn' \in [Messages -> Turns]
        BY <1>2, <2>2 DEF Goto, Turns
      <2>4. QED
        BY <1>1, <1>6, <2>3 DEF Recalled, Summarise, wire, Typed
    <1>7. CASE OpenStream(m)
      <2>1. turn' \in [Messages -> Turns]
        BY <1>2, <1>7 DEF OpenStream, Turns, Stages
      <2>2. QED
        BY <1>1, <1>5, <1>7, <2>1 DEF OpenStream, wire, Typed
    <1>8. CASE Refused(m)
      <2>1. line' \in Seq(Messages) /\ turn' \in [Messages -> Turns]
        BY <1>2, <1>8, ReleaseType DEF Refused
      <2>2. queue' \in Seq(Frames)
        BY <1>3, <1>8, PublishType DEF Refused
      <2>3. QED
        BY <1>1, <1>4, <1>5, <1>8, <2>1, <2>2 DEF Refused, Typed
    <1>9. CASE SendDelta(m)
      <2>1. turn[m].deltas + 1 \in Nat
        BY <1>2 DEF Turns
      <2> turn' \in [Messages -> Turns]
        BY <1>2, <1>9, <2>1 DEF SendDelta, Turns
      <2>2. queue' \in Seq(Frames)
        BY <1>3, <1>9, PublishType DEF SendDelta
      <2>3. QED
        BY <1>1, <1>9, <2>2 DEF SendDelta, Typed
    <1>10. CASE Skipped(m)
      <2>1. line' \in Seq(Messages) /\ turn' \in [Messages -> Turns]
        BY <1>2, <1>10, ReleaseType DEF Skipped
      <2>2. queue' \in Seq(Frames)
        BY <1>3, <1>10, PublishType DEF Skipped
      <2>3. QED
        BY <1>1, <1>4, <1>10, <2>1, <2>2 DEF Skipped, Typed
    <1>11. CASE Replied(m)
      <2>1. turn' \in [Messages -> Turns]
        BY <1>2, <1>11 DEF Replied, Goto, Turns, Stages
      <2>2. queue' \in Seq(Frames)
        BY <1>3, <1>11, PublishType DEF Replied
      <2>3. QED
        BY <1>1, <1>4, <1>11, <2>1, <2>2 DEF Replied, Typed
    <1>12. CASE Filed(m)
      <2>1. turn' \in [Messages -> Turns]
        BY <1>2, <1>12 DEF Filed, Turns, Stages
      <2>2. queue' \in Seq(Frames)
        BY <1>3, <1>12, PublishType DEF Filed
      <2>3. QED
        BY <1>1, <1>4, <1>5, <1>12, <2>1, <2>2 DEF Filed, Typed
    <1>13. CASE Ends(m)
      <2>1. line' \in Seq(Messages) /\ turn' \in [Messages -> Turns]
        BY <1>2, <1>13, ReleaseType DEF Ends
      <2>2. QED
        BY <1>1, <1>13, <2>1 DEF Ends, wire, Typed
    <1>14. ASSUME NEW note \in Notes, NoteCall(m, note)
           PROVE  Typed'
      <2>1. turn' \in [Messages -> Turns]
        BY <1>2, <1>14 DEF NoteCall, Turns, Stages
      <2>2. notes' \subseteq Notes /\ remembered' \subseteq notes'
        BY <1>5, <1>14 DEF NoteCall, Typed
      <2>3. QED
        BY <1>1, <1>14, <2>1, <2>2 DEF NoteCall, wire, Typed
    <1>15. ASSUME NEW note \in Notes, FileReport(m, note)
           PROVE  Typed'
      <2>1. turn' \in [Messages -> Turns]
        BY <1>2, <1>15 DEF FileReport, Turns, Stages
      <2>2. QED
        BY <1>1, <1>15, <2>1 DEF FileReport, wire, Typed
    <1>16. CASE Raises(m) \/ Untold(m)
      <2>1. PICK told \in {remembered, Told(m)} : Fails(m, told)
        BY <1>16 DEF Raises, Untold
      <2>2. line' \in Seq(Messages) /\ turn' \in [Messages -> Turns]
        BY <1>2, <2>1, ReleaseType DEF Fails
      <2>3. /\ past.failed \cup {m} \in SUBSET Messages
            /\ past.orphans \cup ((turn[m].note \cap notes) \ told) \in SUBSET Notes
        BY PastType DEF Typed
      <2>4. past' \in Pasts
        BY <2>1, <2>3, PastType DEF Fails, Typed
      <2>5. told \subseteq notes
        BY <1>5 DEF Typed
      <2>6. QED
        BY <1>1, <2>1, <2>2, <2>4, <2>5 DEF Fails, wire, Typed
    <1>17. QED
      BY <1>6, <1>7, <1>8, <1>9, <1>10, <1>11, <1>12, <1>13, <1>14, <1>15, <1>16 DEF Step

LEMMA CutType ==
    ASSUME TypeOK
    PROVE  /\ CutBubble \in Panes
           /\ CutBubble.bubble = {} /\ CutBubble.shown \subseteq pane.shown \cup {pane.bubble}
    BY DEF CutBubble, TypeOK, Panes

LEMMA ShowsType ==
    ASSUME TypeOK, NEW frame \in Frames
    PROVE  Shows(frame) \in Panes
    <1>1. CASE frame \in ChatFrames
      BY <1>1 DEF Shows, ChatFrames, TypeOK, Panes
    <1>2. CASE frame \in [t : {"fog", "snapshot"}, on : BOOLEAN]
      BY <1>2 DEF Shows, TypeOK, Panes
    <1>3. QED
      BY <1>1, <1>2 DEF Frames

LEMMA StepActive ==
    ASSUME NEW m \in Messages, Step(m)
    PROVE  Active(m)
    BY DEF Step, Recalled, OpenStream, Refused, SendDelta, Skipped, Replied, Filed,
           Summarise, Ends, Raises, Untold, Fails, NoteCall,
           FileReport, Calling, In, Active, NextStage

LEMMA TypeStep ==
    ASSUME TypeOK, Locked, [Next]_vars
    PROVE  Typed'
    <1> Typed
      BY DEF TypeOK, Typed
    <1>1. ASSUME NEW m \in Messages, Ask(m)
          PROVE  Typed'
      <2>1. line' \in Seq(Messages)
        BY <1>1, SeqFacts DEF Ask, Typed
      <2>2. At("recall") \in Turns /\ At("waiting") \in Turns
        BY AtType DEF Stages
      <2>3. turn' \in [Messages -> Turns]
        BY <1>1, <2>2 DEF Ask, Typed
      <2>4. QED
        BY <1>1, <2>1, <2>3 DEF Ask, weather, wire, Typed
    <1>2. ASSUME NEW m \in Messages, Step(m)
          PROVE  Typed'
      BY <1>2, StepActive, StepTypes
    <1>3. ASSUME NEW note \in Notes, DeleteNote(note)
          PROVE  Typed'
      BY <1>3 DEF DeleteNote, weather, wire, Typed, Pasts
    <1>4. CASE FogChanges
      <2>1. Fog(fog') \in [t : {"fog"}, on : BOOLEAN] /\ fog' \in BOOLEAN
        BY <1>4, FrameTypes DEF FogChanges, Typed
      <2>2. pending' \in Seq([t : {"fog"}, on : BOOLEAN])
        BY <1>4, <2>1, SeqFacts DEF FogChanges, Typed
      <2>3. past' \in Pasts
        BY <1>4, PastType DEF FogChanges, Typed
      <2>4. QED
        BY <1>4, <2>1, <2>2, <2>3 DEF FogChanges, chat, wire, Typed
    <1>5. CASE PublishFog
      <2>1. Head(pending) \in [t : {"fog"}, on : BOOLEAN]
            /\ pending' \in Seq([t : {"fog"}, on : BOOLEAN])
        BY <1>5, SeqFacts DEF PublishFog, Typed
      <2>2. Head(pending) \in Frames
        BY <2>1 DEF Frames
      <2>3. queue' \in Seq(Frames)
        BY <1>5, <2>2, PublishType DEF PublishFog
      <2>4. past' \in Pasts
        BY <1>5, PastType DEF PublishFog, Typed
      <2>5. QED
        BY <1>5, <2>1, <2>3, <2>4 DEF PublishFog, chat, Typed
    <1>6. CASE Greet
      <2>1. Snapshot(fog) \in Frames
        BY FrameTypes DEF Typed
      <2>2. queue' \in Seq(Frames)
        BY <1>6, <2>1 DEF Greet
      <2>3. past' \in Pasts
        BY <1>6, PastType DEF Greet, Typed
      <2>4. QED
        BY <1>6, <2>2, <2>3 DEF Greet, chat, weather, Typed
    <1>7. CASE Subscribe
      BY <1>7 DEF Subscribe, chat, weather, Typed
    <1>8. CASE Receive
      <2>1. Head(queue) \in Frames /\ queue' \in Seq(Frames)
        BY <1>8, SeqFacts DEF Receive, Typed
      <2>2. pane' \in Panes
        BY <1>8, <2>1, ShowsType DEF Receive
      <2>3. QED
        BY <1>8, <2>1, <2>2 DEF Receive, chat, weather, Typed
    <1>9. CASE Drop
      BY <1>9, CutType DEF Drop, Disconnect, chat, weather, Typed
    <1>10. CASE Crash
      <2>1. Unwritten \subseteq notes
        BY DEF Unwritten
      <2>2. At("over") \in Turns
        BY AtType DEF Stages
      <2>3. turn' \in [Messages -> Turns]
        BY <1>10, <2>2 DEF Crash, Typed
      <2>4. past' \in Pasts
        <3>1. {n \in Messages : turn[n].stage \notin {"new", "over"}} \subseteq Messages
          OBVIOUS
        <3>2. Unwritten \subseteq Notes
          BY <2>1 DEF Typed
        <3>3. QED
          BY <1>10, <3>1, <3>2, PastType DEF Crash, Typed
      <2>5. up' \in BOOLEAN /\ fog' \in BOOLEAN /\ link' \in {"off", "greeted", "live"}
            /\ notes' \subseteq Notes /\ remembered' \subseteq notes' /\ pane' \in Panes
        BY <1>10, CutType DEF Crash, Disconnect, Typed
      <2>6. line' = <<>> /\ pending' = <<>> /\ queue' = <<>>
        BY <1>10 DEF Crash, Disconnect
      <2>7. QED
        BY <2>3, <2>4, <2>5, <2>6 DEF Typed
    <1>11. CASE Launch \/ UNCHANGED vars
      BY <1>11 DEF Launch, vars, chat, weather, wire, Typed
    <1>12. QED
      BY <1>1, <1>2, <1>3, <1>4, <1>5, <1>6, <1>7, <1>8, <1>9, <1>10, <1>11 DEF Next

-----------------------------------------------------------------------------
(* The lock and the notes.                                                 *)

\* A step of a message leaves the others alone, or hands over the lock.
LEMMA StepKinds ==
    ASSUME TypeOK, NEW m \in Messages, Step(m)
    PROVE  \/ line' = line /\ \A n \in Messages \ {m} : turn'[n] = turn[n]
           \/ Release(m)
    <1>1. turn \in [Messages -> Turns]
      BY DEF TypeOK
    <1>2. QED
      BY <1>1 DEF Step, Recalled, OpenStream, Refused, SendDelta, Skipped, Replied, Filed,
                  Summarise, Ends, Raises, Untold, Fails, NoteCall, FileReport, Goto

LEMMA StepHolder ==
    ASSUME TypeOK, Locked, NEW m \in Messages, Step(m)
    PROVE  /\ line # <<>> /\ line[1] = m
           /\ \A n \in Messages \ {m} : ~Active(n)
    BY StepActive DEF Locked

LEMMA LockStep ==
    ASSUME TypeOK, Locked, [Next]_vars
    PROVE  Locked'
    <1>1. ASSUME NEW m \in Messages, Ask(m)
          PROVE  Locked'
      <2>1. turn \in [Messages -> Turns] /\ line \in Seq(Messages)
        BY DEF TypeOK
      <2>2. CASE line = <<>>
        <3>1. \A n \in Messages : ~Active(n)
          BY <2>2 DEF Locked
        <3>2. line' = <<m>> /\ \A n \in Messages \ {m} : turn'[n] = turn[n]
          BY <1>1, <2>1, <2>2 DEF Ask
        <3>3. QED
          BY <3>1, <3>2 DEF Locked, Active
      <2>3. CASE line # <<>>
        <3>1. line' # <<>> /\ line'[1] = line[1]
          BY <1>1, <2>1, <2>3 DEF Ask
        <3>2. turn'[m].stage = "waiting" /\ \A n \in Messages \ {m} : turn'[n] = turn[n]
          BY <1>1, <2>1, <2>3 DEF Ask, At
        <3>3. QED
          BY <3>1, <3>2 DEF Locked, Active
      <2>4. QED
        BY <2>2, <2>3
    <1>2. ASSUME NEW m \in Messages, Step(m)
          PROVE  Locked'
      <2>1. line # <<>> /\ line[1] = m /\ \A n \in Messages \ {m} : ~Active(n)
        BY <1>2, StepHolder
      <2>2. CASE line' = line /\ \A n \in Messages \ {m} : turn'[n] = turn[n]
        BY <2>1, <2>2 DEF Locked, Active
      <2>3. CASE Release(m)
        <3>1. ASSUME NEW n \in Messages, Active(n)'
              PROVE  Len(line) > 1 /\ n = line[2]
          BY <2>1, <2>3, <3>1 DEF Release, Active, At
        <3>2. Len(line) > 1 => line' # <<>> /\ line'[1] = line[2]
          <4>1. line \in Seq(Messages) /\ line' = Tail(line)
            BY <2>3 DEF Release, TypeOK
          <4>2. Len(Tail(line)) = Len(line) - 1
                /\ \A i \in 1 .. Len(Tail(line)) : Tail(line)[i] = line[i + 1]
            BY <4>1, <2>1, HeadTailProperties
          <4>3. Len(line) \in Nat /\ Len(<<>>) = 0
            BY <4>1
          <4>4. Len(line) > 1 => 1 \in 1 .. Len(Tail(line)) /\ Len(Tail(line)) # 0
            BY <4>2, <4>3
          <4>5. ASSUME Len(line) > 1
                PROVE  line' # <<>> /\ line'[1] = line[2]
            <5>1. Tail(line)[1] = line[1 + 1]
              BY <4>2, <4>4, <4>5
            <5>2. Tail(line) # <<>>
              BY <4>3, <4>4, <4>5
            <5>3. QED
              BY <4>1, <5>1, <5>2
          <4>6. QED
            BY <4>5
        <3>3. QED
          BY <3>1, <3>2 DEF Locked
      <2>4. QED
        BY <1>2, <2>2, <2>3, StepKinds
    <1>3. CASE Crash
      <2>1. \A n \in Messages : ~Active(n)'
        BY <1>3 DEF Crash, Active, At
      <2>2. QED
        BY <2>1 DEF Locked
    <1>4. CASE UNCHANGED <<line, turn>>
      BY <1>4 DEF Locked, Active
    <1>5. QED
      BY <1>1, <1>2, <1>3, <1>4
      DEF Next, DeleteNote, FogChanges, PublishFog, Greet, Subscribe, Receive, Drop, Launch,
          vars, chat

LEMMA HeldStep ==
    ASSUME TypeOK, Locked, Held, [Next]_vars
    PROVE  Held'
    <1> turn \in [Messages -> Turns]
      BY DEF TypeOK
    <1>1. ASSUME NEW m \in Messages, Ask(m)
          PROVE  Held'
      BY <1>1 DEF Ask, At, Held
    <1>2. ASSUME NEW m \in Messages, Step(m)
          PROVE  Held'
      <2>1. turn'[m].stage \notin {"note", "file"} => turn'[m].note = {}
        <3>1. CASE Release(m)
          BY <3>1 DEF Release, At
        <3>2. CASE Recalled(m) \/ Summarise(m)
          <4>1. turn[m].stage \notin {"note", "file"}
            BY <3>2 DEF Recalled, Summarise, In, NextStage
          <4>2. turn'[m].note = turn[m].note
            BY <3>2 DEF Recalled, Summarise, Goto, Turns
          <4>3. QED
            BY <4>1, <4>2 DEF Held
        <3>3. CASE SendDelta(m) \/ Replied(m)
          <4>1. turn[m].stage \notin {"note", "file"}
            BY <3>3 DEF SendDelta, Replied, In
          <4>2. turn'[m].note = turn[m].note
            BY <3>3 DEF SendDelta, Replied, Goto, Turns
          <4>3. QED
            BY <4>1, <4>2 DEF Held
        <3>4. CASE OpenStream(m) \/ Filed(m)
          BY <3>4 DEF OpenStream, Filed, Turns
        <3>5. ASSUME NEW note \in Notes, NoteCall(m, note) \/ FileReport(m, note)
              PROVE  turn'[m].stage \in {"note", "file"}
          BY <3>5 DEF NoteCall, FileReport, Turns
        <3>6. QED
          BY <1>2, <3>1, <3>2, <3>3, <3>4, <3>5
          DEF Step, Refused, Skipped, Ends, Raises, Untold, Fails
      <2>2. CASE \A n \in Messages \ {m} : turn'[n] = turn[n]
        BY <2>1, <2>2 DEF Held
      <2>3. CASE Release(m)
        BY <2>3 DEF Release, At, Held
      <2>4. QED
        BY <1>2, <2>2, <2>3, StepKinds
    <1>3. CASE Crash
      BY <1>3 DEF Crash, At, Held
    <1>4. CASE UNCHANGED turn
      BY <1>4 DEF Held
    <1>5. QED
      BY <1>1, <1>2, <1>3, <1>4
      DEF Next, DeleteNote, FogChanges, PublishFog, Greet, Subscribe, Receive, Drop, Launch,
          vars, chat

LEMMA OthersHold ==
    ASSUME TypeOK, Locked, Held, NEW m \in Messages, Step(m),
           NEW n \in Messages \ {m}
    PROVE  turn[n].note \subseteq turn'[n].note
    <1>1. CASE turn'[n] = turn[n]
      BY <1>1
    <1>2. CASE Release(m)
      <2>1. turn[n].note = {}
        BY StepHolder DEF Active, Held
      <2>2. QED
        BY <2>1
    <1>3. QED
      BY <1>1, <1>2, StepKinds

LEMMA NotesStep ==
    ASSUME TypeOK, Locked, Held, NotesRemembered, [Next]_vars
    PROVE  NotesRemembered'
    <1> SUFFICES ASSUME NEW note \in notes', note \notin remembered'
                 PROVE  \/ \E m \in Messages : note \in turn'[m].note
                        \/ note \in past'.orphans
      BY DEF NotesRemembered
    <1> turn \in [Messages -> Turns]
      BY DEF TypeOK
    <1>1. ASSUME NEW m \in Messages, Ask(m)
          PROVE  \/ \E n \in Messages : note \in turn'[n].note
                 \/ note \in past'.orphans
      <2>1. turn[m].note = {}
        BY <1>1 DEF Ask, Held
      <2>2. \A n \in Messages \ {m} : turn'[n] = turn[n]
        BY <1>1 DEF Ask
      <2>3. note \in notes \ remembered /\ past' = past
        BY <1>1 DEF Ask
      <2>4. QED
        BY <2>1, <2>2, <2>3 DEF NotesRemembered
    <1>2. ASSUME NEW m \in Messages, Step(m)
          PROVE  \/ \E n \in Messages : note \in turn'[n].note
                 \/ note \in past'.orphans
      <2>1. \A n \in Messages \ {m} : turn[n].note \subseteq turn'[n].note
        BY <1>2, OthersHold
      <2>2. past.orphans \subseteq past'.orphans
        <3> past \in Pasts
          BY DEF TypeOK
        <3>1. CASE past' = past
          BY <3>1
        <3>2. CASE Answers(m)
          BY <3>2 DEF Answers, Pasts
        <3>3. ASSUME NEW told, Fails(m, told)
              PROVE  past.orphans \subseteq past'.orphans
          BY <3>3 DEF Fails, Pasts
        <3>4. CASE Raises(m) \/ Untold(m)
          BY <3>3, <3>4 DEF Raises, Untold
        <3>5. CASE \E other \in Notes : NoteCall(m, other) \/ FileReport(m, other)
          BY <3>1, <3>5 DEF NoteCall, FileReport
        <3>6. QED
          BY <1>2, <3>1, <3>2, <3>4, <3>5
          DEF Step, Recalled, OpenStream, Refused, SendDelta, Skipped, Replied, Filed,
              Summarise, Ends
      <2>3. CASE note \notin notes
        <3>1. PICK other \in Notes : NoteCall(m, other) \/ FileReport(m, other)
          BY <1>2, <2>3 DEF Step, Recalled, OpenStream, Refused, SendDelta, Skipped, Replied,
                            Filed, Summarise, Ends, Raises, Untold, Fails
        <3>2. note = other /\ turn'[m].note = {other}
          BY <2>3, <3>1 DEF NoteCall, FileReport, Turns
        <3>3. QED
          BY <3>2
      <2>4. CASE note \in notes
        <3>1. note \notin remembered
          BY <1>2, ToldType
          DEF Step, Recalled, OpenStream, Refused, SendDelta, Skipped, Replied,
              Filed, Summarise, Ends, Raises, Untold, Fails, NoteCall, FileReport
        <3>2. \/ \E n \in Messages : note \in turn[n].note
              \/ note \in past.orphans
          BY <2>4, <3>1 DEF NotesRemembered
        <3>3. note \in turn[m].note => note \in turn'[m].note \/ note \in past'.orphans
          <4>1. CASE remembered' = Told(m)
            BY <2>4, <4>1 DEF Told
          <4>2. CASE turn[m].stage \notin {"note", "file"}
            BY <4>2 DEF Held
          <4>3. CASE Untold(m)
            BY <2>4, <4>3 DEF Untold, Fails, TypeOK, Pasts
          <4>4. QED
            BY <1>2, <4>1, <4>2, <4>3
            DEF Step, Recalled, OpenStream, Refused, SendDelta, Skipped, Replied,
                Filed, Summarise, Ends, Raises, Untold, Fails, NoteCall, FileReport, In, NextStage
        <3>4. QED
          BY <2>1, <2>2, <3>2, <3>3
      <2>5. QED
        BY <2>3, <2>4
    <1>3. ASSUME NEW other \in Notes, DeleteNote(other)
          PROVE  \/ \E n \in Messages : note \in turn'[n].note
                 \/ note \in past'.orphans
      <2>1. note \in notes \ remembered /\ note # other /\ turn' = turn
        BY <1>3 DEF DeleteNote
      <2>2. past'.orphans = past.orphans \ {other}
        BY <1>3 DEF DeleteNote, TypeOK, Pasts
      <2>3. QED
        BY <2>1, <2>2 DEF NotesRemembered
    <1>4. CASE Crash
      <2>1. note \in notes \ remembered
        BY <1>4 DEF Crash
      <2>2. past'.orphans = past.orphans \cup (Unwritten \ remembered)
        BY <1>4 DEF Crash, TypeOK, Pasts
      <2>3. ASSUME NEW n \in Messages, note \in turn[n].note
            PROVE  note \in Unwritten
        BY <2>1, <2>3 DEF Unwritten
      <2>4. QED
        BY <2>1, <2>2, <2>3 DEF NotesRemembered
    <1>5. CASE UNCHANGED chat /\ past'.orphans = past.orphans
      BY <1>5 DEF chat, NotesRemembered
    <1>6. QED
      BY <1>1, <1>2, <1>3, <1>4, <1>5
      DEF Next, FogChanges, PublishFog, Greet, Subscribe, Receive, Drop, Launch, vars,
          TypeOK, Pasts

-----------------------------------------------------------------------------
(* Replies.                                                                *)

\* What a step of a message puts on the way, and who has a reply going on.
LEMMA StepTalk ==
    ASSUME TypeOK, Locked, NEW m \in Messages, Step(m)
    PROVE  /\ fog' = fog /\ pending' = pending /\ link' = link /\ pane' = pane
           /\ past'.missed = past.missed /\ past.failed \subseteq past'.failed
           /\ \A n \in Messages \ {m} : ~Streaming(n)
           /\ \/ Publish(Delta(m)) /\ Streaming(m)'
              \/ Publish(Done(m))
              \/ queue' = queue /\ (Streaming(m) => Streaming(m)' \/ m \in past'.failed)
    <1>1. /\ fog' = fog /\ pending' = pending /\ link' = link /\ pane' = pane
          /\ past'.missed = past.missed /\ past.failed \subseteq past'.failed
      BY DEF Step, Recalled, OpenStream, Refused, SendDelta, Skipped, Replied, Filed, Summarise,
             Ends, Raises, Untold, Fails, NoteCall, FileReport,
             Answers, weather, wire, TypeOK, Pasts
    <1>2. \A n \in Messages \ {m} : ~Streaming(n)
      BY StepHolder DEF Streaming, In, Active
    <1>3. turn \in [Messages -> Turns]
      BY DEF TypeOK
    <1>4. CASE SendDelta(m)
      <2>1. turn'[m].stage = "stream"
        BY <1>3, <1>4 DEF SendDelta, In, Turns
      <2>2. QED
        BY <1>1, <1>2, <1>4, <2>1 DEF SendDelta, Streaming, In
    <1>5. CASE Refused(m) \/ Skipped(m) \/ Replied(m) \/ Filed(m)
      BY <1>1, <1>2, <1>5 DEF Refused, Skipped, Replied, Filed
    <1>6. CASE Recalled(m) \/ Summarise(m) \/ OpenStream(m) \/ Ends(m)
      <2>1. ~Streaming(m) /\ queue' = queue
        BY <1>6 DEF Recalled, Summarise, OpenStream, Ends, NextStage, Calling, In, Streaming,
                    wire
      <2>2. QED
        BY <1>1, <1>2, <2>1
    <1>7. ASSUME NEW note \in Notes, NoteCall(m, note) \/ FileReport(m, note)
          PROVE  queue' = queue /\ (Streaming(m) => Streaming(m)')
      <2>1. CASE NoteCall(m, note)
        BY <2>1 DEF NoteCall, Calling, In, Streaming, wire
      <2>2. CASE FileReport(m, note)
        <3>1. turn'[m].stage = "file"
          BY <1>3, <2>2 DEF FileReport, Turns
        <3>2. QED
          BY <2>2, <3>1 DEF FileReport, In, Streaming, wire
      <2>3. QED
        BY <1>7, <2>1, <2>2
    <1>8. CASE Raises(m) \/ Untold(m)
      <2>1. queue' = queue /\ m \in past'.failed
        BY <1>8 DEF Raises, Untold, Fails, wire, TypeOK, Pasts
      <2>2. QED
        BY <1>1, <1>2, <2>1
    <1>9. QED
      BY <1>1, <1>2, <1>4, <1>5, <1>6, <1>7, <1>8 DEF Step

LEMMA QueueFacts ==
    ASSUME TypeOK
    PROVE  /\ queue \in Seq(Frames) /\ Len(queue) \in Nat /\ DOMAIN queue = 1 .. Len(queue)
           /\ \A i \in DOMAIN queue : queue[i] \in Frames
    BY DEF TypeOK

LEMMA QueueAppend ==
    ASSUME TypeOK, NEW frame \in Frames, queue' = Append(queue, frame)
    PROVE  /\ Len(queue)' = Len(queue) + 1 /\ DOMAIN queue' = 1 .. Len(queue) + 1
           /\ \A i \in 1 .. Len(queue) : queue'[i] = queue[i]
           /\ queue'[Len(queue) + 1] = frame
    <1>1. queue \in Seq(Frames) /\ queue' \in Seq(Frames)
      BY AppendProperties DEF TypeOK
    <1>2. /\ Len(queue') = Len(queue) + 1
          /\ \A i \in 1 .. Len(queue) : queue'[i] = queue[i]
          /\ queue'[Len(queue) + 1] = frame
      BY <1>1, AppendProperties
    <1>3. DOMAIN queue' = 1 .. Len(queue')
      BY <1>1
    <1>4. QED
      BY <1>2, <1>3

LEMMA QueueTail ==
    ASSUME TypeOK, queue # <<>>, queue' = Tail(queue)
    PROVE  /\ Len(queue) \in Nat \ {0} /\ Len(queue)' = Len(queue) - 1
           /\ DOMAIN queue = 1 .. Len(queue) /\ DOMAIN queue' = 1 .. Len(queue) - 1
           /\ \A i \in 1 .. Len(queue) - 1 : queue'[i] = queue[i + 1]
           /\ queue[1] = Head(queue) /\ Head(queue) \in Frames
    <1>1. queue \in Seq(Frames) /\ queue' \in Seq(Frames)
      BY HeadTailProperties DEF TypeOK
    <1>2. /\ Len(queue') = Len(queue) - 1
          /\ \A i \in 1 .. Len(queue') : queue'[i] = queue[i + 1]
          /\ Head(queue) \in Frames
      BY <1>1, HeadTailProperties
    <1>3. DOMAIN queue' = 1 .. Len(queue') /\ DOMAIN queue = 1 .. Len(queue)
      BY <1>1
    <1>4. Len(queue) \in Nat \ {0} /\ queue[1] = Head(queue)
      BY <1>1
    <1>5. QED
      BY <1>2, <1>3, <1>4

\* A frame at the end keeps the order of replies when it is no frame of a reply,
\* or one of the only reply that may be going on.
LEMMA AppendOrdered ==
    ASSUME TypeOK, Ordered, NEW frame \in Frames,
           queue' = Append(queue, frame), pane'.bubble = pane.bubble,
           Speech(frame) => \A n \in Messages : n # frame.of => ~Streaming(n),
           past.failed \subseteq past'.failed,
           \A n \in Messages : Streaming(n) => Streaming(n)' \/ Says(frame, "done", n),
           \A n \in Messages : Says(frame, "delta", n) => Streaming(n)'
    PROVE  Ordered'
    <1> DEFINE last == Len(queue) + 1
    <1>1. /\ Len(queue) \in Nat /\ DOMAIN queue = 1 .. Len(queue)
          /\ DOMAIN queue' = 1 .. last /\ Len(queue') = last
          /\ \A i \in 1 .. Len(queue) : queue'[i] = queue[i]
          /\ queue'[last] = frame
      BY QueueFacts, QueueAppend
    <1> SUFFICES ASSUME NEW m \in Messages \ past'.failed, NEW i \in 0 .. last, Begun(m, i)'
                 PROVE  /\ \A j \in 1 .. last :
                              j > i /\ Speech(queue'[j]) /\ queue'[j].of # m =>
                                 \E k \in 1 .. last : i < k /\ k < j /\ Says(queue'[k], "done", m)
                        /\ \/ Streaming(m)'
                           \/ \E k \in 1 .. last : i < k /\ Says(queue'[k], "done", m)
      BY SMTT(30), <1>1 DEF Ordered, Speech, Says
    <1> HIDE DEF last
    <1>2. CASE i = last
      <2>1. Says(frame, "delta", m)
        BY <1>1, <1>2 DEF Begun, Says, last
      <2>2. QED
        BY <1>1, <1>2, <2>1 DEF last
    <1>3. CASE i # last
      <2>1. i \in 0 .. Len(queue) /\ last = Len(queue) + 1
        BY <1>1, <1>3 DEF last
      <2>2. Begun(m, i)
        BY <1>1, <2>1 DEF Begun, Says
      <2>3. /\ \A j \in DOMAIN queue : j > i /\ Speech(queue[j]) /\ queue[j].of # m =>
                  \E k \in DOMAIN queue : i < k /\ k < j /\ Says(queue[k], "done", m)
            /\ \/ Streaming(m)
               \/ \E k \in DOMAIN queue : i < k /\ Says(queue[k], "done", m)
        BY <2>1, <2>2 DEF Ordered
      <2>4. \A k \in DOMAIN queue : k \in 1 .. last /\ k < last /\ queue'[k] = queue[k]
        BY <1>1, <2>1
      <2>5. ASSUME NEW j \in 1 .. last, j > i, Speech(queue'[j]), queue'[j].of # m
            PROVE  \E k \in 1 .. last : i < k /\ k < j /\ Says(queue'[k], "done", m)
        <3>1. CASE j = last
          <4>1. ~Streaming(m)
            BY <1>1, <2>5, <3>1
          <4>2. PICK k \in DOMAIN queue : i < k /\ Says(queue[k], "done", m)
            BY <2>3, <4>1
          <4>3. QED
            BY <2>4, <3>1, <4>2
        <3>2. CASE j # last
          <4>1. j \in DOMAIN queue /\ queue'[j] = queue[j]
            BY <1>1, <2>1, <3>2
          <4>2. PICK k \in DOMAIN queue : i < k /\ k < j /\ Says(queue[k], "done", m)
            BY <2>3, <2>5, <4>1
          <4>3. QED
            BY <2>4, <4>2
        <3>3. QED
          BY <3>1, <3>2
      <2>6. \/ Streaming(m)'
            \/ \E k \in 1 .. last : i < k /\ Says(queue'[k], "done", m)
        <3>1. CASE \E k \in DOMAIN queue : i < k /\ Says(queue[k], "done", m)
          BY <2>4, <3>1
        <3>2. CASE Streaming(m)
          BY <1>1, <2>1, <3>2
        <3>3. QED
          BY <2>3, <3>1, <3>2
      <2>7. QED
        BY <2>5, <2>6
    <1>4. QED
      BY <1>2, <1>3

\* The page takes the first frame: it goes into the bubble, or closes it.
LEMMA ReceiveOrdered ==
    ASSUME TypeOK, Ordered, RepliesUnmixed, Receive,
           \A n \in Messages : Streaming(n) => Streaming(n)'
    PROVE  Ordered' /\ RepliesUnmixed'
    <1> DEFINE head == Head(queue)
               Opened == /\ RepliesUnmixed'
                         /\ \A m \in pane'.bubble \ past.failed :
                               Begun(m, 1) \/ (Begun(m, 0) /\ ~Speech(head))
    <1>1. /\ Len(queue) \in Nat \ {0} /\ Len(queue') = Len(queue) - 1
          /\ DOMAIN queue = 1 .. Len(queue) /\ DOMAIN queue' = 1 .. Len(queue) - 1
          /\ \A i \in 1 .. Len(queue) - 1 : queue'[i] = queue[i + 1]
          /\ queue[1] = head /\ head \in Frames
      BY QueueTail DEF Receive
    <1>2. pane' = Shows(head) /\ pane \in Panes /\ past' = past
      BY DEF Receive, TypeOK
    <1> HIDE DEF head
    \* What an open bubble holds agrees with the next frame of a reply.
    <1>3. ASSUME NEW m \in pane.bubble \ past.failed, Speech(head)
          PROVE  head.of = m
      <2>1. m \in Messages
        BY <1>2 DEF Panes
      <2>2. Begun(m, 0) /\ 0 \in 0 .. Len(queue) /\ 1 \in DOMAIN queue
        BY <1>1 DEF Begun
      <2>3. head.of # m => \E k \in DOMAIN queue : 0 < k /\ k < 1
        BY <1>1, <1>3, <2>1, <2>2 DEF Ordered
      <2>4. QED
        BY <1>1, <2>3
    <1>4. ASSUME head.t = "delta"
          PROVE  Opened
      <2>1. pane'.bubble = pane.bubble \cup {head.of} /\ pane'.shown = pane.shown
            /\ head.of \in Messages
        BY <1>1, <1>2, <1>4 DEF Shows, Panes, Frames, ChatFrames
      <2>2. pane'.bubble \ past.failed \subseteq {head.of}
        BY <1>3, <1>4, <2>1 DEF Speech
      <2>3. \A m \in pane'.bubble \ past.failed : Begun(m, 1)
        BY <1>1, <1>4, <2>2 DEF Begun, Says
      <2>4. RepliesUnmixed'
        BY <1>2, <2>1, <2>2 DEF RepliesUnmixed
      <2>5. QED
        BY <2>3, <2>4
    <1>5. ASSUME head.t = "done"
          PROVE  Opened
      <2>1. pane'.bubble = {} /\ (pane'.shown = pane.shown
                                  \/ pane'.shown = pane.shown \cup {pane.bubble \cup {head.of}})
        BY <1>1, <1>2, <1>5 DEF Shows, Panes
      <2>2. \A m \in pane.bubble \ past.failed : m = head.of
        BY <1>3, <1>5 DEF Speech
      <2>3. RepliesUnmixed'
        BY <1>2, <2>1, <2>2 DEF RepliesUnmixed
      <2>4. QED
        BY <1>1, <2>1, <2>3
    <1>6. ASSUME ~Speech(head)
          PROVE  Opened
      <2>1. pane'.bubble = pane.bubble /\ pane'.shown = pane.shown
        BY <1>1, <1>2, <1>6 DEF Speech, Shows, Panes, Frames, ChatFrames
      <2>2. RepliesUnmixed'
        BY <1>2, <2>1 DEF RepliesUnmixed
      <2>3. \A m \in pane'.bubble : Begun(m, 0)
        BY <2>1 DEF Begun
      <2>4. QED
        BY <1>1, <1>6, <2>2, <2>3
    <1>7. Opened
      <2>1. head.t \in {"delta", "done"} \/ ~Speech(head)
        BY DEF Speech
      <2>2. QED
        BY <1>4, <1>5, <1>6, <2>1
    \* Where a reply has begun now, it had begun before, with the same frames to come.
    <1>8. ASSUME NEW m \in Messages \ past.failed, NEW i \in 0 .. Len(queue'), Begun(m, i)'
          PROVE  \E p \in 0 .. Len(queue) :
                    /\ Begun(m, p) /\ p <= i + 1
                    /\ \A k \in DOMAIN queue : k > p /\ Says(queue[k], "done", m) => k > i + 1
      <2>1. CASE i = 0
        <3>1. m \in pane'.bubble
          BY <1>1, <1>8, <2>1 DEF Begun
        <3>2. CASE Begun(m, 1)
          BY <1>1, <2>1, <3>2
        <3>3. CASE Begun(m, 0) /\ ~Speech(head)
          <4>1. ~Says(queue[1], "done", m)
            BY <1>1, <3>3 DEF Says, Speech
          <4>2. QED
            BY <1>1, <2>1, <3>3, <4>1
        <3>4. QED
          BY <1>7, <3>1, <3>2, <3>3
      <2>2. CASE i # 0
        <3>1. i + 1 \in DOMAIN queue /\ queue'[i] = queue[i + 1] /\ i \in DOMAIN queue'
          BY <1>1, <2>2
        <3>2. Begun(m, i + 1)
          BY <1>1, <1>8, <2>2, <3>1 DEF Begun, Says
        <3>3. QED
          BY <1>1, <3>1, <3>2
      <2>3. QED
        BY <2>1, <2>2
    <1>9. ASSUME NEW m \in Messages \ past.failed, NEW i \in 0 .. Len(queue'), Begun(m, i)'
          PROVE  /\ \A j \in DOMAIN queue' : j > i /\ Speech(queue'[j]) /\ queue'[j].of # m =>
                       \E k \in DOMAIN queue' : i < k /\ k < j /\ Says(queue'[k], "done", m)
                 /\ \/ Streaming(m)'
                    \/ \E k \in DOMAIN queue' : i < k /\ Says(queue'[k], "done", m)
      <2>1. PICK p \in 0 .. Len(queue) :
                    /\ Begun(m, p) /\ p <= i + 1
                    /\ \A k \in DOMAIN queue : k > p /\ Says(queue[k], "done", m) => k > i + 1
        BY <1>8, <1>9
      <2>2. /\ \A j \in DOMAIN queue : j > p /\ Speech(queue[j]) /\ queue[j].of # m =>
                  \E k \in DOMAIN queue : p < k /\ k < j /\ Says(queue[k], "done", m)
            /\ \/ Streaming(m)
               \/ \E k \in DOMAIN queue : p < k /\ Says(queue[k], "done", m)
        BY <2>1 DEF Ordered
      \* An end of the reply after p is one after i now.
      <2>3. ASSUME NEW k \in DOMAIN queue, p < k, Says(queue[k], "done", m)
            PROVE  k - 1 \in DOMAIN queue' /\ i < k - 1 /\ Says(queue'[k - 1], "done", m)
        <3>1. k > i + 1 /\ i \in Nat /\ k \in Nat
          BY <1>1, <2>1, <2>3
        <3>2. k - 1 \in 1 .. Len(queue) - 1 /\ (k - 1) + 1 = k /\ i < k - 1
          BY <1>1, <3>1
        <3>3. queue'[k - 1] = queue[k]
          BY <1>1, <3>2
        <3>4. QED
          BY <1>1, <2>3, <3>2, <3>3
      <2>4. ASSUME NEW j \in DOMAIN queue', j > i, Speech(queue'[j]), queue'[j].of # m
            PROVE  \E k \in DOMAIN queue' : i < k /\ k < j /\ Says(queue'[k], "done", m)
        <3>1. j + 1 \in DOMAIN queue /\ queue'[j] = queue[j + 1] /\ j + 1 > p /\ j \in Nat
          BY <1>1, <2>1, <2>4
        <3>2. PICK k \in DOMAIN queue : p < k /\ k < j + 1 /\ Says(queue[k], "done", m)
          BY <2>2, <2>4, <3>1
        <3>3. k - 1 < j
          BY <1>1, <3>1, <3>2
        <3>4. QED
          BY <2>3, <3>2, <3>3
      <2>5. \/ Streaming(m)'
            \/ \E k \in DOMAIN queue' : i < k /\ Says(queue'[k], "done", m)
        <3>1. CASE Streaming(m)
          BY <3>1
        <3>2. CASE \E k \in DOMAIN queue : p < k /\ Says(queue[k], "done", m)
          BY <2>3, <3>2
        <3>3. QED
          BY <2>2, <3>1, <3>2
      <2>6. QED
        BY <2>4, <2>5
    <1>10. Ordered'
      BY <1>2, <1>9 DEF Ordered, Speech, Says
    <1>11. QED
      BY <1>7, <1>10

\* Nothing happens on the page or on the way to it.
LEMMA QuietOrdered ==
    ASSUME Ordered, Silent, RepliesUnmixed, queue' = queue, pane' = pane,
           link' = link \/ link' = "live", past.failed \subseteq past'.failed,
           \A n \in Messages : Streaming(n) => Streaming(n)' \/ n \in past'.failed
    PROVE  Ordered' /\ Silent' /\ RepliesUnmixed'
    <1>1. Silent' /\ RepliesUnmixed'
      BY DEF Silent, RepliesUnmixed
    <1>2. Ordered'
      <2>1. \A m \in Messages, i \in 0 .. Len(queue) : Begun(m, i)' = Begun(m, i)
        BY DEF Begun
      <2>2. QED
        BY <2>1 DEF Ordered
    <1>3. QED
      BY <1>1, <1>2

\* Whoever has no bubble and no frame of a reply on the way has nothing begun.
LEMMA SilentOrdered ==
    ASSUME TypeOK, Silent, link # "live"
    PROVE  \A m \in Messages, i \in 0 .. Len(queue) : ~Begun(m, i)
    BY DEF Silent, Begun, Says, Speech

LEMMA TalkStep ==
    ASSUME TypeOK, Locked, Ordered, Silent, RepliesUnmixed, [Next]_vars
    PROVE  Ordered' /\ Silent' /\ RepliesUnmixed'
    <1>1. ASSUME NEW m \in Messages, Step(m)
          PROVE  Ordered' /\ Silent' /\ RepliesUnmixed'
      <2>1. /\ link' = link /\ pane' = pane /\ past.failed \subseteq past'.failed
            /\ \A n \in Messages \ {m} : ~Streaming(n)
            /\ \/ Publish(Delta(m)) /\ Streaming(m)'
               \/ Publish(Done(m))
               \/ queue' = queue /\ (Streaming(m) => Streaming(m)' \/ m \in past'.failed)
        BY <1>1, StepTalk
      <2>2. RepliesUnmixed'
        BY <2>1 DEF RepliesUnmixed
      <2>3. Delta(m) \in Frames /\ Done(m) \in Frames
        BY FrameTypes
      <2>4. CASE link # "live"
        <3>1. queue' = queue
          BY <2>1, <2>4 DEF Publish
        <3>2. \A n \in Messages, i \in 0 .. Len(queue') : ~Begun(n, i)'
          BY <2>1, <2>4, <3>1, SilentOrdered DEF Begun
        <3>3. Ordered'
          BY <3>2 DEF Ordered
        <3>4. Silent'
          BY <2>1, <3>1 DEF Silent
        <3>5. QED
          BY <2>2, <3>3, <3>4
      <2>5. CASE /\ link = "live" /\ queue' = queue
                 /\ Streaming(m) => Streaming(m)' \/ m \in past'.failed
        BY <2>1, <2>5, QuietOrdered
      <2>6. CASE link = "live" /\ Publish(Delta(m)) /\ Streaming(m)'
        <3>1. queue' = Append(queue, Delta(m)) /\ Delta(m).t = "delta" /\ Delta(m).of = m
          BY <2>6 DEF Publish, Delta
        <3>2. Ordered'
          BY <2>1, <2>3, <2>6, <3>1, AppendOrdered DEF Speech, Says
        <3>3. QED
          BY <2>1, <2>2, <2>6, <3>2 DEF Silent
      <2>7. CASE link = "live" /\ Publish(Done(m))
        <3>1. queue' = Append(queue, Done(m)) /\ Done(m).t = "done" /\ Done(m).of = m
          BY <2>7 DEF Publish, Done
        <3>2. Ordered'
          BY <2>1, <2>3, <2>7, <3>1, AppendOrdered DEF Speech, Says
        <3>3. QED
          BY <2>1, <2>2, <2>7, <3>2 DEF Silent
      <2>8. QED
        BY <2>1, <2>4, <2>5, <2>6, <2>7
    <1>2. ASSUME NEW m \in Messages, Ask(m)
          PROVE  Ordered' /\ Silent' /\ RepliesUnmixed'
      <2>1. \A n \in Messages : Streaming(n) => Streaming(n)'
        BY <1>2 DEF Ask, Streaming, In, TypeOK
      <2>2. QED
        BY <1>2, <2>1, QuietOrdered DEF Ask, wire
    <1>3. ASSUME \A n \in Messages : turn'[n] = turn[n], past'.failed = past.failed,
                 queue' = queue, pane' = pane, link' = link \/ link' = "live"
          PROVE  Ordered' /\ Silent' /\ RepliesUnmixed'
      <2>1. \A n \in Messages : Streaming(n) => Streaming(n)'
        BY <1>3 DEF Streaming, In
      <2>2. QED
        BY <1>3, <2>1, QuietOrdered
    <1>4. CASE PublishFog
      <2>1. /\ pane' = pane /\ link' = link /\ turn' = turn
            /\ past'.failed = past.failed /\ RepliesUnmixed'
        BY <1>4 DEF PublishFog, RepliesUnmixed, chat, TypeOK, Pasts
      <2>2. CASE link # "live"
        <3>1. queue' = queue
          BY <1>4, <2>2 DEF PublishFog, Publish
        <3>2. QED
          BY <1>3, <2>1, <3>1
      <2>3. CASE link = "live"
        <3>1. Head(pending) \in [t : {"fog"}, on : BOOLEAN]
          BY <1>4, SeqFacts DEF PublishFog, TypeOK
        <3>2. Head(pending) \in Frames /\ Head(pending).t = "fog"
          BY <3>1 DEF Frames
        <3>3. queue' = Append(queue, Head(pending))
          BY <1>4, <2>3 DEF PublishFog, Publish
        <3>4. \A n \in Messages : Streaming(n) => Streaming(n)'
          BY <2>1 DEF Streaming, In
        <3>5. Ordered'
          BY <2>1, <3>2, <3>3, <3>4, AppendOrdered DEF Speech, Says
        <3>6. QED
          BY <2>1, <2>3, <3>5 DEF Silent
      <2>4. QED
        BY <2>2, <2>3
    <1>5. CASE Receive
      <2>1. \A n \in Messages : Streaming(n) => Streaming(n)'
        BY <1>5 DEF Receive, chat, Streaming, In
      <2>2. Ordered' /\ RepliesUnmixed'
        BY <1>5, <2>1, ReceiveOrdered
      <2>3. ASSUME link # "live"
            PROVE  pane'.bubble = {} /\ \A i \in DOMAIN queue' : ~Speech(queue'[i])
        <3>1. pane.bubble = {} /\ \A i \in DOMAIN queue : ~Speech(queue[i])
          BY <2>3 DEF Silent
        <3>2. /\ Len(queue) \in Nat \ {0}
              /\ DOMAIN queue = 1 .. Len(queue) /\ DOMAIN queue' = 1 .. Len(queue) - 1
              /\ \A i \in 1 .. Len(queue) - 1 : queue'[i] = queue[i + 1]
              /\ queue[1] = Head(queue) /\ Head(queue) \in Frames
          BY <1>5, QueueTail DEF Receive
        <3>3. ~Speech(Head(queue))
          BY <3>1, <3>2
        <3>4. pane'.bubble = pane.bubble
          BY <1>5, <3>2, <3>3 DEF Receive, Shows, Speech, TypeOK, Panes, Frames, ChatFrames
        <3>5. \A i \in DOMAIN queue' : i + 1 \in DOMAIN queue /\ queue'[i] = queue[i + 1]
          BY <3>2
        <3>6. QED
          BY <3>1, <3>4, <3>5
      <2>4. Silent'
        BY <1>5, <2>3 DEF Silent, Receive
      <2>5. QED
        BY <2>2, <2>4
    <1>6. CASE Greet
      <2>1. /\ queue' = <<Snapshot(fog)>> /\ pane' = pane /\ link # "live"
            /\ pane.bubble = {} /\ past'.failed = past.failed
        BY <1>6 DEF Greet, Silent, TypeOK, Pasts
      <2>2. \A i \in DOMAIN queue' : ~Speech(queue'[i])
        BY <2>1 DEF Snapshot, Speech
      <2>3. \A m \in Messages, i \in 0 .. Len(queue') : ~Begun(m, i)'
        BY <2>1, <2>2 DEF Begun, Says, Speech
      <2>4. Ordered'
        BY <2>3 DEF Ordered
      <2>5. QED
        BY <2>1, <2>2, <2>4 DEF Silent, RepliesUnmixed
    <1>7. CASE Drop \/ Crash
      <2>1. queue' = <<>> /\ pane' = CutBubble /\ past'.failed = past.failed
        BY <1>7 DEF Drop, Crash, Disconnect, TypeOK, Pasts
      <2>2. pane'.bubble = {} /\ pane'.shown \subseteq pane.shown \cup {pane.bubble}
        BY <2>1, CutType
      <2>3. \A m \in Messages, i \in 0 .. Len(queue') : ~Begun(m, i)'
        BY <2>1, <2>2 DEF Begun
      <2>4. Ordered'
        BY <2>3 DEF Ordered
      <2>5. Silent' /\ RepliesUnmixed'
        BY <2>1, <2>2 DEF Silent, RepliesUnmixed
      <2>6. QED
        BY <2>4, <2>5
    <1>8. CASE \/ \E note \in Notes : DeleteNote(note)
               \/ FogChanges \/ Subscribe \/ Launch \/ UNCHANGED vars
      <2>1. /\ turn' = turn /\ queue' = queue /\ pane' = pane /\ past'.failed = past.failed
            /\ link' = link \/ link' = "live"
        BY <1>8 DEF DeleteNote, FogChanges, Subscribe, Launch, vars, chat, wire, TypeOK, Pasts
      <2>2. QED
        BY <1>3, <2>1
    <1>9. QED
      BY <1>1, <1>2, <1>4, <1>5, <1>6, <1>7, <1>8 DEF Next

-----------------------------------------------------------------------------
(* The fog line.                                                           *)

LEMMA AppendSettled ==
    ASSUME TypeOK, NEW frame \in Frames, queue' = Append(queue, frame),
           fog' = fog, pane'.fog = pane.fog,
           (Cloud(frame) /\ frame.on = fog) \/ (~Cloud(frame) /\ Settled)
    PROVE  Settled'
    <1>1. /\ Len(queue) \in Nat /\ DOMAIN queue = 1 .. Len(queue)
          /\ DOMAIN queue' = 1 .. Len(queue) + 1
          /\ \A i \in 1 .. Len(queue) : queue'[i] = queue[i]
          /\ queue'[Len(queue) + 1] = frame
      BY QueueFacts, QueueAppend
    <1>2. \A j \in DOMAIN queue' : j \in DOMAIN queue \/ j = Len(queue) + 1
      BY <1>1
    <1>3. CASE Cloud(frame) /\ frame.on = fog
      <2>1. Len(queue) + 1 \in DOMAIN queue'
            /\ \A j \in DOMAIN queue' : ~(j > Len(queue) + 1)
        BY <1>1
      <2>2. QED
        BY <1>1, <1>3, <2>1 DEF Settled, Cloud
    <1>4. CASE ~Cloud(frame) /\ Settled
      <2>1. CASE pane.fog = fog /\ \A i \in DOMAIN queue : ~Cloud(queue[i])
        BY <1>1, <1>2, <1>4, <2>1 DEF Settled, Cloud
      <2>2. CASE \E i \in DOMAIN queue :
                    /\ Cloud(queue[i]) /\ queue[i].on = fog
                    /\ \A j \in DOMAIN queue : j > i => ~Cloud(queue[j])
        <3>1. PICK i \in DOMAIN queue :
                      /\ Cloud(queue[i]) /\ queue[i].on = fog
                      /\ \A j \in DOMAIN queue : j > i => ~Cloud(queue[j])
          BY <2>2
        <3>2. i \in DOMAIN queue' /\ queue'[i] = queue[i]
          BY <1>1
        <3>3. \A j \in DOMAIN queue' : j > i => ~Cloud(queue'[j])
          BY <1>1, <1>2, <1>4, <3>1
        <3>4. QED
          BY <3>1, <3>2, <3>3 DEF Settled, Cloud
      <2>3. QED
        BY <1>4, <2>1, <2>2 DEF Settled
    <1>5. QED
      BY <1>3, <1>4

LEMMA ReceiveSettled ==
    ASSUME TypeOK, Settled, Receive
    PROVE  Settled'
    <1>1. /\ Len(queue) \in Nat \ {0} /\ DOMAIN queue = 1 .. Len(queue)
          /\ DOMAIN queue' = 1 .. Len(queue) - 1
          /\ \A i \in 1 .. Len(queue) - 1 : queue'[i] = queue[i + 1]
          /\ queue[1] = Head(queue) /\ Head(queue) \in Frames
      BY QueueTail DEF Receive
    <1>2. fog' = fog /\ pane' = Shows(Head(queue)) /\ pane \in Panes
      BY DEF Receive, weather, TypeOK
    <1>3. \A j \in DOMAIN queue' : j \in Nat /\ j + 1 \in DOMAIN queue /\ queue'[j] = queue[j + 1]
      BY <1>1
    <1>4. Cloud(Head(queue)) => pane'.fog = Head(queue).on
      BY <1>1, <1>2 DEF Cloud, Shows, Panes
    <1>5. ~Cloud(Head(queue)) => pane'.fog = pane.fog
      BY <1>1, <1>2 DEF Cloud, Shows, Panes, Frames, ChatFrames
    <1>6. CASE pane.fog = fog /\ \A i \in DOMAIN queue : ~Cloud(queue[i])
      BY <1>1, <1>2, <1>3, <1>5, <1>6 DEF Settled, Cloud
    <1>7. CASE \E i \in DOMAIN queue :
                  /\ Cloud(queue[i]) /\ queue[i].on = fog
                  /\ \A j \in DOMAIN queue : j > i => ~Cloud(queue[j])
      <2>1. PICK i \in DOMAIN queue :
                    /\ Cloud(queue[i]) /\ queue[i].on = fog
                    /\ \A j \in DOMAIN queue : j > i => ~Cloud(queue[j])
        BY <1>7
      <2>2. CASE i = 1
        <3>1. \A j \in DOMAIN queue' : ~Cloud(queue'[j])
          BY <1>1, <1>3, <2>1, <2>2
        <3>2. QED
          BY <1>1, <1>2, <1>4, <2>1, <2>2, <3>1 DEF Settled, Cloud
      <2>3. CASE i # 1
        <3>1. i - 1 \in DOMAIN queue' /\ queue'[i - 1] = queue[i]
          BY <1>1, <2>1, <2>3
        <3>2. \A j \in DOMAIN queue' : j > i - 1 => ~Cloud(queue'[j])
          BY <1>1, <1>3, <2>1
        <3>3. QED
          BY <1>2, <2>1, <3>1, <3>2 DEF Settled, Cloud
      <2>4. QED
        BY <2>2, <2>3
    <1>8. QED
      BY <1>6, <1>7 DEF Settled

LEMMA FogStep ==
    ASSUME TypeOK, Locked, Clouds, [Next]_vars
    PROVE  Clouds'
    <1>1. ASSUME NEW m \in Messages, Step(m)
          PROVE  Clouds'
      <2>1. /\ fog' = fog /\ pending' = pending /\ link' = link /\ pane' = pane
            /\ past'.missed = past.missed
            /\ Publish(Delta(m)) \/ Publish(Done(m)) \/ queue' = queue
        BY <1>1, StepTalk
      <2>2. Delta(m) \in Frames /\ Done(m) \in Frames /\ ~Cloud(Delta(m)) /\ ~Cloud(Done(m))
        BY FrameTypes DEF Delta, Done, Cloud
      <2>3. ASSUME Settled
            PROVE  Settled'
        <3>1. CASE queue' = queue
          BY <2>1, <2>3, <3>1 DEF Settled
        <3>2. CASE queue' # queue
          <4>1. queue' = Append(queue, Delta(m)) \/ queue' = Append(queue, Done(m))
            BY <2>1, <3>2 DEF Publish
          <4>2. QED
            BY <2>1, <2>2, <2>3, <4>1, AppendSettled
        <3>3. QED
          BY <3>1, <3>2
      <2>4. QED
        BY <2>1, <2>3 DEF Clouds
    <1>2. CASE FogChanges
      <2>1. pending' = Append(pending, Fog(fog')) /\ Fog(fog').on = fog'
        BY <1>2 DEF FogChanges, Fog
      <2>2. Fog(fog') \in [t : {"fog"}, on : BOOLEAN]
        BY <1>2, FrameTypes DEF FogChanges, TypeOK
      <2>3. pending' # <<>> /\ pending'[Len(pending')] = Fog(fog')
        <3>1. pending \in Seq([t : {"fog"}, on : BOOLEAN])
          BY DEF TypeOK
        <3>2. /\ pending' # <<>> /\ Len(pending') = Len(pending) + 1
              /\ pending'[Len(pending) + 1] = Fog(fog')
          BY <2>1, <2>2, <3>1, AppendProperties
        <3>3. QED
          BY <3>2
      <2>4. QED
        BY <2>1, <2>3 DEF Clouds
    <1>3. CASE PublishFog
      <2>1. /\ pending # <<>> /\ pending' = Tail(pending) /\ Publish(Head(pending))
            /\ fog' = fog /\ link' = link /\ pane' = pane
            /\ past'.missed = IF link = "off" THEN past.missed ELSE link = "greeted"
        BY <1>3 DEF PublishFog, TypeOK, Pasts
      <2>2. pending \in Seq([t : {"fog"}, on : BOOLEAN])
        BY DEF TypeOK
      <2>3. /\ Len(pending) \in Nat \ {0} /\ Len(pending') = Len(pending) - 1
            /\ \A i \in 1 .. Len(pending') : pending'[i] = pending[i + 1]
            /\ Head(pending) = pending[1] /\ Head(pending) \in [t : {"fog"}, on : BOOLEAN]
        <3>1. Len(pending) \in Nat \ {0} /\ Head(pending) = pending[1]
          BY <2>1, <2>2
        <3>2. /\ Len(Tail(pending)) = Len(pending) - 1
              /\ \A i \in 1 .. Len(Tail(pending)) : Tail(pending)[i] = pending[i + 1]
              /\ Head(pending) \in [t : {"fog"}, on : BOOLEAN]
          BY <2>1, <2>2, HeadTailProperties
        <3>3. QED
          BY <2>1, <3>1, <3>2
      <2>4. pending[Len(pending)].on = fog
        BY <2>1 DEF Clouds
      <2>5. ASSUME pending' # <<>>
            PROVE  pending'[Len(pending')].on = fog'
        <3>1. Len(pending') # 0
          <4>1. pending' \in Seq([t : {"fog"}, on : BOOLEAN])
            BY <2>1, <2>2, SeqFacts
          <4>2. QED
            BY <2>5, <4>1
        <3>2. Len(pending') \in 1 .. Len(pending') /\ Len(pending') + 1 = Len(pending)
          BY <2>3, <3>1
        <3>3. QED
          BY <2>1, <2>3, <2>4, <3>2
      <2>6. ASSUME pending' = <<>>, link' # "off", ~past'.missed
            PROVE  Settled'
        <3>1. link = "live"
          BY <2>1, <2>6 DEF TypeOK
        <3>2. Len(pending) = 1
          BY <2>3, <2>6
        <3>3. Head(pending).on = fog /\ Cloud(Head(pending))
          BY <2>3, <2>4, <3>2 DEF Cloud
        <3>4. queue' = Append(queue, Head(pending)) /\ Head(pending) \in Frames
          BY <2>1, <2>3, <3>1 DEF Publish, Frames
        <3>5. QED
          BY <2>1, <3>3, <3>4, AppendSettled
      <2>7. QED
        BY <2>5, <2>6 DEF Clouds
    <1>4. CASE Greet
      <2>1. queue' = <<Snapshot(fog)>> /\ fog' = fog /\ pending' = pending
        BY <1>4 DEF Greet, weather
      <2>2. 1 \in DOMAIN queue' /\ \A j \in DOMAIN queue' : ~(j > 1)
        BY <2>1
      <2>3. Cloud(queue'[1]) /\ queue'[1].on = fog'
        BY <2>1 DEF Snapshot, Cloud
      <2>4. Settled'
        BY <2>2, <2>3 DEF Settled, Cloud
      <2>5. QED
        BY <2>1, <2>4 DEF Clouds
    <1>5. CASE Receive
      <2>1. pending' = pending /\ link' = link /\ past' = past /\ fog' = fog
        BY <1>5 DEF Receive, weather
      <2>2. QED
        BY <1>5, <2>1, ReceiveSettled DEF Clouds
    <1>6. CASE Drop
      BY <1>6 DEF Drop, Disconnect, weather, Clouds
    <1>7. CASE Crash
      BY <1>7 DEF Crash, Disconnect, Clouds
    <1>8. CASE /\ UNCHANGED <<fog, pending, queue, pane>> /\ past'.missed = past.missed
               /\ (link' = "off") = (link = "off")
      BY <1>8 DEF Clouds, Settled
    <1>9. ASSUME NEW m \in Messages, Ask(m)
          PROVE  Clouds'
      BY <1>8, <1>9 DEF Ask, weather, wire
    <1>10. ASSUME NEW note \in Notes, DeleteNote(note)
           PROVE  Clouds'
      BY <1>8, <1>10 DEF DeleteNote, weather, wire, TypeOK, Pasts
    <1>11. CASE Subscribe \/ Launch \/ UNCHANGED vars
      BY <1>8, <1>11 DEF Subscribe, Launch, vars, weather, wire
    <1>12. QED
      BY <1>1, <1>2, <1>3, <1>4, <1>5, <1>6, <1>7, <1>9, <1>10, <1>11 DEF Next

-----------------------------------------------------------------------------
(* The theorems.                                                           *)

IInv ==
    /\ TypeOK /\ Locked /\ Held /\ NotesRemembered
    /\ Ordered /\ Silent /\ RepliesUnmixed /\ Clouds

LEMMA Initially == Init => IInv
    <1> SUFFICES ASSUME Init
                 PROVE  IInv
      OBVIOUS
    <1>1. TypeOK
      <2>1. turn \in [Messages -> Turns]
        BY AtType DEF Init, Stages
      <2>2. pane \in Panes /\ past \in Pasts
        BY DEF Init, EmptyPane, Panes, NoPast, Pasts
      <2>3. line \in Seq(Messages) /\ queue \in Seq(Frames)
            /\ pending \in Seq([t : {"fog"}, on : BOOLEAN])
        BY DEF Init
      <2>4. QED
        BY <2>1, <2>2, <2>3 DEF Init, EmptyPane, TypeOK
    <1>2. Locked /\ Held /\ NotesRemembered
      BY DEF Init, Locked, Held, NotesRemembered, Active, At
    <1>3. Ordered /\ Silent /\ RepliesUnmixed
      BY DEF Init, EmptyPane, Ordered, Silent, RepliesUnmixed, Begun
    <1>4. Clouds
      BY DEF Init, Clouds
    <1>5. QED
      BY <1>1, <1>2, <1>3, <1>4 DEF IInv

\* No other step disturbs what any of the parts says.
LEMMA Inductive == IInv /\ [Next]_vars => IInv'
    <1> SUFFICES ASSUME IInv, [Next]_vars
                 PROVE  IInv'
      OBVIOUS
    <1>1. Ordered' /\ Silent' /\ RepliesUnmixed'
      BY TalkStep DEF IInv
    <1>2. TypeOK'
      BY <1>1, TypeStep DEF IInv, Silent, Typed, TypeOK
    <1>3. QED
      BY <1>1, <1>2, LockStep, HeldStep, NotesStep, FogStep DEF IInv

LEMMA Always == Spec => []IInv
    BY Initially, Inductive, PTL DEF Spec

\* Whatever the Keeper, the model and the page do, every variable keeps its
\* type; a bubble of the page never outlives its connection (resetStreamingChat).
THEOREM TypeCorrect == Spec => []TypeOK
    <1>1. IInv => TypeOK
      BY DEF IInv
    <1>2. QED
      BY <1>1, Always, PTL

\* For any number of overlapping messages and broken connections, a bubble of
\* the page holds the frames of at most one reply whose handle did not raise
\* (MateChat._lock, applyChatDelta).
THEOREM RepliesNeverMix == Spec => []RepliesUnmixed
    <1>1. IInv => RepliesUnmixed
      BY DEF IInv
    <1>2. QED
      BY <1>1, Always, PTL

\* For any number of notes, whoever files, extends or deletes them, a note is
\* without its memory only while that is written or after an exception or a crash
\* (dispatch_note_call, _remember_note_action).
THEOREM NotesAreRemembered == Spec => []NotesRemembered
    <1>1. IInv => NotesRemembered
      BY DEF IInv
    <1>2. QED
      BY <1>1, Always, PTL

\* For any number of outages and connections, a page that has every frame shows
\* the fog of the server, save for the gap before its subscription
\* (make_outage_handler, websocket_endpoint).
THEOREM FogIsResynced == Spec => []FogResyncs
    <1>1. IInv => FogResyncs
      BY DEF IInv, Clouds, FogResyncs, Settled
    <1>2. QED
      BY <1>1, Always, PTL

-----------------------------------------------------------------------------
(* The line.                                                               *)

\* Before its chat_done, and after it.
Early == {"recall", "tools", "note", "stream", "file"}
Late == {"summary", "keep", "score"}

\* The line is the messages under way, each once; only its head is at work.
InLine ==
    /\ \A i, j \in DOMAIN line : line[i] = line[j] => i = j
    /\ \A i \in DOMAIN line :
          turn[line[i]].stage \in IF i = 1 THEN Early \cup Late ELSE {"waiting"}
    /\ \A m \in Messages : turn[m].stage \notin {"new", "over"} =>
          \E i \in DOMAIN line : line[i] = m

\* Who has its chat_done by when.
Accounts ==
    \A m \in Messages :
        /\ m \in past.answered => turn[m].stage \in Late \cup {"over"}
        /\ turn[m].stage \in Late => m \in past.answered
        /\ m \in past.failed => turn[m].stage = "over" /\ m \notin past.answered
        /\ turn[m].stage = "over" => m \in past.answered \cup past.failed \cup past.dropped

\* A message that waits is in the line, behind one that is at work; one that is
\* over has its answer, or raised before it, and not both, or died with the
\* process.
NobodyForgotten ==
    \A m \in Messages :
        /\ turn[m].stage = "waiting" =>
              /\ line # <<>> /\ turn[line[1]].stage \in Early \cup Late
              /\ \E i \in DOMAIN line : i > 1 /\ line[i] = m
        /\ turn[m].stage = "over" => m \in past.answered \cup past.failed \cup past.dropped
        /\ m \notin past.answered \cap past.failed

\* A chat_done is sent for the message at the head of the line, and once.
AnsweredInTurn ==
    [][\A m \in Messages :
          m \in past'.answered \ past.answered \/ queue' = Append(queue, Done(m)) =>
             line # <<>> /\ line[1] = m /\ m \notin past.answered]_vars

\* What a step of a message does to the line and to the answers.
LEMMA StepAnswers ==
    ASSUME TypeOK, NEW m \in Messages, Step(m)
    PROVE  /\ past'.dropped = past.dropped
           /\ \/ Release(m) \/ /\ line' = line
                               /\ \A n \in Messages \ {m} : turn'[n] = turn[n]
                               /\ turn'[m].stage \in Early \cup Late
           /\ \/ /\ past'.answered = past.answered \cup {m} /\ past'.failed = past.failed
                 /\ turn[m].stage \in Early
                 /\ turn'[m].stage \in Late \cup {"over"}
              \/ /\ past'.answered = past.answered /\ past'.failed = past.failed
                 /\ turn[m].stage \in Early /\ turn'[m].stage \in Early
                 /\ \A n \in Messages : queue' # Append(queue, Done(n))
              \/ /\ past'.answered = past.answered /\ past'.failed = past.failed \cup {m}
                 /\ turn[m].stage \in Early /\ turn'[m].stage = "over"
                 /\ queue' = queue
              \/ /\ past'.answered = past.answered /\ past'.failed = past.failed
                 /\ turn[m].stage \in Late /\ turn'[m].stage \in Late \cup {"over"}
                 /\ queue' = queue
    <1>1. turn \in [Messages -> Turns] /\ past \in Pasts
      BY DEF TypeOK
    <1>2. Answers(m) => /\ past'.answered = past.answered \cup {m}
                        /\ past'.failed = past.failed /\ past'.dropped = past.dropped
      BY <1>1 DEF Answers, Pasts
    <1>3. \A n \in Messages : queue # Append(queue, Done(n))
      <2>1. queue \in Seq(Frames) /\ \A n \in Messages : Done(n) \in Frames
        BY FrameTypes DEF TypeOK
      <2>2. \A n \in Messages : Len(Append(queue, Done(n))) = Len(queue) + 1
        BY <2>1
      <2>3. Len(queue) \in Nat
        BY <2>1
      <2>4. QED
        BY <2>2, <2>3
    <1>4. Release(m) => turn'[m].stage = "over"
      BY DEF Release, At
    <1>5. CASE Refused(m) \/ Skipped(m)
      BY <1>2, <1>4, <1>5 DEF Refused, Skipped, Calling, In, Early, Late
    <1>6. CASE Ends(m)
      BY <1>4, <1>6 DEF Ends, Early, Late, wire
    <1>7. CASE Replied(m) \/ Filed(m)
      <2>1. /\ turn'[m].stage = "summary" /\ turn[m].stage \in {"stream", "file"}
            /\ \A n \in Messages \ {m} : turn'[n] = turn[n]
            /\ line' = line /\ Answers(m)
        BY <1>1, <1>7 DEF Replied, Filed, Goto, In, Turns
      <2>2. QED
        BY <1>2, <2>1 DEF Early, Late
    <1>8. CASE SendDelta(m)
      <2>1. /\ turn'[m].stage = "stream" /\ turn[m].stage = "stream"
            /\ \A n \in Messages \ {m} : turn'[n] = turn[n]
            /\ line' = line /\ past' = past
        BY <1>1, <1>8 DEF SendDelta, In, Turns
      <2>2. \A n \in Messages : queue' # Append(queue, Done(n))
        <3>1. CASE queue' = queue
          BY <1>3, <3>1
        <3>2. CASE queue' = Append(queue, Delta(m))
          <4>1. queue'[Len(queue) + 1] = Delta(m)
            BY <3>2, FrameTypes, QueueAppend
          <4>2. ASSUME NEW n \in Messages, queue' = Append(queue, Done(n))
                PROVE  FALSE
            <5>1. queue'[Len(queue) + 1] = Done(n)
              BY <4>2, FrameTypes, QueueAppend
            <5>2. Delta(m).t = "delta" /\ Done(n).t = "done"
              BY DEF Delta, Done
            <5>3. QED
              BY <4>1, <5>1, <5>2
          <4>3. QED
            BY <4>2
        <3>3. QED
          BY <1>8, <3>1, <3>2 DEF SendDelta, Publish
      <2>3. QED
        BY <2>1, <2>2 DEF Early, Late
    <1>9. CASE Recalled(m) \/ OpenStream(m)
      <2>1. /\ turn'[m].stage \in {"tools", "stream"}
            /\ turn[m].stage \in {"recall", "tools", "note"}
            /\ \A n \in Messages \ {m} : turn'[n] = turn[n]
            /\ line' = line /\ past' = past /\ queue' = queue
        BY <1>1, <1>9 DEF Recalled, OpenStream, Goto, Calling, In, Turns, wire
      <2>2. QED
        BY <1>3, <2>1 DEF Early, Late
    <1>10. CASE Summarise(m)
      <2>1. /\ turn'[m].stage \in {"keep", "score"} /\ turn[m].stage \in {"summary", "keep"}
            /\ \A n \in Messages \ {m} : turn'[n] = turn[n]
            /\ line' = line /\ past' = past /\ queue' = queue
        BY <1>1, <1>10 DEF Summarise, Goto, NextStage, Turns, wire
      <2>2. QED
        BY <2>1 DEF Early, Late
    <1>11. ASSUME NEW note \in Notes, NoteCall(m, note) \/ FileReport(m, note)
           PROVE  /\ turn'[m].stage \in {"note", "file"}
                  /\ turn[m].stage \in {"tools", "note", "stream"}
                  /\ \A n \in Messages \ {m} : turn'[n] = turn[n]
                  /\ line' = line /\ past' = past /\ queue' = queue
      BY <1>1, <1>11 DEF NoteCall, FileReport, Calling, In, Turns, wire
    <1>12. CASE \E note \in Notes : NoteCall(m, note) \/ FileReport(m, note)
      BY <1>3, <1>11, <1>12 DEF Early, Late
    <1>13. CASE Raises(m) \/ Untold(m)
      <2>1. /\ turn[m].stage \in Early /\ Release(m) /\ queue' = queue
            /\ past'.answered = past.answered /\ past'.failed = past.failed \cup {m}
            /\ past'.dropped = past.dropped
        BY <1>1, <1>13 DEF Raises, Untold, Fails, Early, wire, Pasts
      <2>2. QED
        BY <1>4, <2>1
    <1>14. QED
      BY <1>5, <1>6, <1>7, <1>8, <1>9, <1>10, <1>12, <1>13 DEF Step

LEMMA LineFacts ==
    ASSUME TypeOK
    PROVE  /\ line \in Seq(Messages) /\ Len(line) \in Nat /\ DOMAIN line = 1 .. Len(line)
           /\ \A i \in DOMAIN line : line[i] \in Messages
    BY DEF TypeOK

\* A message joins the end of the line, and starts if it is alone there.
LEMMA AskInLine ==
    ASSUME TypeOK, InLine, NEW m \in Messages, Ask(m)
    PROVE  InLine'
    <1> DEFINE last == Len(line) + 1
    <1>1. /\ Len(line) \in Nat /\ DOMAIN line = 1 .. Len(line)
          /\ \A i \in DOMAIN line : line[i] \in Messages
      BY LineFacts
    <1>2. /\ DOMAIN line' = 1 .. last /\ line'[last] = m
          /\ \A i \in DOMAIN line : line'[i] = line[i]
      <2>1. line \in Seq(Messages) /\ line' = Append(line, m)
        BY LineFacts DEF Ask
      <2>2. QED
        BY <2>1
    <1>3. \A i \in DOMAIN line : line[i] # m
      <2>1. turn[m].stage = "new"
        BY DEF Ask
      <2>2. QED
        BY <2>1 DEF InLine, Early, Late
    <1>4. \A n \in Messages \ {m} : turn'[n] = turn[n]
      BY DEF Ask, TypeOK
    <1>5. turn'[m].stage = IF last = 1 THEN "recall" ELSE "waiting"
      <2>1. line = <<>> <=> Len(line) = 0
        BY LineFacts
      <2>2. QED
        BY <1>1, <2>1 DEF Ask, At, TypeOK
    <1>6. ASSUME NEW i \in DOMAIN line'
          PROVE  \/ i = last /\ line'[i] = m
                 \/ i \in DOMAIN line /\ i < last /\ line'[i] = line[i] /\ line[i] # m
      BY <1>1, <1>2, <1>3
    <1>7. \A i, j \in DOMAIN line' : line'[i] = line'[j] => i = j
      BY <1>6 DEF InLine
    <1>8. ASSUME NEW i \in DOMAIN line'
          PROVE  turn'[line'[i]].stage \in IF i = 1 THEN Early \cup Late ELSE {"waiting"}
      <2>1. CASE i = last
        BY <1>5, <1>6, <2>1 DEF Early
      <2>2. CASE i # last
        BY <1>1, <1>4, <1>6, <2>2 DEF InLine
      <2>3. QED
        BY <2>1, <2>2
    <1>9. ASSUME NEW n \in Messages, turn'[n].stage \notin {"new", "over"}
          PROVE  \E i \in DOMAIN line' : line'[i] = n
      <2>1. CASE n = m
        BY <1>1, <1>2, <2>1
      <2>2. CASE n # m
        <3>1. PICK i \in DOMAIN line : line[i] = n
          BY <1>4, <1>9, <2>2 DEF InLine
        <3>2. i \in DOMAIN line' /\ line'[i] = n
          BY <1>1, <1>2, <3>1
        <3>3. QED
          BY <3>2
      <2>3. QED
        BY <2>1, <2>2
    <1>10. QED
      BY <1>7, <1>8, <1>9 DEF InLine

\* The head leaves the line, and the next one starts.
LEMMA ReleaseInLine ==
    ASSUME TypeOK, InLine, NEW m \in Messages, line # <<>>, line[1] = m, Release(m)
    PROVE  InLine'
    <1>1. /\ Len(line) \in Nat /\ DOMAIN line = 1 .. Len(line)
          /\ \A i \in DOMAIN line : line[i] \in Messages
      BY LineFacts
    <1>2. Len(line) >= 1
      BY <1>1, LineFacts
    <1>3. /\ DOMAIN line' = 1 .. Len(line) - 1
          /\ \A i \in 1 .. Len(line) - 1 : line'[i] = line[i + 1]
      <2>1. line \in Seq(Messages) /\ line' = Tail(line)
        BY LineFacts DEF Release
      <2>2. /\ Len(Tail(line)) = Len(line) - 1 /\ Tail(line) \in Seq(Messages)
            /\ \A i \in 1 .. Len(Tail(line)) : Tail(line)[i] = line[i + 1]
        BY <2>1, HeadTailProperties
      <2>3. DOMAIN Tail(line) = 1 .. Len(Tail(line))
        BY <2>2
      <2>4. QED
        BY <2>1, <2>2, <2>3
    <1>4. ASSUME NEW i \in DOMAIN line'
          PROVE  /\ i \in Nat /\ i + 1 \in DOMAIN line /\ line'[i] = line[i + 1]
                 /\ line[i + 1] # m /\ line[i + 1] \in Messages
                 /\ turn[line[i + 1]].stage = "waiting"
      <2>1. i \in Nat /\ i + 1 \in DOMAIN line /\ line'[i] = line[i + 1] /\ i + 1 # 1
        BY <1>1, <1>3
      <2>2. 1 \in DOMAIN line
        BY <1>1, <1>2
      <2>3. QED
        BY <1>1, <2>1, <2>2 DEF InLine
    <1>5. \A i, j \in DOMAIN line' : line'[i] = line'[j] => i = j
      <2>1. ASSUME NEW i \in DOMAIN line', NEW j \in DOMAIN line', line'[i] = line'[j]
            PROVE  i = j
        <3>1. i + 1 = j + 1 /\ i \in Nat /\ j \in Nat
          BY <1>4, <2>1 DEF InLine
        <3>2. QED
          BY <3>1
      <2>2. QED
        BY <2>1
    <1>6. ASSUME NEW i \in DOMAIN line'
          PROVE  turn'[line'[i]].stage \in IF i = 1 THEN Early \cup Late ELSE {"waiting"}
      <2>1. CASE i = 1
        <3>1. Len(line) > 1 /\ line'[i] = line[2] /\ line[2] # m /\ line[2] \in Messages
          BY <1>1, <1>4, <2>1
        <3>2. turn'[line[2]] = At("recall")
          BY <3>1 DEF Release
        <3>3. QED
          BY <2>1, <3>1, <3>2 DEF At, Early
      <2>2. CASE i # 1
        <3>1. line'[i] # line[2]
          <4>1. i + 1 # 2 /\ i + 1 \in DOMAIN line /\ 2 \in DOMAIN line
            BY <1>1, <1>3, <1>4, <2>2
          <4>2. QED
            BY <1>4, <4>1 DEF InLine
        <3>2. turn'[line'[i]] = turn[line'[i]]
          BY <1>4, <3>1 DEF Release
        <3>3. QED
          BY <1>4, <2>2, <3>2
      <2>3. QED
        BY <2>1, <2>2
    <1>7. ASSUME NEW n \in Messages, turn'[n].stage \notin {"new", "over"}
          PROVE  \E i \in DOMAIN line' : line'[i] = n
      <2>1. n # m
        BY <1>7 DEF Release, At
      <2>2. \E i \in DOMAIN line : line[i] = n
        <3>1. CASE turn'[n] = turn[n]
          BY <1>7, <3>1 DEF InLine
        <3>2. CASE Len(line) > 1 /\ n = line[2]
          BY <1>1, <3>2
        <3>3. QED
          BY <2>1, <3>1, <3>2 DEF Release
      <2>3. PICK i \in DOMAIN line : line[i] = n
        BY <2>2
      <2>4. i # 1
        BY <2>1, <2>3
      <2>5. i - 1 \in 1 .. Len(line) - 1 /\ (i - 1) + 1 = i
        BY <1>1, <2>3, <2>4
      <2>6. line'[i - 1] = n
        BY <1>3, <2>3, <2>5
      <2>7. QED
        BY <1>3, <2>5, <2>6
    <1>8. QED
      BY <1>5, <1>6, <1>7 DEF InLine

LEMMA InLineStep ==
    ASSUME IInv, InLine, [Next]_vars
    PROVE  InLine'
    <1> TypeOK /\ Locked
      BY DEF IInv
    <1>1. ASSUME NEW m \in Messages, Ask(m)
          PROVE  InLine'
      BY <1>1, AskInLine
    <1>2. ASSUME NEW m \in Messages, Step(m)
          PROVE  InLine'
      <2>1. line # <<>> /\ line[1] = m
        BY <1>2, StepHolder
      <2>2. CASE /\ line' = line /\ \A n \in Messages \ {m} : turn'[n] = turn[n]
                 /\ turn'[m].stage \in Early \cup Late
        <3>1. 1 \in DOMAIN line /\ \A i \in DOMAIN line : line[i] \in Messages
          BY <2>1, LineFacts
        <3>2. \A i \in DOMAIN line : line[i] = m => i = 1
          BY <2>1, <3>1 DEF InLine
        <3>3. \A i \in DOMAIN line :
                 turn'[line[i]].stage \in IF i = 1 THEN Early \cup Late ELSE {"waiting"}
          BY <2>1, <2>2, <3>1, <3>2 DEF InLine
        <3>4. \A n \in Messages : turn'[n].stage \notin {"new", "over"} =>
                 \E i \in DOMAIN line : line[i] = n
          BY <2>1, <2>2, <3>1 DEF InLine
        <3>5. QED
          BY <2>2, <3>3, <3>4 DEF InLine
      <2>3. CASE Release(m)
        BY <2>1, <2>3, ReleaseInLine
      <2>4. QED
        BY <1>2, <2>2, <2>3, StepAnswers
    <1>3. CASE Crash
      <2>1. DOMAIN line' = {} /\ \A n \in Messages : turn'[n].stage \in {"new", "over"}
        BY <1>3 DEF Crash, At
      <2>2. QED
        BY <2>1 DEF InLine
    <1>4. CASE UNCHANGED <<line, turn>>
      BY <1>4 DEF InLine
    <1>5. QED
      BY <1>1, <1>2, <1>3, <1>4
      DEF Next, DeleteNote, FogChanges, PublishFog, Greet, Subscribe, Receive, Drop, Launch,
          vars, chat

LEMMA AccountsStep ==
    ASSUME IInv, InLine, Accounts, [Next]_vars
    PROVE  Accounts'
    <1> TypeOK /\ Locked
      BY DEF IInv
    <1>1. turn \in [Messages -> Turns] /\ past \in Pasts
      BY DEF TypeOK
    <1>2. ASSUME NEW m \in Messages, Ask(m)
          PROVE  Accounts'
      <2>1. /\ past' = past /\ turn[m].stage = "new" /\ turn'[m].stage \in {"recall", "waiting"}
            /\ \A n \in Messages \ {m} : turn'[n] = turn[n]
        BY <1>1, <1>2 DEF Ask, At
      <2>2. QED
        BY <2>1 DEF Accounts, Late
    <1>3. ASSUME NEW m \in Messages, Step(m)
          PROVE  Accounts'
      <2>1. \A n \in Messages \ {m} : turn[n].stage \notin Early \cup Late
        BY <1>3, StepHolder DEF Active, Early, Late
      <2>2. \A n \in Messages \ {m} : \/ turn'[n] = turn[n]
                                      \/ turn'[n] = At("recall") /\ turn[n].stage = "waiting"
        <3>1. CASE Release(m)
          <4>1. ASSUME NEW n \in Messages \ {m}, Len(line) > 1, n = line[2]
                PROVE  turn[n].stage = "waiting"
            BY <4>1, LineFacts DEF InLine
          <4>2. QED
            BY <3>1, <4>1 DEF Release
        <3>2. QED
          BY <1>3, <3>1, StepAnswers
      <2>3. /\ past'.dropped = past.dropped
            /\ past'.answered \in {past.answered, past.answered \cup {m}}
            /\ past'.failed \in {past.failed, past.failed \cup {m}}
        BY <1>3, StepAnswers
      <2>4. ASSUME NEW n \in Messages \ {m}
            PROVE  /\ n \in past'.answered => turn'[n].stage \in Late \cup {"over"}
                   /\ turn'[n].stage \in Late => n \in past'.answered
                   /\ n \in past'.failed => turn'[n].stage = "over" /\ n \notin past'.answered
                   /\ turn'[n].stage = "over" =>
                         n \in past'.answered \cup past'.failed \cup past'.dropped
        <3>1. /\ n \in past'.answered <=> n \in past.answered
              /\ n \in past'.failed <=> n \in past.failed
          BY <2>3
        <3>2. CASE turn'[n] = turn[n]
          BY <2>3, <3>1, <3>2 DEF Accounts
        <3>3. CASE turn'[n] = At("recall") /\ turn[n].stage = "waiting"
          BY <3>1, <3>3 DEF Accounts, At, Late
        <3>4. QED
          BY <2>2, <3>2, <3>3
      <2>5. /\ m \in past'.answered => turn'[m].stage \in Late \cup {"over"}
            /\ turn'[m].stage \in Late => m \in past'.answered
            /\ m \in past'.failed => turn'[m].stage = "over" /\ m \notin past'.answered
            /\ turn'[m].stage = "over" =>
                  m \in past'.answered \cup past'.failed \cup past'.dropped
        BY <1>3, StepAnswers DEF Accounts, Early, Late
      <2>6. QED
        BY <2>4, <2>5 DEF Accounts
    <1>4. CASE Crash
      <2>1. /\ past'.answered = past.answered /\ past'.failed = past.failed
            /\ past'.dropped = past.dropped
                 \cup {m \in Messages : turn[m].stage \notin {"new", "over"}}
            /\ \A m \in Messages :
                 turn'[m] = IF turn[m].stage = "new" THEN turn[m] ELSE At("over")
        BY <1>1, <1>4 DEF Crash, Pasts
      <2>2. QED
        BY <2>1 DEF Accounts, At, Late
    <1>5. CASE /\ turn' = turn
               /\ past'.answered = past.answered /\ past'.failed = past.failed
               /\ past'.dropped = past.dropped
      BY <1>5 DEF Accounts
    <1>6. QED
      BY <1>1, <1>2, <1>3, <1>4, <1>5
      DEF Next, DeleteNote, FogChanges, PublishFog, Greet, Subscribe, Receive, Drop, Launch,
          vars, chat, Pasts

LEMMA LineExact == Spec => [](InLine /\ Accounts)
    <1>1. Init => InLine /\ Accounts
      BY DEF Init, InLine, Accounts, At, NoPast, Late
    <1>2. IInv /\ InLine /\ Accounts /\ [Next]_vars => (InLine /\ Accounts)'
      BY InLineStep, AccountsStep
    <1>3. QED
      BY <1>1, <1>2, Always, PTL DEF Spec

\* Whatever raises, a message that waits has somebody at work before it, and none
\* is over without its answer unless its own handle raised or the process died:
\* the safety half of EveryMessageSettled (MateChat.handle, _handle_locked).
THEOREM NobodyIsForgotten == Spec => []NobodyForgotten
    <1>1. IInv /\ InLine /\ Accounts => NobodyForgotten
      <2> SUFFICES ASSUME IInv, InLine, Accounts, NEW m \in Messages
                   PROVE  /\ turn[m].stage = "waiting" =>
                                /\ line # <<>> /\ turn[line[1]].stage \in Early \cup Late
                                /\ \E i \in DOMAIN line : i > 1 /\ line[i] = m
                          /\ turn[m].stage = "over" =>
                                m \in past.answered \cup past.failed \cup past.dropped
                          /\ m \notin past.answered \cap past.failed
        BY DEF NobodyForgotten
      <2>1. ASSUME turn[m].stage = "waiting"
            PROVE  /\ line # <<>> /\ turn[line[1]].stage \in Early \cup Late
                   /\ \E i \in DOMAIN line : i > 1 /\ line[i] = m
        <3>1. PICK i \in DOMAIN line : line[i] = m
          BY <2>1 DEF InLine
        <3>2. i \in Nat /\ i >= 1 /\ 1 \in DOMAIN line /\ line # <<>>
          BY <3>1, LineFacts DEF IInv
        <3>3. turn[line[1]].stage \in Early \cup Late
          BY <3>2 DEF InLine
        <3>4. i # 1
          BY <2>1, <3>1, <3>3 DEF Early, Late
        <3>5. QED
          BY <3>1, <3>2, <3>3, <3>4
      <2>2. QED
        BY <2>1 DEF Accounts
    <1>2. QED
      BY <1>1, Always, LineExact, PTL

\* The Mate answers in the order it was asked, and each message once, although
\* replies are sent from several places of _handle_locked.
THEOREM AnswersComeInTurn == Spec => AnsweredInTurn
    <1>1. ASSUME IInv, Accounts, [Next]_vars
          PROVE  [\A m \in Messages :
                    m \in past'.answered \ past.answered \/ queue' = Append(queue, Done(m)) =>
                       line # <<>> /\ line[1] = m /\ m \notin past.answered]_vars
      <2> SUFFICES ASSUME Next, NEW m \in Messages,
                          m \in past'.answered \ past.answered \/ queue' = Append(queue, Done(m))
                   PROVE  line # <<>> /\ line[1] = m /\ m \notin past.answered
        BY <1>1
      <2> TypeOK /\ Locked
        BY <1>1 DEF IInv
      <2>1. past \in Pasts /\ queue \in Seq(Frames) /\ Len(queue) \in Nat
        BY DEF TypeOK
      <2>2. \A frame \in Frames : Len(Append(queue, frame)) = Len(queue) + 1
        BY <2>1
      <2>3. Done(m) \in Frames
        BY FrameTypes
      <2>4. ASSUME NEW n \in Messages, Step(n)
            PROVE  line # <<>> /\ line[1] = m /\ m \notin past.answered
        <3>1. line # <<>> /\ line[1] = n
          BY <2>4, StepHolder
        <3>2. turn[n].stage \in Early /\ past'.answered = past.answered \cup {n}
          <4>1. queue # Append(queue, Done(m))
            BY <2>1, <2>2, <2>3
          <4>2. QED
            BY <2>4, <4>1, StepAnswers
        <3>3. n \notin past.answered
          BY <1>1, <3>2 DEF Accounts, Early, Late
        <3>4. CASE m = n
          BY <3>1, <3>3, <3>4
        <3>5. CASE m # n
          <4>1. queue' = Append(queue, Done(m))
            BY <3>2, <3>5
          <4>2. Publish(Delta(n)) \/ Publish(Done(n)) \/ queue' = queue
            BY <2>4, StepTalk
          <4>3. Delta(n) \in Frames /\ Done(n) \in Frames
            BY FrameTypes
          <4>4. PICK frame \in {Delta(n), Done(n)} : queue' = Append(queue, frame)
            BY <2>1, <2>2, <2>3, <4>1, <4>2 DEF Publish
          <4>5. queue'[Len(queue) + 1] = frame /\ queue'[Len(queue) + 1] = Done(m)
            BY <2>3, <4>1, <4>3, <4>4, QueueAppend
          <4>6. QED
            BY <3>5, <4>5 DEF Delta, Done
        <3>6. QED
          BY <3>4, <3>5
      <2>5. ASSUME \/ \E n \in Messages : Ask(n)
                   \/ \E note \in Notes : DeleteNote(note)
                   \/ FogChanges \/ Subscribe \/ Launch
            PROVE  queue' = queue /\ past'.answered = past.answered
        BY <2>1, <2>5 DEF Ask, DeleteNote, FogChanges, Subscribe, Launch, chat, weather, wire,
                          Pasts
      <2>6. CASE PublishFog
        <3>1. past'.answered = past.answered
          BY <2>1, <2>6 DEF PublishFog, Pasts
        <3>2. Head(pending) \in [t : {"fog"}, on : BOOLEAN]
          BY <2>6, SeqFacts DEF PublishFog, TypeOK
        <3>3. Head(pending) \in Frames /\ Head(pending).t = "fog"
          BY <3>2 DEF Frames
        <3>4. queue' = Append(queue, Done(m))
          BY <3>1
        <3>5. queue' = Append(queue, Head(pending))
          BY <2>1, <2>2, <2>3, <2>6, <3>4 DEF PublishFog, Publish
        <3>6. queue'[Len(queue) + 1] = Head(pending) /\ queue'[Len(queue) + 1] = Done(m)
          BY <2>3, <3>3, <3>4, <3>5, QueueAppend
        <3>7. QED
          BY <3>3, <3>6 DEF Done
      <2>7. CASE Greet
        <3>1. past'.answered = past.answered
          BY <2>1, <2>7 DEF Greet, Pasts
        <3>2. queue' = <<Snapshot(fog)>> /\ queue' = Append(queue, Done(m))
          BY <2>7, <3>1 DEF Greet
        <3>3. Len(queue') = 1 /\ Len(queue') = Len(queue) + 1
          BY <2>2, <2>3, <3>2
        <3>4. queue'[1] = Done(m)
          BY <2>1, <2>3, <3>2, <3>3, QueueAppend
        <3>5. Snapshot(fog) = Done(m)
          BY <3>2, <3>4
        <3>6. QED
          BY <3>5 DEF Snapshot, Done
      <2>8. CASE Receive
        <3>1. past'.answered = past.answered /\ queue # <<>> /\ queue' = Tail(queue)
          BY <2>8 DEF Receive
        <3>2. Len(queue') = Len(queue) - 1
          BY <3>1, QueueTail
        <3>3. queue' = Append(queue, Done(m))
          BY <3>1
        <3>4. Len(queue') = Len(queue) + 1
          BY <2>2, <2>3, <3>3
        <3>5. Len(queue) + 1 # Len(queue) - 1
          BY <2>1
        <3>6. QED
          BY <3>2, <3>4, <3>5
      <2>9. CASE Drop \/ Crash
        <3>1. past'.answered = past.answered /\ queue' = <<>>
          BY <2>1, <2>9 DEF Drop, Crash, Disconnect, Pasts
        <3>2. queue' = Append(queue, Done(m))
          BY <3>1
        <3>3. Len(queue') = Len(queue) + 1
          BY <2>2, <2>3, <3>2
        <3>4. Len(queue') = 0
          BY <3>1
        <3>5. Len(queue) + 1 # 0
          BY <2>1
        <3>6. QED
          BY <3>3, <3>4, <3>5
      <2>10. queue # Append(queue, Done(m))
        BY <2>1, <2>2, <2>3
      <2>11. QED
        BY <2>4, <2>5, <2>6, <2>7, <2>8, <2>9, <2>10 DEF Next
    <1>2. QED
      BY <1>1, Always, LineExact, PTL DEF Spec, AnsweredInTurn
=============================================================================
