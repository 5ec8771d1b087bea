------------------------------ MODULE MateLine ------------------------------
(***************************************************************************)
(* The line to the Mate: the messages of the Keeper in MateChat of         *)
(* mate/chat.py, the notes it files (mate/notes.py), and the way of every  *)
(* frame to the page: the queue of server/state.py, the connection of      *)
(* server/ws.py and net.js, the chat pane and the fog line of bridge.js.   *)
(*                                                                         *)
(* A message waits for the lock of MateChat, then goes through the stages  *)
(* between the awaits of _handle_locked.  Publishing never waits: the      *)
(* queues have no limit.  What is in the socket is part of the queue.  The *)
(* search flavour, the unread dots and the text of replies are left out;   *)
(* what becomes of the memory of an exchange is in MemoryStore.            *)
(***************************************************************************)
EXTENDS Integers, Sequences, FiniteSets

CONSTANTS Messages,   \* messages of the Keeper, each sent once
          Titles,     \* titles of notes that differ as slugs
          MaxCalls,   \* bound: note calls of one tool round
          MaxDeltas,  \* bound: deltas of one reply
          MaxCopies,  \* bound: notes with the same slug
          MaxFlips,   \* bound: changes of the outage state
          MaxLinks,   \* bound: connections of the page
          MaxCrashes  \* bound: crashes of the process

ASSUME BoundsAssumption ==
    /\ MaxCalls \in Nat /\ MaxDeltas \in Nat /\ MaxCopies \in Nat
    /\ MaxFlips \in Nat /\ MaxLinks \in Nat /\ MaxCrashes \in Nat

VARIABLES
    up,         \* the process runs
    line,       \* who holds the lock of MateChat, then who waits for it
    turn,       \* how far each message is
    notes,      \* notes on file
    remembered, \* those of them a memory of the Mate tells of
    fog,        \* fog_active of the simulation
    pending,    \* fog frames whose publishing task has not run
    link,       \* the connection: "off", "greeted" or "live"
    queue,      \* frames on their way to the page
    pane,       \* what the page shows
    past        \* history, see Init

chat == <<line, turn, notes, remembered>>
weather == <<fog, pending>>
wire == <<link, queue>>
vars == <<up, chat, weather, wire, pane, past>>

Notes == Titles \X (1 .. MaxCopies)
Stages == {"new", "waiting", "recall", "tools", "note", "stream", "file", "summary",
           "keep", "score", "over"}

\* calls: note calls the tool round may still hold; deltas: sent so far; note:
\* at most one note whose memory is being written.
Turns == [stage : Stages, calls : Nat, deltas : Nat, note : SUBSET Notes]
At(stage) == [stage |-> stage, calls |-> MaxCalls, deltas |-> 0, note |-> {}]

Delta(m) == [t |-> "delta", of |-> m]
Done(m) == [t |-> "done", of |-> m]
Fog(on) == [t |-> "fog", on |-> on]
Snapshot(on) == [t |-> "snapshot", on |-> on]
ChatFrames == [t : {"delta", "done"}, of : Messages]
Frames == ChatFrames \cup [t : {"fog", "snapshot"}, on : BOOLEAN]

\* bubble: the messages whose reply went into the open bubble, empty without
\* one; shown: the same of the closed bubbles.
EmptyPane == [bubble |-> {}, shown |-> {}, fog |-> FALSE]
Panes == [bubble : SUBSET Messages, shown : SUBSET SUBSET Messages, fog : BOOLEAN]

\* answered: messages whose chat_done was published; failed: messages whose
\* handle raised before that; dropped: messages cut off by a crash; orphans:
\* notes an exception or a crash left without their memory; missed: the page
\* was greeted, and not live, when the last fog frame was published.
NoPast == [answered |-> {}, failed |-> {}, dropped |-> {}, orphans |-> {},
           missed |-> FALSE, flips |-> 0, links |-> 0, crashes |-> 0]
Pasts == [answered : SUBSET Messages, failed : SUBSET Messages,
          dropped : SUBSET Messages, orphans : SUBSET Notes,
          missed : BOOLEAN, flips : Nat, links : Nat, crashes : Nat]

Init ==
    /\ up = TRUE
    /\ line = <<>>
    /\ turn = [m \in Messages |-> At("new")]
    /\ notes = {} /\ remembered = {}
    /\ fog = FALSE /\ pending = <<>>
    /\ link = "off" /\ queue = <<>>
    /\ pane = EmptyPane
    /\ past = NoPast

\* Broadcaster.publish to the page, if it has subscribed.
Publish(frame) == queue' = IF link = "live" THEN Append(queue, frame) ELSE queue

-----------------------------------------------------------------------------
(* The lock.                                                               *)

\* Mutant: no lock, every message starts at once.
AskUnlocked(m) ==
    /\ up /\ turn[m].stage = "new"
    /\ line' = Append(line, m)
    /\ turn' = [turn EXCEPT ![m] = At("recall")]
    /\ UNCHANGED <<up, notes, remembered, weather, wire, pane, past>>

\* POST /api/chat: handle takes the lock or waits in line for it.
Ask(m) ==
    /\ up /\ turn[m].stage = "new"
    /\ line' = Append(line, m)
    /\ turn' = [turn EXCEPT ![m] = At(IF line = <<>> THEN "recall" ELSE "waiting")]
    /\ UNCHANGED <<up, notes, remembered, weather, wire, pane, past>>

\* handle ends, also by an exception: the next in line starts.
Release(m) ==
    /\ line' = Tail(line)
    /\ turn' = [other \in Messages |->
                   IF other = m THEN At("over")
                   ELSE IF Len(line) > 1 /\ other = line[2] THEN At("recall")
                   ELSE turn[other]]

In(m, stage) == turn[m].stage = stage
Goto(m, stage) == turn' = [turn EXCEPT ![m].stage = stage]

-----------------------------------------------------------------------------
(* One message.                                                            *)

\* Memories are retrieved, with or without the embedding of the message.
Recalled(m) ==
    /\ In(m, "recall") /\ Goto(m, "tools")
    /\ UNCHANGED <<up, line, notes, remembered, weather, wire, pane, past>>

\* The memory that was being written about a note is stored; the note may be
\* gone by now.
Told(m) == remembered \cup (turn[m].note \cap notes)

\* NotesStore.create: the slug of the title with the first free suffix.
IsFree(note) ==
    /\ note \notin notes
    /\ \A copy \in 1 .. note[2] - 1 : <<note[1], copy>> \in notes

\* Between two calls of the tool round.
Calling(m) == In(m, "tools") \/ In(m, "note")

\* A call of the tool round files a note or appends to one on file, and the
\* memory of that is awaited.  Calls that are rejected, name a note that is
\* not there, or only read, change nothing and await nothing; a call that
\* raises anything else is in Raises.
NoteCall(m, note) ==
    /\ Calling(m) /\ turn[m].calls > 0
    /\ note \in notes \/ IsFree(note)
    /\ notes' = notes \cup {note}
    /\ remembered' = Told(m)
    /\ turn' = [turn EXCEPT ![m].stage = "note", ![m].calls = @ - 1, ![m].note = {note}]
    /\ UNCHANGED <<up, line, weather, wire, pane, past>>

\* The tool round is over and the reply is asked for.
OpenStream(m) ==
    /\ Calling(m)
    /\ remembered' = Told(m)
    /\ turn' = [turn EXCEPT ![m].stage = "stream", ![m].note = {}]
    /\ UNCHANGED <<up, line, notes, weather, wire, pane, past>>

Answers(m) == past' = [past EXCEPT !.answered = @ \cup {m}]

\* LLMCallError or BudgetExceededError, the two that are caught: the fallback
\* line is the answer.
Refused(m) ==
    /\ Calling(m)
    /\ remembered' = Told(m)
    /\ Publish(Done(m)) /\ Answers(m)
    /\ Release(m)
    /\ UNCHANGED <<up, notes, weather, link, pane>>

SendDelta(m) ==
    /\ In(m, "stream") /\ turn[m].deltas < MaxDeltas
    /\ Publish(Delta(m))
    /\ turn' = [turn EXCEPT ![m].deltas = @ + 1]
    /\ UNCHANGED <<up, line, notes, remembered, weather, link, pane, past>>

\* The stream is skipped, breaks off after some deltas with an error the client
\* maps, or holds no text: an empty answer, and no summary.
Skipped(m) ==
    /\ In(m, "stream")
    /\ Publish(Done(m)) /\ Answers(m)
    /\ Release(m)
    /\ UNCHANGED <<up, notes, remembered, weather, link, pane>>

\* A reply of at most WORD_THRESHOLD words.
Replied(m) ==
    /\ In(m, "stream") /\ turn[m].deltas > 0
    /\ Publish(Done(m)) /\ Answers(m)
    /\ Goto(m, "summary")
    /\ UNCHANGED <<up, line, notes, remembered, weather, link, pane>>

\* A longer one is filed under the title of the request, outside the try; the
\* note may also be left half written, when the memory of it is not (Untold).
FileReport(m, note) ==
    /\ In(m, "stream") /\ turn[m].deltas > 0
    /\ IsFree(note)
    /\ notes' = notes \cup {note}
    /\ turn' = [turn EXCEPT ![m].stage = "file", ![m].note = {note}]
    /\ UNCHANGED <<up, line, remembered, weather, wire, pane, past>>

\* Mutant: the report is not remembered.
FiledForgotten(m) ==
    /\ In(m, "file")
    /\ Publish(Done(m)) /\ Answers(m)
    /\ turn' = [turn EXCEPT ![m].stage = "summary", ![m].note = {}]
    /\ UNCHANGED <<up, line, notes, remembered, weather, link, pane>>

Filed(m) ==
    /\ In(m, "file")
    /\ remembered' = Told(m)
    /\ Publish(Done(m)) /\ Answers(m)
    /\ turn' = [turn EXCEPT ![m].stage = "summary", ![m].note = {}]
    /\ UNCHANGED <<up, line, notes, weather, link, pane>>

\* handle ends by an exception before the chat_done: nothing tells the page, and
\* a bubble that is open stays open.
Fails(m, told) ==
    /\ remembered' = told
    /\ past' = [past EXCEPT !.failed = @ \cup {m},
                            !.orphans = @ \cup ((turn[m].note \cap notes) \ told)]
    /\ Release(m)
    /\ UNCHANGED <<up, notes, weather, wire, pane>>

\* Mutant: the lock is let go only at the end of a handle that returns.
RaisesHoldingLock(m) ==
    /\ turn[m].stage \in {"recall", "tools", "note", "stream"}
    /\ remembered' = Told(m)
    /\ past' = [past EXCEPT !.failed = @ \cup {m}]
    /\ turn' = [turn EXCEPT ![m] = At("over")]
    /\ UNCHANGED <<up, line, notes, weather, wire, pane>>

\* The retrieval raises, which is before the try; a note call does with another
\* exception than a rejection (arguments that are no object, a file that cannot
\* be written); the client lets through what it does not map; or the file of the
\* report cannot be written.
Raises(m) ==
    /\ turn[m].stage \in {"recall", "tools", "note", "stream"}
    /\ Fails(m, Told(m))

\* The insertion of the memory of a note raises, in the tool round or for the
\* report: the note stays without it.
Untold(m) ==
    /\ turn[m].stage \in {"note", "file"}
    /\ Fails(m, remembered)

\* The summary is asked for, its memory embedded and stored, then scored.
NextStage == [summary |-> "keep", keep |-> "score"]
Summarise(m) ==
    /\ turn[m].stage \in DOMAIN NextStage
    /\ Goto(m, NextStage[turn[m].stage])
    /\ UNCHANGED <<up, line, notes, remembered, weather, wire, pane, past>>

\* There is no summary, one of the calls raises, or all is done.
Ends(m) ==
    /\ turn[m].stage \in {"summary", "keep", "score"}
    /\ Release(m)
    /\ UNCHANGED <<up, notes, remembered, weather, wire, pane, past>>

Step(m) ==
    \/ Recalled(m) \/ OpenStream(m) \/ Refused(m)
    \/ SendDelta(m) \/ Skipped(m) \/ Replied(m) \/ Filed(m)
    \/ Raises(m) \/ Untold(m)
    \/ Summarise(m) \/ Ends(m)
    \/ \E note \in Notes : NoteCall(m, note) \/ FileReport(m, note)

\* DELETE /api/notes: the Keeper's, at any time.
DeleteNote(note) ==
    /\ up /\ note \in notes
    /\ notes' = notes \ {note}
    /\ remembered' = remembered \ {note}
    /\ past' = [past EXCEPT !.orphans = @ \ {note}]
    /\ UNCHANGED <<up, line, turn, weather, wire, pane>>

-----------------------------------------------------------------------------
(* The outage and the page.                                                *)

\* on_change of the outage handler; the frame is published by a task.
FogChanges ==
    /\ up /\ past.flips < MaxFlips
    /\ fog' = ~fog
    /\ pending' = Append(pending, Fog(fog'))
    /\ past' = [past EXCEPT !.flips = @ + 1]
    /\ UNCHANGED <<up, chat, wire, pane>>

PublishFog ==
    /\ pending # <<>>
    /\ pending' = Tail(pending)
    /\ Publish(Head(pending))
    /\ past' = [past EXCEPT !.missed = IF link = "off" THEN @ ELSE link = "greeted"]
    /\ UNCHANGED <<up, chat, fog, link, pane>>

\* Mutant: the snapshot knows nothing of the fog.
GreetBare ==
    /\ up /\ link = "off" /\ past.links < MaxLinks
    /\ link' = "greeted"
    /\ queue' = <<>>
    /\ past' = [past EXCEPT !.links = @ + 1, !.missed = FALSE]
    /\ UNCHANGED <<up, chat, weather, pane>>

\* The page connects and the snapshot is built; sending it and the clock frame
\* is awaited before the page is subscribed.
Greet ==
    /\ up /\ link = "off" /\ past.links < MaxLinks
    /\ link' = "greeted"
    /\ queue' = <<Snapshot(fog)>>
    /\ past' = [past EXCEPT !.links = @ + 1, !.missed = FALSE]
    /\ UNCHANGED <<up, chat, weather, pane>>

Subscribe ==
    /\ link = "greeted"
    /\ link' = "live"
    /\ UNCHANGED <<up, chat, weather, queue, pane, past>>

\* applyChatDelta, applyChatDone, applyStateFrame and applyDegradedSnapshot.
Shows(frame) ==
    CASE frame.t = "delta" -> [pane EXCEPT !.bubble = @ \cup {frame.of}]
      [] frame.t = "done" /\ pane.bubble # {} ->
            [pane EXCEPT !.bubble = {}, !.shown = @ \cup {pane.bubble \cup {frame.of}}]
      [] frame.t = "done" /\ pane.bubble = {} -> pane
      [] frame.t \in {"fog", "snapshot"} -> [pane EXCEPT !.fog = frame.on]

Receive ==
    /\ queue # <<>>
    /\ queue' = Tail(queue)
    /\ pane' = Shows(Head(queue))
    /\ UNCHANGED <<up, chat, weather, link, past>>

\* Mutant: the bubble stays open for the next connection.
CutNothing == pane

\* resetStreamingChat: the text received so far stays.
CutBubble ==
    IF pane.bubble = {} THEN pane
    ELSE [pane EXCEPT !.bubble = {}, !.shown = @ \cup {pane.bubble}]

Disconnect ==
    /\ link' = "off" /\ queue' = <<>>
    /\ pane' = CutBubble

Drop ==
    /\ link # "off"
    /\ Disconnect
    /\ UNCHANGED <<up, chat, weather, past>>

\* The process dies; notes and memories are on disk.
Unwritten == notes \cap UNION {turn[m].note : m \in Messages}
Crash ==
    /\ up /\ past.crashes < MaxCrashes
    /\ up' = FALSE
    /\ line' = <<>>
    /\ turn' = [m \in Messages |-> IF turn[m].stage = "new" THEN turn[m] ELSE At("over")]
    /\ fog' = FALSE /\ pending' = <<>>
    /\ Disconnect
    /\ past' = [past EXCEPT
                    !.crashes = @ + 1,
                    !.dropped = @ \cup {m \in Messages : turn[m].stage \notin {"new", "over"}},
                    !.orphans = @ \cup (Unwritten \ remembered)]
    /\ UNCHANGED <<notes, remembered>>

Launch ==
    /\ ~up
    /\ up' = TRUE
    /\ UNCHANGED <<chat, weather, wire, pane, past>>

Next ==
    \/ \E m \in Messages : Ask(m) \/ Step(m)
    \/ \E note \in Notes : DeleteNote(note)
    \/ FogChanges \/ PublishFog
    \/ Greet \/ Subscribe \/ Receive \/ Drop
    \/ Crash \/ Launch

\* The model answers or fails every call (CallsEnd of LlmGateway), a reply has
\* an end, and the loop runs what is ready; whether it raises is left open.  The
\* Keeper and the page need not do anything.
Fairness == \A m \in Messages : WF_vars(Step(m))

Spec == Init /\ [][Next]_vars
FairSpec == Spec /\ Fairness

-----------------------------------------------------------------------------
(* Properties.                                                             *)

\* The messages, notes, frames and the page keep their types; a bubble is open
\* only on a page that is connected (resetStreamingChat).
TypeOK ==
    /\ up \in BOOLEAN
    /\ line \in Seq(Messages)
    /\ turn \in [Messages -> Turns]
    /\ notes \subseteq Notes /\ remembered \subseteq notes
    /\ fog \in BOOLEAN /\ pending \in Seq([t : {"fog"}, on : BOOLEAN])
    /\ link \in {"off", "greeted", "live"} /\ queue \in Seq(Frames)
    /\ pane \in Panes
    /\ past \in Pasts
    /\ pane.bubble # {} => link = "live"

\* No bubble of the page mixes two replies, whatever messages overlap and
\* wherever the connection breaks, except for a reply whose handle raised: its
\* bubble is not closed, and the next reply goes into it and replaces its text.
\* The frames have no request id; it is the lock that keeps replies apart
\* (MateChat._lock, resetStreamingChat, applyChatDelta).
RepliesUnmixed ==
    \A bubble \in pane.shown \cup {pane.bubble} :
        \A m, n \in bubble \ past.failed : m = n

\* Every note on file has its memory, or the turn that filed it is writing it,
\* or an exception or a crash came in between (_remember_note_action).
NotesRemembered ==
    \A note \in notes \ remembered :
        \/ \E m \in Messages : note \in turn[m].note
        \/ note \in past.orphans

\* When every frame has arrived, a connected page shows the fog of the server,
\* unless the last change fell between its snapshot and its subscription
\* (websocket_endpoint, applyDegradedSnapshot).
FogResyncs ==
    link = "live" /\ queue = <<>> /\ pending = <<>> /\ ~past.missed => pane.fog = fog

\* No message waits for ever, whatever raises in the messages before it: each
\* gets its chat_done, or its own handle raises, or the process dies.  That the
\* Mate always answers (mate/chat.py) does not hold: the except clause of
\* _handle_locked names two exceptions, and Raises is a step of any other.
EveryMessageSettled ==
    \A m \in Messages : turn[m].stage # "new" ~>
        m \in past.answered \cup past.failed \cup past.dropped
=============================================================================
