--------------------------- MODULE Launches_proofs ---------------------------
(***************************************************************************)
(* Theorems about Launches, for any thresholds, deltas, batches and bounds. *)
(***************************************************************************)
EXTENDS Launches, FiniteSetTheorems, TLAPS

Active == boot.stage \in {"ask", "tell"}

\* A batch under way is a report or a summary, and a row being told has an event.
Shape ==
    /\ Active => boot.batch # "none"
    /\ Telling => boot.left # <<>>

\* Reports up to now are about absences up to the last shutdown; those about the
\* last one come from this launch or from one that crashed.
Reports ==
    /\ \A i \in Rows : LET row == world.rows[i] IN
          /\ row.launch <= launches
          /\ row.batch = "absence" =>
               /\ row.since <= world.stopped /\ row.since < now
               /\ row.since = world.stopped =>
                    row.launch \in past.crashed \/ (Up /\ row.launch = launches)
    /\ Active /\ boot.batch = "absence" => boot.since = world.stopped /\ boot.since < now

\* A summary is marked, cut off, or being told; the next one is due by the mark.
Summaries ==
    /\ \A i \in Rows : LET row == world.rows[i] IN
          row.batch = "weekly" /\ row.launch \notin past.cut =>
             \/ row.asked <= world.week
             \/ /\ Telling /\ boot.batch = "weekly"
                /\ row.launch = launches /\ row.asked = boot.day
    /\ Active /\ boot.batch = "weekly" => boot.day >= world.week + Interval

\* The clock is ahead of the rows, but for those of before a crash.
Ahead(day) ==
    \A i \in Rows : world.rows[i].day > day =>
        \E l \in past.crashed :
            world.rows[i].launch <= l /\ l <= launches /\ (Up => l < launches)
Clock ==
    /\ Ahead(IF Up THEN today ELSE world.day)
    /\ Telling => Ahead(boot.date) /\ boot.date <= today

\* After a clean end the file holds the world.
Closed == ~Up /\ past.clean /\ file # "none" => file = "whole"

-----------------------------------------------------------------------------
(* Types.                                                                  *)

LEMMA ClampType ==
    ASSUME NEW s \in Int
    PROVE  Clamp(s) \in -ScoreMax .. ScoreMax
    BY LedgerAssumption DEF Clamp

LEMMA HeadTail ==
    ASSUME NEW S, NEW s \in Seq(S), s # <<>>
    PROVE  Head(s) \in S /\ Tail(s) \in Seq(S)
    OBVIOUS

LEMMA BondedType ==
    ASSUME TypeOK, Telling, Shape
    PROVE  /\ Bonded(world) \in Worlds
           /\ Bonded(world).rows = world.rows /\ Bonded(world).week = world.week
           /\ Bonded(world).day = world.day /\ Bonded(world).stopped = world.stopped
           /\ Head(boot.left) \in BOOLEAN /\ Tail(boot.left) \in Seq(BOOLEAN)
    <1>1. boot.left \in Seq(BOOLEAN) /\ boot.left # <<>>
      BY DEF TypeOK, Shape
    <1>2. Head(boot.left) \in BOOLEAN /\ Tail(boot.left) \in Seq(BOOLEAN)
      BY <1>1, HeadTail
    <1>3. world.score + Delta \in Int
      BY LedgerAssumption DEF TypeOK, Worlds
    <1>4. Clamp(world.score + Delta) \in -ScoreMax .. ScoreMax
      BY <1>3, ClampType
    <1>5. QED
      BY <1>2, <1>4 DEF Bonded, TypeOK, Worlds

\* What a step of a batch does: another row, or the end of the batch.
Inserted(events) ==
    /\ world'.rows = Append(world.rows, Row(Head(events))) /\ world'.week = world.week
    /\ boot'.stage = "tell" /\ boot'.batch = boot.batch /\ boot'.since = boot.since
    /\ boot'.day = boot.day /\ boot'.date = Date /\ boot'.left = events
    /\ events # <<>>
Ended ==
    /\ world'.rows = world.rows
    /\ \/ boot.batch = "absence" /\ world'.week = world.week /\ boot' = WeeklySummary
       \/ boot.batch = "weekly" /\ world'.week = boot.day /\ boot' = Rest

LEMMA ContinueStep ==
    ASSUME TypeOK, Shape, Active, NEW w \in Worlds,
           w.rows = world.rows, w.week = world.week, w.day = world.day,
           w.stopped = world.stopped, NEW events \in Seq(BOOLEAN), Continue(w, events)
    PROVE  /\ world' \in Worlds
           /\ world'.day = world.day /\ world'.stopped = world.stopped
           /\ Inserted(events) \/ Ended
    <1>1. boot.batch \in {"absence", "weekly"} /\ boot.day \in Nat /\ boot.since \in Nat
      BY DEF TypeOK, Shape
    <1>2. CASE events = <<>>
      <2>1. Finish(w)
        BY <1>2 DEF Continue
      <2>2. CASE boot.batch = "absence"
        BY <2>1, <2>2 DEF Finish, Ended
      <2>3. CASE boot.batch = "weekly"
        BY <2>1, <2>3, <1>1 DEF Finish, Ended, Worlds
      <2>4. QED
        BY <1>1, <2>2, <2>3
    <1>3. CASE events # <<>>
      <2>1. Tell(w, events)
        BY <1>3 DEF Continue
      <2>2. Head(events) \in BOOLEAN
        BY <1>3, HeadTail
      <2>3. Date \in Nat /\ launches \in Nat
        BY DEF Date, TypeOK
      <2>4. Row(Head(events)) \in Events
        BY <1>1, <2>2, <2>3 DEF Row, Events
      <2>5. Append(w.rows, Row(Head(events))) \in Seq(Events)
        BY <2>4 DEF Worlds
      <2>6. world' \in Worlds /\ world'.rows = Append(world.rows, Row(Head(events)))
            /\ world'.week = world.week
            /\ world'.day = world.day /\ world'.stopped = world.stopped
        BY <2>1, <2>5 DEF Tell, Worlds
      <2>7. boot' = [boot EXCEPT !.stage = "tell", !.date = Date, !.left = events]
        BY <2>1 DEF Tell
      <2>8. boot'.stage = "tell" /\ boot'.batch = boot.batch /\ boot'.since = boot.since
            /\ boot'.day = boot.day /\ boot'.date = Date /\ boot'.left = events
        BY <2>7 DEF TypeOK
      <2>9. QED
        BY <2>6, <2>8, <1>3 DEF Inserted
    <1>4. QED
      BY <1>2, <1>3

Boots == [stage : {"down", "start", "ask", "tell", "run"}, weekly : BOOLEAN,
          batch : {"none", "absence", "weekly"}, since : Nat, day : Nat,
          date : Nat, left : Seq(BOOLEAN)]

LEMMA BootTypes ==
    ASSUME TypeOK
    PROVE  /\ Down \in Boots /\ Rest \in Boots /\ WeeklySummary \in Boots
           /\ Asking("absence", world.stopped, 0) \in Boots
           /\ \A weekly \in BOOLEAN :
                 [Down EXCEPT !.stage = "start", !.weekly = weekly] \in Boots
    <1>1. <<>> \in Seq(BOOLEAN)
      OBVIOUS
    <1>2. Down \in Boots /\ Rest \in Boots
      BY <1>1 DEF Down, Rest, Boots
    <1>3. today \in Nat /\ world.stopped \in Nat /\ boot.weekly \in BOOLEAN
      BY DEF TypeOK, Worlds
    <1>4. \A batch \in {"absence", "weekly"}, since \in Nat, day \in Nat :
             Asking(batch, since, day) \in Boots
      BY <1>1, <1>3 DEF Asking, Down, Boots
    <1>5. WeeklySummary \in Boots /\ Asking("absence", world.stopped, 0) \in Boots
      BY <1>2, <1>3, <1>4 DEF WeeklySummary
    <1>6. \A weekly \in BOOLEAN :
             [Down EXCEPT !.stage = "start", !.weekly = weekly] \in Boots
      BY <1>1 DEF Down, Boots
    <1>7. QED
      BY <1>2, <1>5, <1>6

\* The shape of what waits after a step that does not tell a row.
LEMMA BootShapes ==
    /\ Down.stage = "down" /\ Rest.stage = "run"
    /\ \/ WeeklySummary = Rest
       \/ /\ WeeklySummary.stage = "ask" /\ WeeklySummary.batch = "weekly"
          /\ WeeklySummary.day = today /\ WeeklyDue
    /\ \A since, day : /\ Asking("absence", since, day).stage = "ask"
                       /\ Asking("absence", since, day).batch = "absence"
                       /\ Asking("absence", since, day).since = since
    BY DEF Down, Rest, WeeklySummary, Asking

-----------------------------------------------------------------------------
(* The kinds of steps.  Each property is shown for the six kinds.          *)

same == <<launches, now, today>>

\* Boot and BootFails.
Opened ==
    /\ ~Up /\ launches' = launches + 1 /\ now' = now
    /\ \/ world' = Blank /\ past'.cut = {} /\ past'.crashed = {}
       \/ world' = world /\ past'.cut = past.cut /\ past'.crashed = past.crashed
    /\ \/ boot'.stage = "start" /\ today' = world'.day
       \/ boot'.stage = "down"

\* Answered and Told.
Went ==
    /\ Active /\ \E events \in Seq(BOOLEAN) : Inserted(events) \/ Ended
    /\ world'.day = world.day /\ world'.stopped = world.stopped
    /\ past'.cut = past.cut /\ past'.crashed = past.crashed
    /\ UNCHANGED same

\* Stop, and the ways to die.
Halted ==
    /\ Up /\ boot' = Down
    /\ world'.rows = world.rows /\ world'.week = world.week
    /\ past'.cut = Cut
    /\ \/ world'.day = today /\ world'.stopped = now /\ past'.crashed = past.crashed
       \/ world'.stopped = world.stopped /\ past'.crashed = past.crashed \cup {launches}
    /\ UNCHANGED same

\* Conversation, Checkpoint, NewDay, TimePasses.
Quiet ==
    /\ boot' = boot /\ launches' = launches
    /\ world'.rows = world.rows /\ world'.week = world.week
    /\ world'.day = world.day /\ world'.stopped = world.stopped
    /\ past'.cut = past.cut /\ past'.crashed = past.crashed
    /\ now' >= now /\ today' >= today

Kinds ==
    \/ Opened \/ Begin \/ Went \/ Failed \/ Halted \/ Quiet

Pasts == [bonds : Nat, cut : SUBSET Nat, crashed : SUBSET Nat, clean : BOOLEAN]

LEMMA BlankType == Blank \in Worlds /\ Blank.rows = <<>> /\ Blank.day = 1
    BY LedgerAssumption DEF Blank, Worlds

LEMMA NewestType ==
    ASSUME NEW S, NEW b \in Seq(S)
    PROVE  /\ Newest(b) \in Seq(S)
           /\ b # <<>> => Newest(b) # <<>> /\ Newest(b)[Len(Newest(b))] = b[Len(b)]
    <1>1. CASE Len(b) <= Keep
      BY <1>1 DEF Newest
    <1>2. CASE ~(Len(b) <= Keep)
      <2> DEFINE from == Len(b) - Keep + 1
      <2>1. from \in 1 .. Len(b) /\ Len(b) \in Nat /\ Newest(b) = SubSeq(b, from, Len(b))
        BY <1>2, LogbookAssumption DEF Newest
      <2>2. Len(Newest(b)) = Keep /\ Newest(b)[Keep] = b[Len(b)] /\ Newest(b) \in Seq(S)
        BY <2>1, LogbookAssumption
      <2>3. QED
        BY <2>2, LogbookAssumption
    <1>3. QED
      BY <1>1, <1>2

LEMMA OpenStep ==
    ASSUME TypeOK, NEW fresh \in BOOLEAN, Open(fresh),
           (\E weekly \in BOOLEAN : Boot(fresh, weekly)) \/ BootFails(fresh)
    PROVE  TypeOK' /\ Opened
    <1>1. world' \in Worlds /\ world'.day \in Nat
      BY BlankType DEF Open, TypeOK, Worlds
    <1>2. PastOf(fresh) \in Pasts
      <2>1. NoPast \in Pasts
        BY DEF NoPast, Pasts
      <2>2. past \in Pasts
        BY DEF TypeOK, Pasts
      <2>3. QED
        BY <2>1, <2>2 DEF PastOf
    <1>3. past' = PastOf(fresh) \/ past' = [PastOf(fresh) EXCEPT !.clean = TRUE]
      BY DEF Boot, BootFails
    <1>4. past' \in Pasts /\ past'.cut = PastOf(fresh).cut
          /\ past'.crashed = PastOf(fresh).crashed
      BY <1>2, <1>3 DEF Pasts
    <1>5. archives' \in Seq({"behind", "whole"})
      <2>1. CASE file = "none"
        BY <2>1 DEF Open, TypeOK
      <2>2. CASE file # "none"
        <3>1. Append(archives, file) \in Seq({"behind", "whole"})
          BY <2>2 DEF TypeOK
        <3>2. QED
          BY <2>2, <3>1, NewestType DEF Open
      <2>3. QED
        BY <2>1, <2>2
    <1>6. now' \in Nat /\ launches' \in Nat
      BY DEF Open, TypeOK
    <1>7. ASSUME NEW weekly \in BOOLEAN, Boot(fresh, weekly)
          PROVE  boot' \in Boots /\ today' = world'.day /\ boot'.stage = "start"
                 /\ file' \in {"none", "behind", "whole"}
      BY <1>7, BootTypes DEF Boot, Down, TypeOK
    <1>8. ASSUME BootFails(fresh)
          PROVE  boot' \in Boots /\ boot'.stage = "down" /\ file' = "whole" /\ today' = today
      BY <1>8 DEF BootFails, Open, TypeOK, Boots
    <1>9. \/ boot'.stage = "start" /\ today' = world'.day
          \/ boot'.stage = "down" /\ today' = today
      <2>1. ASSUME NEW weekly \in BOOLEAN, Boot(fresh, weekly)
            PROVE  boot'.stage = "start" /\ today' = world'.day
        BY <2>1, <1>7
      <2>2. CASE BootFails(fresh)
        BY <2>2, <1>8
      <2>3. QED
        BY <2>1, <2>2
    <1>10. boot' \in Boots /\ file' \in {"none", "behind", "whole"}
      BY <1>7, <1>8 DEF BootFails, Open, TypeOK, Boots
    <1>11. TypeOK'
      BY <1>1, <1>4, <1>5, <1>6, <1>9, <1>10 DEF TypeOK, Boots, Pasts
    <1>12. \/ world' = Blank /\ past'.cut = {} /\ past'.crashed = {}
           \/ world' = world /\ past'.cut = past.cut /\ past'.crashed = past.crashed
      <2>1. NoPast.cut = {} /\ NoPast.crashed = {}
        BY DEF NoPast
      <2>2. \/ world' = Blank /\ PastOf(fresh) = NoPast
            \/ world' = world /\ PastOf(fresh) = past
        BY Zenon DEF Open, PastOf
      <2>3. QED
        BY <2>1, <2>2, <1>4
    <1>13. QED
      BY <1>11, <1>12, <1>9 DEF Opened, Open, Up

LEMMA StepKinds ==
    ASSUME TypeOK, Shape, Next
    PROVE  TypeOK' /\ Kinds
    <1>1. ASSUME NEW fresh \in BOOLEAN,
                 BootFails(fresh) \/ \E weekly \in BOOLEAN : Boot(fresh, weekly)
          PROVE  TypeOK' /\ Kinds
      <2>1. Open(fresh)
        BY <1>1 DEF Boot, BootFails
      <2>2. QED
        BY <1>1, <2>1, OpenStep DEF Kinds
    <1>2. CASE Begin
      <2>1. boot' \in Boots
        BY <1>2, BootTypes DEF Begin
      <2>2. QED
        BY <1>2, <2>1 DEF Begin, TypeOK, Boots, Kinds
    <1>3. ASSUME NEW w \in Worlds, NEW events \in Seq(BOOLEAN), Active, Continue(w, events),
                 w.rows = world.rows, w.week = world.week, w.day = world.day,
                 w.stopped = world.stopped, Commit,
                 past' \in [bonds : Nat, cut : SUBSET Nat, crashed : SUBSET Nat,
                            clean : BOOLEAN],
                 past'.cut = past.cut, past'.crashed = past.crashed,
                 UNCHANGED archives, UNCHANGED same
          PROVE  TypeOK' /\ Kinds
      <2>1. /\ world' \in Worlds /\ world'.day = world.day /\ world'.stopped = world.stopped
            /\ Inserted(events) \/ Ended
        BY <1>3, ContinueStep
      <2>2. file' \in {"none", "behind", "whole"}
        BY <1>3 DEF Commit, TypeOK
      <2>3. boot' \in Boots
        <3>1. CASE events = <<>>
          BY <1>3, <3>1, BootTypes DEF Continue, Finish
        <3>2. CASE events # <<>>
          <4>1. Date \in Nat /\ boot \in Boots
            BY DEF Date, TypeOK, Boots
          <4>2. boot' = [boot EXCEPT !.stage = "tell", !.date = Date, !.left = events]
            BY <1>3, <3>2 DEF Continue, Tell
          <4>3. QED
            BY <1>3, <4>1, <4>2 DEF Boots
        <3>3. QED
          BY <3>1, <3>2
      <2>4. TypeOK'
        BY <1>3, <2>1, <2>2, <2>3 DEF TypeOK, Boots, same
      <2>5. Went
        BY <1>3, <2>1 DEF Went
      <2>6. QED
        BY <2>4, <2>5 DEF Kinds
    <1>4. ASSUME NEW events \in Batches, Answered(events)
          PROVE  TypeOK' /\ Kinds
      <2>1. events \in Seq(BOOLEAN) /\ world \in Worlds
        BY BatchesAssumption DEF TypeOK
      <2>2. past' \in [bonds : Nat, cut : SUBSET Nat, crashed : SUBSET Nat, clean : BOOLEAN]
        BY <1>4 DEF Answered, TypeOK
      <2>3. Active /\ Continue(world, events) /\ Commit /\ UNCHANGED archives /\ UNCHANGED same
            /\ past'.cut = past.cut /\ past'.crashed = past.crashed
        BY <1>4 DEF Answered, Active, same
      <2>4. QED
        BY <2>1, <2>2, <2>3, <1>3
    <1>5. CASE Told
      <2>1. Telling /\ Active
        BY <1>5 DEF Told, Telling, Active
      <2>2. /\ Bonded(world) \in Worlds
            /\ Bonded(world).rows = world.rows /\ Bonded(world).week = world.week
            /\ Bonded(world).day = world.day /\ Bonded(world).stopped = world.stopped
            /\ Tail(boot.left) \in Seq(BOOLEAN)
        BY <2>1, BondedType
      <2>3. past' \in [bonds : Nat, cut : SUBSET Nat, crashed : SUBSET Nat, clean : BOOLEAN]
            /\ past'.cut = past.cut /\ past'.crashed = past.crashed
        <3>1. Bonds \in Nat
          BY DEF Bonds
        <3>2. past' = [past EXCEPT !.bonds = @ + Bonds]
          BY <1>5 DEF Told
        <3>3. past \in Pasts /\ past.bonds + Bonds \in Nat
          BY <3>1 DEF TypeOK, Pasts
        <3>4. QED
          BY <3>2, <3>3 DEF Pasts
      <2>4. Continue(Bonded(world), Tail(boot.left)) /\ Commit /\ UNCHANGED archives
            /\ UNCHANGED same
        BY <1>5 DEF Told, same
      <2>5. QED
        BY <2>1, <2>2, <2>3, <2>4, <1>3
    <1>6. CASE Failed
      <2>1. boot' \in Boots
        BY <1>6, BootTypes DEF Failed
      <2>2. past' \in [bonds : Nat, cut : SUBSET Nat, crashed : SUBSET Nat, clean : BOOLEAN]
        BY <1>6 DEF Failed, TypeOK
      <2>3. QED
        BY <1>6, <2>1, <2>2 DEF Failed, TypeOK, Boots, Kinds
    <1>7. ASSUME NEW delta \in Deltas, Conversation(delta)
          PROVE  TypeOK' /\ Kinds
      <2>1. world.score + delta \in Int
        BY LedgerAssumption DEF TypeOK, Worlds
      <2>2. Clamp(world.score + delta) \in -ScoreMax .. ScoreMax
        BY <2>1, ClampType
      <2>3. world' \in Worlds /\ world'.rows = world.rows /\ world'.week = world.week
            /\ world'.day = world.day /\ world'.stopped = world.stopped
        BY <1>7, <2>2 DEF Conversation, TypeOK, Worlds
      <2>4. TypeOK'
        BY <1>7, <2>3 DEF Conversation, Commit, TypeOK
      <2>5. Quiet
        BY <1>7, <2>3 DEF Conversation, Quiet, TypeOK
      <2>6. QED
        BY <2>4, <2>5 DEF Kinds
    <1>8. CASE Checkpoint \/ NewDay \/ TimePasses
      BY <1>8 DEF Checkpoint, NewDay, TimePasses, TypeOK, Quiet, Kinds
    <1>9. CASE Stop
      <2>1. world' \in Worlds /\ world'.day = today /\ world'.stopped = now
            /\ world'.rows = world.rows /\ world'.week = world.week
        BY <1>9 DEF Stop, TypeOK, Worlds
      <2>2. Cut \in SUBSET Nat
        BY DEF Cut, TypeOK
      <2>3. past' \in [bonds : Nat, cut : SUBSET Nat, crashed : SUBSET Nat, clean : BOOLEAN]
            /\ past'.cut = Cut /\ past'.crashed = past.crashed
        BY <1>9, <2>2 DEF Stop, TypeOK
      <2>4. TypeOK'
        BY <1>9, <2>1, <2>3, BootTypes DEF Stop, TypeOK, Boots
      <2>5. QED
        BY <1>9, <2>1, <2>3, <2>4 DEF Stop, Halted, same, Kinds
    <1>10. ASSUME NEW w \in Worlds, NEW bonds \in Nat, Dies(w, bonds),
                  w.rows = world.rows, w.week = world.week, w.stopped = world.stopped
           PROVE  TypeOK' /\ Kinds
      <2>1. Cut \in SUBSET Nat
        BY DEF Cut, TypeOK
      <2>2. past' \in [bonds : Nat, cut : SUBSET Nat, crashed : SUBSET Nat, clean : BOOLEAN]
            /\ past'.cut = Cut /\ past'.crashed = past.crashed \cup {launches}
        BY <1>10, <2>1 DEF Dies, TypeOK
      <2>3. TypeOK'
        BY <1>10, <2>2, BootTypes DEF Dies, Commit, TypeOK, Boots
      <2>4. QED
        BY <1>10, <2>2, <2>3 DEF Dies, Halted, same, Kinds
    <1>11. CASE Crash \/ CrashWhileStopping
      <2>1. world \in Worlds /\ [world EXCEPT !.day = today] \in Worlds
            /\ [world EXCEPT !.day = today].rows = world.rows
            /\ [world EXCEPT !.day = today].week = world.week
            /\ [world EXCEPT !.day = today].stopped = world.stopped
        BY DEF TypeOK, Worlds
      <2>2. QED
        BY <1>11, <2>1, <1>10 DEF Crash, CrashWhileStopping
    <1>12. CASE CrashAfterBond
      <2>1. Telling /\ Dies(Bonded(world), Bonds) /\ Bonds \in Nat
        BY <1>12 DEF CrashAfterBond, Bonds
      <2>2. QED
        BY <2>1, BondedType, <1>10
    <1>13. QED
      BY <1>1, <1>2, <1>4, <1>5, <1>6, <1>7, <1>8, <1>9, <1>11, <1>12 DEF Next

-----------------------------------------------------------------------------
(* The parts of the invariant.                                             *)

LEMMA RowTypes ==
    ASSUME TypeOK, NEW i \in Rows
    PROVE  /\ world.rows[i] \in Events /\ i \in 1 .. Len(world.rows)
           /\ world.rows[i].launch \in Nat /\ world.rows[i].since \in Nat
           /\ world.rows[i].asked \in Nat /\ world.rows[i].day \in Nat
    <1>1. world.rows \in Seq(Events) /\ i \in DOMAIN world.rows
      BY DEF TypeOK, Worlds, Rows
    <1>2. world.rows[i] \in Events /\ i \in 1 .. Len(world.rows)
      BY <1>1
    <1>3. QED
      BY <1>2 DEF Events

\* The rows after one more.
LEMMA NewRow ==
    ASSUME TypeOK, NEW row, world'.rows = Append(world.rows, row)
    PROVE  /\ Rows' = Rows \cup {Len(world.rows) + 1}
           /\ Len(world.rows) + 1 \notin Rows
           /\ \A i \in Rows : world'.rows[i] = world.rows[i]
           /\ world'.rows[Len(world.rows) + 1] = row
           /\ \A i \in Rows : i < Len(world.rows) + 1
    <1>1. world.rows \in Seq(Events) /\ Len(world.rows) \in Nat
      BY DEF TypeOK, Worlds
    <1>2. DOMAIN Append(world.rows, row) = 1 .. Len(world.rows) + 1
      BY <1>1
    <1>3. QED
      BY <1>1, <1>2 DEF Rows

LEMMA ShapeStep ==
    ASSUME TypeOK, Shape, Kinds
    PROVE  Shape'
    <1>1. CASE Opened
      BY <1>1 DEF Opened, Shape, Active, Telling
    <1>2. CASE Begin
      <2>1. boot'.stage = "ask" => boot'.batch # "none"
        BY <1>2, BootShapes DEF Begin
      <2>2. boot'.stage # "tell"
        BY <1>2, BootShapes DEF Begin
      <2>3. QED
        BY <2>1, <2>2 DEF Shape, Active, Telling
    <1>3. CASE Went
      <2>1. PICK events \in Seq(BOOLEAN) : Inserted(events) \/ Ended
        BY <1>3 DEF Went
      <2>2. CASE Inserted(events)
        BY <1>3, <2>2 DEF Went, Inserted, Shape, Active, Telling
      <2>3. CASE Ended
        BY <2>3, BootShapes DEF Ended, Shape, Active, Telling
      <2>4. QED
        BY <2>1, <2>2, <2>3
    <1>4. CASE Failed \/ Halted
      BY <1>4, BootShapes DEF Failed, Halted, Shape, Active, Telling
    <1>5. CASE Quiet
      BY <1>5 DEF Quiet, Shape, Active, Telling
    <1>6. QED
      BY <1>1, <1>2, <1>3, <1>4, <1>5 DEF Kinds

LEMMA ClosedStep ==
    ASSUME TypeOK, Closed, [Next]_vars
    PROVE  Closed'
    <1>1. ASSUME NEW fresh \in BOOLEAN, NEW weekly \in BOOLEAN, Boot(fresh, weekly)
          PROVE  Closed'
      BY <1>1 DEF Boot, Down, Closed, Up
    <1>2. ASSUME NEW fresh \in BOOLEAN, BootFails(fresh)
          PROVE  Closed'
      BY <1>2 DEF BootFails, Closed
    <1>3. CASE Begin
      BY <1>3, BootShapes DEF Begin, Closed, Up
    <1>4. ASSUME NEW events, boot.stage # "down", NEW w, Continue(w, events)
          PROVE  Closed'
      BY <1>4, BootShapes DEF Continue, Finish, Tell, Closed, Up, TypeOK
    <1>5. ASSUME NEW events \in Batches, Answered(events)
          PROVE  Closed'
      BY <1>4, <1>5 DEF Answered
    <1>6. CASE Told
      BY <1>4, <1>6 DEF Told, Telling
    <1>7. CASE Failed
      BY <1>7, BootShapes DEF Failed, Closed, Up
    <1>8. ASSUME NEW delta \in Deltas, Conversation(delta)
          PROVE  Closed'
      BY <1>8 DEF Conversation, Closed, Up
    <1>9. CASE Checkpoint \/ NewDay \/ TimePasses \/ UNCHANGED vars
      BY <1>9 DEF Checkpoint, NewDay, TimePasses, vars, Closed, Up
    <1>10. CASE Stop
      BY <1>10 DEF Stop, Closed
    <1>11. ASSUME NEW w, NEW bonds, Dies(w, bonds)
           PROVE  Closed'
      BY <1>11 DEF Dies, Closed
    <1>12. QED
      BY <1>1, <1>2, <1>3, <1>5, <1>6, <1>7, <1>8, <1>9, <1>10, <1>11
         DEF Next, Crash, CrashWhileStopping, CrashAfterBond

\* A new row belongs to the launch that runs.
LEMMA RowFields ==
    ASSUME NEW pair
    PROVE  /\ Row(pair).launch = launches /\ Row(pair).batch = boot.batch
           /\ Row(pair).since = boot.since /\ Row(pair).asked = boot.day
           /\ Row(pair).day = Date
    BY DEF Row

LEMMA ReportsStep ==
    ASSUME TypeOK, TypeOK', Shape, Reports, AbsenceToldOnce, Kinds
    PROVE  Reports' /\ AbsenceToldOnce'
    <1>1. ASSUME Rows' = Rows, world'.rows = world.rows, world'.stopped = world.stopped,
                 past.crashed \subseteq past'.crashed, launches' = launches,
                 now' >= now, Up', Active' /\ boot'.batch = "absence" =>
                    boot'.since = world.stopped /\ boot'.since < now
          PROVE  Reports' /\ AbsenceToldOnce'
      <2>1. AbsenceToldOnce'
        BY <1>1 DEF AbsenceToldOnce
      <2>2. \A i \in Rows : world.rows[i].since \in Nat
        BY RowTypes
      <2>3. now \in Nat /\ now' \in Nat /\ boot'.since \in Nat
        BY DEF TypeOK
      <2>4. QED
        BY <1>1, <2>1, <2>2, <2>3 DEF Reports
    <1>2. CASE Opened
      <2>1. launches \in Nat /\ ~Active' /\ ~Up
        BY <1>2 DEF TypeOK, Opened, Active
      <2>2. CASE world' = Blank
        <3>1. Rows' = {}
          BY <2>2, BlankType DEF Rows
        <3>2. QED
          BY <2>1, <3>1 DEF Reports, AbsenceToldOnce
      <2>3. CASE world' = world /\ past'.crashed = past.crashed
        <3>1. Rows' = Rows /\ AbsenceToldOnce'
          BY <2>3 DEF Rows, AbsenceToldOnce
        <3>2. \A i \in Rows : world.rows[i].launch \in Nat
          BY RowTypes
        <3>3. launches' = launches + 1 /\ now' = now /\ world'.rows = world.rows
              /\ world'.stopped = world.stopped
          BY <1>2, <2>3 DEF Opened
        <3>4. \A i \in Rows :
                 /\ world.rows[i].launch <= launches + 1
                 /\ world.rows[i].batch = "absence" =>
                     /\ world.rows[i].since <= world.stopped /\ world.rows[i].since < now
                     /\ world.rows[i].since = world.stopped =>
                          world.rows[i].launch \in past.crashed
          BY <2>1, <3>2 DEF Reports
        <3>5. QED
          BY <2>1, <2>3, <3>1, <3>3, <3>4 DEF Reports, Active
      <2>4. QED
        BY <1>2, <2>2, <2>3 DEF Opened
    <1>3. CASE Begin
      <2>1. CASE AbsenceDue
        <3>1. boot' = Asking("absence", world.stopped, 0)
          BY <1>3, <2>1 DEF Begin
        <3>2. boot'.stage = "ask" /\ boot'.since = world.stopped
          BY <3>1, BootShapes
        <3>3. world.stopped < now
          <4>1. world.stopped \in Nat /\ now \in Nat /\ Away \in Nat \ {0}
            BY LogbookAssumption DEF TypeOK, Worlds
          <4>2. QED
            BY <2>1, <4>1 DEF AbsenceDue
        <3>4. QED
          BY <1>1, <1>3, <3>2, <3>3 DEF Begin, Rows, Up, TypeOK
      <2>2. CASE ~AbsenceDue
        <3>1. boot' = WeeklySummary
          BY <1>3, <2>2 DEF Begin
        <3>2. boot'.stage # "down" /\ (boot'.stage \in {"ask", "tell"} => boot'.batch = "weekly")
          BY <3>1, BootShapes
        <3>3. QED
          BY <1>1, <1>3, <3>2 DEF Begin, Rows, Up, Active, TypeOK
      <2>3. QED
        BY <2>1, <2>2
    <1>4. CASE Went
      <2>1. PICK events \in Seq(BOOLEAN) : Inserted(events) \/ Ended
        BY <1>4 DEF Went
      <2>2. CASE Ended
        <3>1. boot'.stage # "down" /\ (boot'.stage \in {"ask", "tell"} => boot'.batch = "weekly")
          BY <2>2, BootShapes DEF Ended
        <3>2. QED
          BY <1>1, <1>4, <2>2, <3>1 DEF Went, Ended, Rows, Up, Active, TypeOK, same
      <2>3. CASE Inserted(events)
        <3> DEFINE n == Len(world.rows) + 1
                   row == Row(Head(events))
        <3>1. /\ Rows' = Rows \cup {n} /\ n \notin Rows
              /\ \A i \in Rows : world'.rows[i] = world.rows[i]
              /\ world'.rows[n] = row
          BY <2>3, NewRow DEF Inserted
        <3>2. row.launch = launches /\ row.batch = boot.batch /\ row.since = boot.since
          BY RowFields
        <3>3. /\ launches' = launches /\ now' = now /\ past'.crashed = past.crashed
              /\ world'.stopped = world.stopped /\ Active /\ Up'
              /\ boot'.batch = boot.batch /\ boot'.since = boot.since
          BY <1>4, <2>3 DEF Went, Inserted, Up, same
        <3>4. boot.batch = "absence" => boot.since = world.stopped /\ boot.since < now
          BY <3>3 DEF Reports
        <3>5. launches \in Nat /\ world.stopped \in Nat
              /\ \A i \in Rows : world.rows[i].launch \in Nat
          BY RowTypes DEF TypeOK, Worlds
        <3> HIDE DEF n, row
        <3>6. Reports'
          <4>1. \A i \in Rows' :
                   /\ world'.rows[i].launch <= launches'
                   /\ world'.rows[i].batch = "absence" =>
                       /\ world'.rows[i].since <= world'.stopped
                       /\ world'.rows[i].since < now'
                       /\ world'.rows[i].since = world'.stopped =>
                            world'.rows[i].launch \in past'.crashed
                              \/ (Up' /\ world'.rows[i].launch = launches')
            <5>1. ASSUME NEW i \in Rows
                  PROVE  /\ world.rows[i].launch <= launches
                         /\ world.rows[i].batch = "absence" =>
                             /\ world.rows[i].since <= world.stopped
                             /\ world.rows[i].since < now
                             /\ world.rows[i].since = world.stopped =>
                                  world.rows[i].launch \in past.crashed
                                    \/ world.rows[i].launch = launches
              BY DEF Reports
            <5>2. QED
              <6>1. ASSUME NEW i \in Rows
                    PROVE  /\ world'.rows[i].launch <= launches'
                           /\ world'.rows[i].batch = "absence" =>
                               /\ world'.rows[i].since <= world'.stopped
                               /\ world'.rows[i].since < now'
                               /\ world'.rows[i].since = world'.stopped =>
                                    world'.rows[i].launch \in past'.crashed
                                      \/ (Up' /\ world'.rows[i].launch = launches')
                <7>1. world'.rows[i] = world.rows[i]
                  BY <3>1
                <7>2. world'.rows[i].launch <= launches'
                  BY <5>1, <7>1, <3>3
                <7>3. ASSUME world.rows[i].batch = "absence"
                      PROVE  /\ world'.rows[i].since <= world'.stopped
                             /\ world'.rows[i].since < now'
                  BY <5>1, <7>1, <7>3, <3>3
                <7>4. ASSUME world.rows[i].batch = "absence",
                             world.rows[i].since = world.stopped
                      PROVE  world.rows[i].launch \in past.crashed
                                \/ world.rows[i].launch = launches
                  BY <5>1, <7>4
                <7>5. QED
                  BY <7>1, <7>2, <7>3, <7>4, <3>3
              <6>2. /\ world'.rows[n].launch <= launches'
                    /\ world'.rows[n].launch = launches'
                    /\ world'.rows[n].batch = "absence" =>
                        /\ world'.rows[n].since <= world'.stopped
                        /\ world'.rows[n].since < now'
                BY <3>1, <3>2, <3>3, <3>4, <3>5
              <6>3. QED
                BY <3>1, <3>3, <6>1, <6>2
          <4>2. QED
            BY <4>1, <3>3, <3>4 DEF Reports
        <3>7. AbsenceToldOnce'
          <4>1. \A i \in Rows : world.rows[i].launch <= launches
            BY DEF Reports
          <4>2. \A i \in Rows : /\ world.rows[i].batch = "absence"
                                /\ world.rows[i].since = world.stopped
                                /\ world.rows[i].launch < launches
                                => world.rows[i].launch \in past.crashed
            BY <3>5 DEF Reports
          <4>3. \A i, j \in Rows' :
                   /\ world'.rows[i].batch = "absence" /\ world'.rows[j].batch = "absence"
                   /\ world'.rows[i].since = world'.rows[j].since
                   /\ world'.rows[i].launch < world'.rows[j].launch
                   => world'.rows[i].launch \in past'.crashed
            BY <4>1, <4>2, <3>1, <3>2, <3>3, <3>4, <3>5 DEF AbsenceToldOnce
          <4>4. QED
            BY <4>3 DEF AbsenceToldOnce
        <3>8. QED
          BY <3>6, <3>7
      <2>4. QED
        BY <2>1, <2>2, <2>3
    <1>5. CASE Failed
      <2>1. boot'.stage = "run" /\ past'.crashed = past.crashed
        BY <1>5, BootShapes DEF Failed, TypeOK
      <2>2. QED
        BY <1>1, <1>5, <2>1 DEF Failed, Rows, Up, Active, TypeOK
    <1>6. CASE Halted
      <2>1. Rows' = Rows /\ world'.rows = world.rows /\ ~Active' /\ ~Up'
            /\ past.crashed \subseteq past'.crashed /\ launches' = launches /\ now' = now
        BY <1>6 DEF Halted, Rows, Active, Up, Down, same
      <2>2. AbsenceToldOnce'
        BY <2>1 DEF AbsenceToldOnce
      <2>3. \A i \in Rows : world.rows[i].since \in Nat
        BY RowTypes
      <2>4. now \in Nat /\ world.stopped \in Nat
        BY DEF TypeOK, Worlds
      <2>5. CASE world'.stopped = now
        BY <2>1, <2>2, <2>3, <2>4, <2>5 DEF Reports
      <2>6. CASE world'.stopped = world.stopped /\ past'.crashed = past.crashed \cup {launches}
        BY <2>1, <2>2, <2>3, <2>4, <2>6 DEF Reports
      <2>7. QED
        BY <1>6, <2>5, <2>6 DEF Halted
    <1>7. CASE Quiet
      <2>1. /\ Rows' = Rows /\ world'.rows = world.rows /\ world'.stopped = world.stopped
            /\ past'.crashed = past.crashed /\ launches' = launches /\ now' >= now
            /\ boot' = boot /\ (Up' <=> Up) /\ (Active' <=> Active)
        BY <1>7 DEF Quiet, Rows, Up, Active
      <2>2. AbsenceToldOnce'
        BY <2>1 DEF AbsenceToldOnce
      <2>3. \A i \in Rows : world.rows[i].since \in Nat
        BY RowTypes
      <2>4. now \in Nat /\ now' \in Nat /\ boot.since \in Nat
        BY DEF TypeOK
      <2>5. QED
        BY <2>1, <2>2, <2>3, <2>4 DEF Reports
    <1>8. QED
      BY <1>2, <1>3, <1>4, <1>5, <1>6, <1>7 DEF Kinds

LEMMA SummariesStep ==
    ASSUME TypeOK, TypeOK', Shape, Reports, Summaries, SummariesSpaced, Kinds
    PROVE  Summaries' /\ SummariesSpaced'
    <1>1. /\ world.week \in Nat /\ today \in Nat /\ boot.day \in Nat /\ launches \in Nat
          /\ Interval \in Nat \ {0}
          /\ \A i \in Rows : world.rows[i].asked \in Nat /\ world.rows[i].launch \in Nat
      BY RowTypes, LogbookAssumption DEF TypeOK, Worlds
    <1>2. ASSUME world'.rows = world.rows, world'.week = world.week, ~Telling,
                 past'.cut = past.cut,
                 Active' /\ boot'.batch = "weekly" => boot'.day >= world.week + Interval
          PROVE  Summaries' /\ SummariesSpaced'
      <2>1. \A i \in Rows : world.rows[i].batch = "weekly" /\ world.rows[i].launch \notin past.cut
                              => world.rows[i].asked <= world.week
        BY <1>2 DEF Summaries
      <2>2. QED
        BY <1>2, <2>1 DEF Summaries, SummariesSpaced, Rows
    <1>3. WeeklySummary.stage = "ask" => WeeklySummary.day >= world.week + Interval
      BY <1>1, BootShapes DEF WeeklyDue
    <1>4. CASE Opened
      <2>1. ~Active' /\ ~Telling
        BY <1>4 DEF Opened, Active, Up, Telling
      <2>2. CASE world' = Blank
        <3>1. Rows' = {}
          BY <2>2, BlankType DEF Rows
        <3>2. QED
          BY <2>1, <3>1 DEF Summaries, SummariesSpaced
      <2>3. QED
        BY <1>2, <1>4, <2>1, <2>2 DEF Opened
    <1>5. CASE Begin
      <2>1. ~Telling /\ boot'.stage # "tell"
            /\ (boot'.batch = "weekly" /\ boot'.stage = "ask" => boot'.day >= world.week + Interval)
        BY <1>3, <1>5, BootShapes DEF Begin, Telling
      <2>2. QED
        BY <1>2, <1>5, <2>1 DEF Begin, Active
    <1>6. CASE Went
      <2>1. PICK events \in Seq(BOOLEAN) : Inserted(events) \/ Ended
        BY <1>6 DEF Went
      <2>2. CASE Inserted(events)
        <3> DEFINE n == Len(world.rows) + 1
                   row == Row(Head(events))
        <3>1. /\ Rows' = Rows \cup {n}
              /\ \A i \in Rows : world'.rows[i] = world.rows[i]
              /\ world'.rows[n] = row
          BY <2>2, NewRow DEF Inserted
        <3>2. row.launch = launches /\ row.batch = boot.batch /\ row.asked = boot.day
          BY RowFields
        <3>3. /\ launches' = launches /\ past'.cut = past.cut /\ world'.week = world.week
              /\ boot'.batch = boot.batch /\ boot'.day = boot.day /\ Telling' /\ Active
          BY <1>6, <2>2 DEF Went, Inserted, Telling, same
        <3>4. boot.batch = "weekly" => boot.day >= world.week + Interval
          BY <3>3 DEF Summaries
        <3>5. \A i \in Rows : world.rows[i].launch <= launches
          BY DEF Reports
        <3>6. \A i \in Rows :
                 world.rows[i].batch = "weekly" /\ world.rows[i].launch \notin past.cut =>
                    \/ world.rows[i].asked <= world.week
                    \/ /\ boot.batch = "weekly" /\ world.rows[i].launch = launches
                       /\ world.rows[i].asked = boot.day
          BY DEF Summaries
        <3> HIDE DEF n, row
        <3>7. Summaries'
          BY <3>1, <3>2, <3>3, <3>4, <3>6 DEF Summaries
        <3>8. \A i, j \in Rows' :
                 /\ world'.rows[i].batch = "weekly" /\ world'.rows[j].batch = "weekly"
                 /\ world'.rows[i].launch < world'.rows[j].launch
                 /\ world'.rows[i].launch \notin past'.cut
                 => world'.rows[j].asked >= world'.rows[i].asked + Interval
          <4>1. ASSUME NEW i \in Rows, world.rows[i].batch = "weekly", boot.batch = "weekly",
                       world.rows[i].launch < launches, world.rows[i].launch \notin past.cut
                PROVE  boot.day >= world.rows[i].asked + Interval
            BY <1>1, <3>4, <3>6, <4>1
          <4>2. \A i, j \in Rows :
                   /\ world.rows[i].batch = "weekly" /\ world.rows[j].batch = "weekly"
                   /\ world.rows[i].launch < world.rows[j].launch
                   /\ world.rows[i].launch \notin past.cut
                   => world.rows[j].asked >= world.rows[i].asked + Interval
            BY DEF SummariesSpaced
          <4> DEFINE Spaced(i, j) ==
                 /\ world'.rows[i].batch = "weekly" /\ world'.rows[j].batch = "weekly"
                 /\ world'.rows[i].launch < world'.rows[j].launch
                 /\ world'.rows[i].launch \notin past'.cut
                 => world'.rows[j].asked >= world'.rows[i].asked + Interval
          <4>3. ASSUME NEW i \in Rows, NEW j \in Rows PROVE Spaced(i, j)
            BY <3>1, <3>3, <4>2, <4>3
          <4>4. ASSUME NEW i \in Rows PROVE Spaced(i, n)
            BY <3>1, <3>2, <3>3, <4>1, <4>4
          <4>5. ASSUME NEW j \in Rows PROVE Spaced(n, j)
            BY <1>1, <3>1, <3>2, <3>5, <4>5
          <4>6. Spaced(n, n)
            BY <1>1, <3>1, <3>2
          <4>7. \A i, j \in Rows' : Spaced(i, j)
            <5> HIDE DEF Spaced
            <5>1. QED
              BY <3>1, <4>3, <4>4, <4>5, <4>6
          <4>8. QED
            BY <4>7
        <3>9. QED
          BY <3>7, <3>8 DEF SummariesSpaced
      <2>3. CASE Ended
        <3>1. SummariesSpaced' /\ Rows' = Rows /\ world'.rows = world.rows /\ Active
              /\ past'.cut = past.cut
          BY <1>6, <2>3 DEF Went, Ended, SummariesSpaced, Rows
        <3>2. CASE boot.batch = "absence" /\ world'.week = world.week /\ boot' = WeeklySummary
          <4>1. \A i \in Rows : world.rows[i].batch = "weekly"
                   /\ world.rows[i].launch \notin past.cut => world.rows[i].asked <= world.week
            BY <3>2 DEF Summaries
          <4>2. boot'.stage # "tell"
            BY <3>2, BootShapes
          <4>3. Active' => boot'.day >= world.week + Interval
            BY <1>3, <3>2, <4>2 DEF Active
          <4>4. QED
            BY <3>1, <3>2, <4>1, <4>3 DEF Summaries
        <3>3. CASE boot.batch = "weekly" /\ world'.week = boot.day /\ boot' = Rest
          <4>1. boot.day >= world.week + Interval
            BY <3>1, <3>3 DEF Summaries
          <4>2. \A i \in Rows : world.rows[i].batch = "weekly"
                   /\ world.rows[i].launch \notin past.cut => world.rows[i].asked <= boot.day
            BY <1>1, <4>1 DEF Summaries
          <4>3. ~Active'
            BY <3>3, BootShapes DEF Active
          <4>4. QED
            BY <3>1, <3>3, <4>2, <4>3 DEF Summaries
        <3>4. QED
          BY <2>3, <3>2, <3>3 DEF Ended
      <2>4. QED
        BY <2>1, <2>2, <2>3
    <1>7. CASE Failed \/ Halted
      <2>1. /\ Rows' = Rows /\ world'.rows = world.rows /\ world'.week = world.week
            /\ past'.cut = Cut /\ ~Active'
        BY <1>7, BootShapes DEF Failed, Halted, Rows, Active, Cut, TypeOK
      <2>2. past.cut \subseteq Cut /\ (Telling => launches \in Cut)
        BY DEF Cut
      <2>3. \A i \in Rows : world.rows[i].batch = "weekly" /\ world.rows[i].launch \notin Cut
                              => world.rows[i].asked <= world.week
        BY <2>2 DEF Summaries
      <2>4. QED
        BY <2>1, <2>2, <2>3 DEF Summaries, SummariesSpaced
    <1>8. CASE Quiet
      BY <1>8 DEF Quiet, Summaries, SummariesSpaced, Rows, Active, Telling
    <1>9. QED
      BY <1>4, <1>5, <1>6, <1>7, <1>8 DEF Kinds

LEMMA ClockStep ==
    ASSUME TypeOK, TypeOK', Shape, Reports, Clock, ChronicleInOrder, Kinds
    PROVE  Clock' /\ ChronicleInOrder'
    <1>1. /\ today \in Nat /\ today' \in Nat /\ launches \in Nat /\ world.day \in Nat
          /\ boot.date \in Nat
          /\ \A l \in past.crashed : l \in Nat
          /\ \A i \in Rows : world.rows[i].day \in Nat /\ world.rows[i].launch \in Nat
      BY RowTypes DEF TypeOK, Worlds
    <1>2. \A i \in Rows : world.rows[i].launch <= launches
      BY DEF Reports
    \* The rows stay and the clock does not fall.
    <1>3. ASSUME world'.rows = world.rows, past'.crashed = past.crashed, launches' = launches,
                 Up, Up', today' >= today, Telling' => Telling /\ boot'.date = boot.date
          PROVE  Clock' /\ ChronicleInOrder'
      <2>1. Rows' = Rows /\ ChronicleInOrder'
        BY <1>3 DEF Rows, ChronicleInOrder
      <2>2. \A i \in Rows : world.rows[i].day > today =>
               \E l \in past.crashed : world.rows[i].launch <= l /\ l <= launches /\ l < launches
        BY <1>3 DEF Clock, Ahead
      <2>3. Ahead(today)'
        BY <1>1, <1>3, <2>1, <2>2 DEF Ahead
      <2>4. Telling' => Ahead(boot.date)' /\ boot'.date <= today' /\ boot'.date = boot.date
        BY <1>1, <1>3, <2>1 DEF Clock, Ahead
      <2>5. Telling' => Ahead(boot.date)'
        BY <2>4
      <2>6. QED
        BY <1>3, <2>1, <2>3, <2>4, <2>5 DEF Clock
    <1>4. CASE Opened
      <2>1. ~Telling' /\ ~Up /\ launches' = launches + 1
        BY <1>4 DEF Opened, Telling
      <2>2. CASE world' = Blank
        <3>1. Rows' = {}
          BY <2>2, BlankType DEF Rows
        <3>2. QED
          BY <2>1, <3>1 DEF Clock, Ahead, ChronicleInOrder
      <2>3. CASE world' = world /\ past'.crashed = past.crashed
        <3>1. Rows' = Rows /\ ChronicleInOrder'
          BY <2>3 DEF Rows, ChronicleInOrder
        <3>2. \A i \in Rows : world.rows[i].day > world.day =>
                 \E l \in past.crashed : world.rows[i].launch <= l /\ l < launches + 1
          BY <1>1, <2>1 DEF Clock, Ahead
        <3>3. (IF Up THEN today ELSE world.day)' = world.day
          BY <1>4, <2>3 DEF Opened, Up
        <3>4. \A i \in Rows' : world'.rows[i].day > (IF Up THEN today ELSE world.day)' =>
                 \E l \in past'.crashed :
                    world'.rows[i].launch <= l /\ l <= launches' /\ (Up' => l < launches')
          <4>1. ASSUME NEW i \in Rows, world.rows[i].day > world.day
                PROVE  \E l \in past'.crashed :
                         world'.rows[i].launch <= l /\ l <= launches' /\ (Up' => l < launches')
            <5>1. PICK l \in past.crashed : world.rows[i].launch <= l /\ l < launches + 1
              BY <3>2, <4>1
            <5>2. l <= launches' /\ l < launches'
              BY <1>1, <2>1, <5>1
            <5>3. QED
              BY <2>3, <5>1, <5>2
          <4>2. QED
            BY <2>3, <3>1, <3>3, <4>1
        <3>5. QED
          BY <2>1, <3>1, <3>4 DEF Clock, Ahead
      <2>4. QED
        BY <1>4, <2>2, <2>3 DEF Opened
    <1>5. CASE Begin
      <2>1. Up /\ Up' /\ ~Telling'
        BY <1>5, BootShapes DEF Begin, Up, Telling
      <2>2. QED
        BY <1>1, <1>3, <1>5, <2>1 DEF Begin
    <1>6. CASE Went
      <2>1. PICK events \in Seq(BOOLEAN) : Inserted(events) \/ Ended
        BY <1>6 DEF Went
      <2>2. CASE Inserted(events)
        <3> DEFINE n == Len(world.rows) + 1
                   row == Row(Head(events))
        <3>1. /\ Rows' = Rows \cup {n} /\ n \notin Rows
              /\ \A i \in Rows : world'.rows[i] = world.rows[i] /\ i < n
              /\ world'.rows[n] = row
          BY <2>2, NewRow DEF Inserted
        <3>2. row.launch = launches /\ row.day = Date
          BY RowFields
        <3>3. /\ launches' = launches /\ past'.crashed = past.crashed /\ today' = today
              /\ boot'.date = Date /\ Telling' /\ Up' /\ Up
          BY <1>6, <2>2 DEF Went, Inserted, Telling, Up, Active, same
        <3>4. Date \in Nat /\ Date <= today /\ Ahead(Date) /\ Ahead(today)
          BY <1>1, <3>3 DEF Clock, Date
        <3>5. \A d \in {Date, today} : \A i \in Rows : world.rows[i].day > d =>
                 \E l \in past.crashed : world.rows[i].launch <= l /\ l < launches
          BY <3>3, <3>4 DEF Ahead
        <3> HIDE DEF n, row
        <3>6. ASSUME NEW d \in {Date, today}
              PROVE  \A i \in Rows' : world'.rows[i].day > d =>
                       \E l \in past'.crashed :
                          /\ world'.rows[i].launch <= l /\ l <= launches'
                          /\ (Up' => l < launches')
          <4>1. ~(row.day > d)
            BY <1>1, <3>2, <3>4
          <4>2. ASSUME NEW i \in Rows, world.rows[i].day > d
                PROVE  \E l \in past.crashed :
                          world.rows[i].launch <= l /\ l <= launches /\ l < launches
            BY <1>1, <3>5, <4>2
          <4>3. QED
            BY <3>1, <3>3, <4>1, <4>2
        <3>7. Clock'
          BY <3>3, <3>4, <3>6 DEF Clock, Ahead
        <3>8. \A i, j \in Rows' :
                 i < j /\ world'.rows[j].day < world'.rows[i].day =>
                    \E l \in past'.crashed :
                       world'.rows[i].launch <= l /\ l < world'.rows[j].launch
          <4>1. n \in Nat /\ \A i \in Rows : i \in Nat
            <5>1. world.rows \in Seq(Events)
              BY DEF TypeOK, Worlds
            <5>2. n \in Nat
              BY <5>1 DEF n
            <5>3. \A i \in Rows : i \in Nat
              BY <5>1 DEF Rows
            <5>4. QED
              BY <5>2, <5>3
          <4>2. ASSUME NEW i \in Rows, Date < world.rows[i].day
                PROVE  \E l \in past.crashed : world.rows[i].launch <= l /\ l < launches
            BY <1>1, <3>4, <3>5, <4>2
          <4>3. ASSUME NEW i \in Rows, NEW j \in Rows,
                       i < j, world.rows[j].day < world.rows[i].day
                PROVE  \E l \in past.crashed :
                          world.rows[i].launch <= l /\ l < world.rows[j].launch
            BY <4>3 DEF ChronicleInOrder
          <4>4. \A i \in Rows : ~(n < i)
            BY <3>1, <4>1
          <4>5. QED
            BY <3>1, <3>2, <3>3, <4>1, <4>2, <4>3, <4>4
        <3>9. QED
          BY <3>7, <3>8 DEF ChronicleInOrder
      <2>3. CASE Ended
        <3>1. Up /\ Up' /\ ~Telling'
          BY <1>6, <2>3, BootShapes DEF Went, Ended, Active, Up, Telling
        <3>2. QED
          BY <1>1, <1>3, <1>6, <2>3, <3>1 DEF Went, Ended, same
      <2>4. QED
        BY <2>1, <2>2, <2>3
    <1>7. CASE Failed
      <2>1. Up /\ Up' /\ ~Telling' /\ past'.crashed = past.crashed
        BY <1>7, BootShapes DEF Failed, Up, Telling, TypeOK
      <2>2. QED
        BY <1>1, <1>3, <1>7, <2>1 DEF Failed
    <1>8. CASE Halted
      <2>1. /\ Rows' = Rows /\ world'.rows = world.rows /\ ~Up' /\ ~Telling' /\ Up
            /\ past.crashed \subseteq past'.crashed /\ launches' = launches
        BY <1>8 DEF Halted, Rows, Up, Telling, Down, same
      <2>2. ChronicleInOrder'
        BY <2>1 DEF ChronicleInOrder
      <2>3. CASE world'.day = today
        <3>1. \A i \in Rows : world.rows[i].day > today =>
                 \E l \in past.crashed : world.rows[i].launch <= l /\ l <= launches
          BY <2>1 DEF Clock, Ahead
        <3>2. QED
          BY <2>1, <2>2, <2>3, <3>1 DEF Clock, Ahead
      <2>4. CASE past'.crashed = past.crashed \cup {launches}
        <3>1. \A i \in Rows : \E l \in past'.crashed : world.rows[i].launch <= l /\ l <= launches
          BY <1>1, <1>2, <2>4
        <3>2. QED
          BY <2>1, <2>2, <3>1 DEF Clock, Ahead
      <2>5. QED
        BY <1>8, <2>3, <2>4 DEF Halted
    <1>9. CASE Quiet
      <2>1. /\ Rows' = Rows /\ world'.rows = world.rows /\ world'.day = world.day
            /\ past'.crashed = past.crashed /\ launches' = launches
            /\ boot' = boot /\ (Up' <=> Up) /\ (Telling' <=> Telling)
            /\ today' \in Nat /\ today' >= today
        BY <1>9 DEF Quiet, Rows, Up, Telling, TypeOK
      <2>2. ChronicleInOrder'
        BY <2>1 DEF ChronicleInOrder
      <2>3. CASE Up
        BY <1>1, <1>3, <2>1, <2>3
      <2>4. CASE ~Up
        <3>1. ~Telling'
          BY <2>1, <2>4 DEF Up, Telling
        <3>2. \A i \in Rows : world.rows[i].day > world.day =>
                 \E l \in past.crashed : world.rows[i].launch <= l /\ l <= launches
          BY <2>4 DEF Clock, Ahead
        <3>3. QED
          BY <2>1, <2>2, <2>4, <3>1, <3>2 DEF Clock, Ahead
      <2>5. QED
        BY <2>3, <2>4
    <1>10. QED
      BY <1>4, <1>5, <1>6, <1>7, <1>8, <1>9 DEF Kinds

-----------------------------------------------------------------------------
(* The rows about a pair, and what the logbook has moved for them.         *)

\* The row that is told and has not moved its pair yet.
Pending == IF Telling /\ Head(boot.left) THEN 1 ELSE 0

\* Every row about a pair has moved it, but for the one being told and at most
\* one for each launch that was cut off; a launch that tells was not cut off yet.
Ledger ==
    /\ past.cut \subseteq 0 .. launches
    /\ boot.stage \in {"start", "ask", "tell"} => launches \notin past.cut
    /\ past.bonds + Pending <= Cardinality(Pairs)
    /\ Cardinality(Pairs) <= past.bonds + Pending + Cardinality(past.cut)

LEMMA PairsFinite ==
    ASSUME TypeOK
    PROVE  IsFiniteSet(Pairs) /\ Cardinality(Pairs) \in Nat
    <1>1. Len(world.rows) \in Nat /\ Rows = 1 .. Len(world.rows)
      BY DEF TypeOK, Worlds, Rows
    <1>2. IsFiniteSet(1 .. Len(world.rows))
      BY <1>1, FS_Interval
    <1>3. Pairs \in SUBSET (1 .. Len(world.rows))
      BY <1>1 DEF Pairs
    <1>4. IsFiniteSet(Pairs)
      BY <1>2, <1>3, FS_Subset
    <1>5. QED
      BY <1>4, FS_CardinalityType

\* A new row counts if it is about a pair.
LEMMA PairsGrow ==
    ASSUME TypeOK, NEW row, row.pair \in BOOLEAN, world'.rows = Append(world.rows, row)
    PROVE  Cardinality(Pairs') = Cardinality(Pairs) + (IF row.pair THEN 1 ELSE 0)
    <1> DEFINE n == Len(world.rows) + 1
    <1>1. /\ Rows' = Rows \cup {n} /\ n \notin Rows /\ world'.rows[n] = row
          /\ \A i \in Rows : world'.rows[i] = world.rows[i]
      BY NewRow
    <1> HIDE DEF n
    <1>2. n \notin Pairs /\ IsFiniteSet(Pairs) /\ Cardinality(Pairs) \in Nat
      BY <1>1, PairsFinite DEF Pairs
    <1>3. CASE row.pair
      <2>1. Pairs' = Pairs \cup {n}
        BY <1>1, <1>3 DEF Pairs
      <2>2. Cardinality(Pairs \cup {n}) = Cardinality(Pairs) + 1
        BY <1>2, FS_AddElement
      <2>3. QED
        BY <1>3, <2>1, <2>2
    <1>4. CASE ~row.pair
      <2>1. Pairs' = Pairs
        BY <1>1, <1>4 DEF Pairs
      <2>2. QED
        BY <1>2, <1>4, <2>1
    <1>5. QED
      BY <1>3, <1>4

LEMMA PairsStay ==
    ASSUME world'.rows = world.rows
    PROVE  Pairs' = Pairs
    BY DEF Pairs, Rows

\* A batch that goes on has one row more, and that row is pending.
LEMMA PairsWent ==
    ASSUME TypeOK, NEW events \in Seq(BOOLEAN), Inserted(events) \/ Ended
    PROVE  /\ Cardinality(Pairs') = Cardinality(Pairs) + Pending'
           /\ Pending' \in {0, 1}
    <1>1. CASE Inserted(events)
      <2> DEFINE row == Row(Head(events))
      <2>1. Head(events) \in BOOLEAN /\ row.pair = Head(events)
        BY <1>1, HeadTail DEF Inserted, Row
      <2>2. world'.rows = Append(world.rows, row)
        BY <1>1 DEF Inserted
      <2>3. Pending' = IF Head(events) THEN 1 ELSE 0
        BY <1>1 DEF Inserted, Pending, Telling
      <2> HIDE DEF row
      <2>4. Cardinality(Pairs') = Cardinality(Pairs) + (IF row.pair THEN 1 ELSE 0)
        BY <2>1, <2>2, PairsGrow
      <2>5. QED
        BY <2>1, <2>3, <2>4
    <1>2. CASE Ended
      <2>1. boot'.stage # "tell"
        BY <1>2, BootShapes DEF Ended
      <2>2. Pending' = 0
        BY <2>1 DEF Pending, Telling
      <2>3. Cardinality(Pairs') = Cardinality(Pairs) /\ Cardinality(Pairs) \in Nat
        BY <1>2, PairsStay, PairsFinite DEF Ended
      <2>4. QED
        BY <2>2, <2>3
    <1>3. QED
      BY <1>1, <1>2

LEMMA CutFinite ==
    ASSUME TypeOK, Ledger
    PROVE  IsFiniteSet(past.cut) /\ Cardinality(past.cut) \in Nat
    <1>1. launches \in Nat /\ past.cut \in SUBSET (0 .. launches)
      BY DEF TypeOK, Ledger
    <1>2. IsFiniteSet(0 .. launches)
      BY <1>1, FS_Interval
    <1>3. IsFiniteSet(past.cut)
      BY <1>1, <1>2, FS_Subset
    <1>4. QED
      BY <1>3, FS_CardinalityType

\* A launch that ends while it tells is one more that was cut off.
LEMMA CutGrows ==
    ASSUME TypeOK, Ledger
    PROVE  /\ Cut \subseteq 0 .. launches
           /\ Cardinality(Cut) = Cardinality(past.cut) + (IF Telling THEN 1 ELSE 0)
    <1>1. IsFiniteSet(past.cut) /\ Cardinality(past.cut) \in Nat
      BY CutFinite
    <1>2. past.cut \subseteq 0 .. launches /\ launches \in 0 .. launches
      BY DEF Ledger, TypeOK
    <1>3. CASE Telling
      <2>1. launches \notin past.cut /\ Cut = past.cut \cup {launches}
        BY <1>3 DEF Ledger, Telling, Cut
      <2>2. Cardinality(Cut) = Cardinality(past.cut) + 1
        BY <1>1, <2>1, FS_AddElement
      <2>3. QED
        BY <1>2, <1>3, <2>1, <2>2
    <1>4. CASE ~Telling
      BY <1>1, <1>2, <1>4 DEF Cut
    <1>5. QED
      BY <1>3, <1>4

\* Nothing is pending but in a launch that tells.
LEMMA PendingTypes ==
    /\ Pending \in {0, 1}
    /\ ~Telling => Pending = 0
    /\ Telling => Pending = Bonds
    BY DEF Pending, Bonds

LEMMA LedgerStep ==
    ASSUME TypeOK, TypeOK', Shape, Ledger, [Next]_vars
    PROVE  Ledger'
    <1>1. /\ past.bonds \in Nat /\ Cardinality(Pairs) \in Nat
          /\ Cardinality(past.cut) \in Nat /\ launches \in Nat
          /\ past.cut \subseteq 0 .. launches
          /\ boot.stage \in {"start", "ask", "tell"} => launches \notin past.cut
          /\ past.bonds + Pending <= Cardinality(Pairs)
          /\ Cardinality(Pairs) <= past.bonds + Pending + Cardinality(past.cut)
      BY PairsFinite, CutFinite DEF TypeOK, Ledger
    <1>2. ASSUME NEW fresh \in BOOLEAN, Open(fresh), ~Telling,
                 past'.bonds = PastOf(fresh).bonds, past'.cut = PastOf(fresh).cut,
                 boot'.stage \in {"down", "start"}
          PROVE  Ledger'
      <2>1. launches' = launches + 1 /\ Pending = 0 /\ Pending' = 0
        BY <1>2, PendingTypes DEF Open, Pending, Telling
      <2>2. CASE fresh
        <3>1. past'.bonds = 0 /\ past'.cut = {}
          BY <1>2, <2>2 DEF PastOf, NoPast
        <3>2. Pairs' = {}
          BY <1>2, <2>2, BlankType DEF Open, Pairs, Rows
        <3>3. Cardinality({}) = 0
          BY FS_EmptySet
        <3>4. QED
          BY <2>1, <3>1, <3>2, <3>3 DEF Ledger
      <2>3. CASE ~fresh
        <3>1. past'.bonds = past.bonds /\ past'.cut = past.cut /\ Pairs' = Pairs
          BY <1>2, <2>3, PairsStay DEF PastOf, Open
        <3>2. past.cut \subseteq 0 .. launches + 1 /\ launches + 1 \notin past.cut
          BY <1>1
        <3>3. QED
          BY <1>1, <2>1, <3>1, <3>2 DEF Ledger
      <2>4. QED
        BY <2>2, <2>3
    <1>3. ASSUME NEW fresh \in BOOLEAN,
                 BootFails(fresh) \/ \E weekly \in BOOLEAN : Boot(fresh, weekly)
          PROVE  Ledger'
      <2>1. Open(fresh) /\ ~Telling
        BY <1>3 DEF Boot, BootFails, Open, Telling
      <2>2. past'.bonds = PastOf(fresh).bonds /\ past'.cut = PastOf(fresh).cut
        <3>1. PastOf(fresh) \in Pasts
          BY DEF PastOf, NoPast, Pasts, TypeOK
        <3>2. past' = PastOf(fresh) \/ past' = [PastOf(fresh) EXCEPT !.clean = TRUE]
          BY <1>3 DEF Boot, BootFails
        <3>3. QED
          BY <3>1, <3>2 DEF Pasts
      <2>3. boot'.stage \in {"down", "start"}
        BY <1>3 DEF Boot, BootFails, Open, Down
      <2>4. QED
        BY <1>2, <2>1, <2>2, <2>3
    <1>4. ASSUME UNCHANGED <<launches, past>>, world'.rows = world.rows, ~Telling, ~Telling',
                 boot'.stage \in {"start", "ask", "tell"} =>
                    boot.stage \in {"start", "ask", "tell"}
          PROVE  Ledger'
      <2>1. Pending = 0 /\ Pending' = 0 /\ Pairs' = Pairs
        BY <1>4, PendingTypes, PairsStay DEF Pending
      <2>2. QED
        BY <1>1, <1>4, <2>1 DEF Ledger
    <1>5. CASE Begin
      <2>1. ~Telling /\ boot.stage = "start"
        BY <1>5 DEF Begin, Telling
      <2>2. boot'.stage # "tell"
        BY <1>5, BootShapes DEF Begin
      <2>3. QED
        BY <1>4, <1>5, <2>1, <2>2 DEF Begin, Telling
    <1>6. ASSUME NEW w \in Worlds, NEW events \in Seq(BOOLEAN), Active, Continue(w, events),
                 w.rows = world.rows, w.week = world.week, w.day = world.day,
                 w.stopped = world.stopped, UNCHANGED launches,
                 past'.bonds = past.bonds + Pending, past'.cut = past.cut
          PROVE  Ledger'
      <2>1. /\ Cardinality(Pairs') = Cardinality(Pairs) + Pending'
            /\ Pending' \in {0, 1}
        BY <1>6, ContinueStep, PairsWent
      <2>2. launches \notin past.cut
        BY <1>1, <1>6 DEF Active
      <2>3. QED
        BY <1>1, <1>6, <2>1, <2>2, PendingTypes DEF Ledger
    <1>7. ASSUME NEW events \in Batches, Answered(events)
          PROVE  Ledger'
      <2>1. events \in Seq(BOOLEAN) /\ world \in Worlds
        BY BatchesAssumption DEF TypeOK
      <2>2. ~Telling /\ Active /\ Continue(world, events) /\ UNCHANGED <<launches, past>>
        BY <1>7 DEF Answered, Telling, Active
      <2>3. past'.bonds = past.bonds + Pending /\ past'.cut = past.cut
        BY <1>1, <2>2, PendingTypes
      <2>4. QED
        BY <1>6, <2>1, <2>2, <2>3
    <1>8. CASE Told
      <2>1. Telling /\ Active /\ Continue(Bonded(world), Tail(boot.left))
            /\ UNCHANGED launches
        BY <1>8 DEF Told, Telling, Active
      <2>2. past'.bonds = past.bonds + Pending /\ past'.cut = past.cut
        BY <1>8, <2>1, PendingTypes DEF Told, TypeOK
      <2>3. QED
        BY <1>6, <2>1, <2>2, BondedType
    <1>9. ASSUME past'.cut = Cut, UNCHANGED launches, world'.rows = world.rows,
                 boot'.stage \in {"down", "run"}, NEW bonds \in {0, Pending},
                 past'.bonds = past.bonds + bonds
          PROVE  Ledger'
      <2>1. Pending' = 0 /\ Pairs' = Pairs
        BY <1>9, PairsStay DEF Pending, Telling
      <2>2. Pending \in {0, 1} /\ (~Telling => Pending = 0)
        BY PendingTypes
      <2>3. Cardinality(Cut) \in Nat /\ Cardinality(Cut) >= Cardinality(past.cut) + Pending
        BY <1>1, <2>2, CutGrows
      <2>4. QED
        BY <1>1, <1>9, <2>1, <2>2, <2>3, CutGrows DEF Ledger
    <1>10. CASE Failed
      <2>1. past'.cut = Cut /\ past'.bonds = past.bonds + 0
        BY <1>1, <1>10 DEF Failed, Cut, TypeOK
      <2>2. boot'.stage = "run"
        BY <1>10, BootShapes DEF Failed
      <2>3. QED
        BY <1>9, <1>10, <2>1, <2>2 DEF Failed
    <1>11. CASE Stop
      <2>1. past'.cut = Cut /\ past'.bonds = past.bonds + 0
        BY <1>1, <1>11 DEF Stop, TypeOK
      <2>2. boot'.stage = "down" /\ world'.rows = world.rows
        BY <1>11, BootShapes DEF Stop, TypeOK, Worlds
      <2>3. QED
        BY <1>9, <1>11, <2>1, <2>2 DEF Stop
    <1>12. ASSUME NEW w, NEW bonds \in {0, Pending}, Dies(w, bonds), w.rows = world.rows
           PROVE  Ledger'
      <2>1. /\ past'.cut = Cut /\ past'.bonds = past.bonds + bonds
            /\ world'.rows = world.rows /\ UNCHANGED launches
        BY <1>12 DEF Dies
      <2>2. boot'.stage = "down"
        BY <1>12, BootShapes DEF Dies
      <2>3. QED
        BY <1>9, <2>1, <2>2
    <1>13. CASE Crash \/ CrashWhileStopping
      <2>1. [world EXCEPT !.day = today].rows = world.rows
        BY DEF TypeOK, Worlds
      <2>2. QED
        BY <1>12, <1>13, <2>1 DEF Crash, CrashWhileStopping
    <1>14. CASE CrashAfterBond
      <2>1. Telling /\ Dies(Bonded(world), Pending)
        BY <1>14, PendingTypes DEF CrashAfterBond
      <2>2. QED
        BY <1>12, <2>1, BondedType
    <1>15. ASSUME boot' = boot, UNCHANGED <<launches, past>>, world'.rows = world.rows
           PROVE  Ledger'
      <2>1. Pending' = Pending /\ Pairs' = Pairs
        BY <1>15, PairsStay DEF Pending, Telling
      <2>2. QED
        BY <1>1, <1>15, <2>1 DEF Ledger
    <1>16. ASSUME NEW delta \in Deltas, Conversation(delta)
           PROVE  Ledger'
      <2>1. world'.rows = world.rows
        BY <1>16 DEF Conversation, TypeOK, Worlds
      <2>2. QED
        BY <1>15, <1>16, <2>1 DEF Conversation
    <1>17. CASE Checkpoint \/ NewDay \/ TimePasses \/ UNCHANGED vars
      BY <1>15, <1>17 DEF Checkpoint, NewDay, TimePasses, vars
    <1>18. QED
      BY <1>3, <1>5, <1>7, <1>8, <1>10, <1>11, <1>13, <1>14, <1>16, <1>17 DEF Next

-----------------------------------------------------------------------------
(* The invariant and the theorems.                                         *)

Inv ==
    /\ TypeOK /\ Shape /\ Closed
    /\ Reports /\ AbsenceToldOnce
    /\ Summaries /\ SummariesSpaced
    /\ Clock /\ ChronicleInOrder
    /\ Ledger

LEMMA InitInv == Init => Inv
    <1> SUFFICES ASSUME Init PROVE Inv
      OBVIOUS
    <1>1. TypeOK
      <2>1. Down \in Boots /\ NoPast \in Pasts
        <3>1. <<>> \in Seq(BOOLEAN)
          OBVIOUS
        <3>2. QED
          BY <3>1 DEF Down, Boots, NoPast, Pasts
      <2>2. archives \in Seq({"behind", "whole"})
        BY DEF Init
      <2>3. QED
        BY <2>1, <2>2, BlankType DEF Init, TypeOK, Boots, Pasts
    <1>2. Rows = {} /\ ~Up /\ ~Active /\ ~Telling
      BY BlankType DEF Init, Rows, Down, Up, Active, Telling
    <1>3. Shape /\ Closed
      BY <1>2 DEF Shape, Closed, Init
    <1>4. Reports /\ AbsenceToldOnce /\ Summaries /\ SummariesSpaced
      BY <1>2 DEF Reports, AbsenceToldOnce, Summaries, SummariesSpaced
    <1>5. Clock /\ ChronicleInOrder
      BY <1>2 DEF Clock, Ahead, ChronicleInOrder
    <1>6. Ledger
      <2>1. Pairs = {} /\ past.bonds = 0 /\ past.cut = {} /\ launches = 0
        BY <1>2 DEF Init, NoPast, Pairs
      <2>2. Pending = 0 /\ Cardinality({}) = 0
        BY <1>2, PendingTypes, FS_EmptySet
      <2>3. QED
        BY <2>1, <2>2 DEF Ledger
    <1>7. QED
      BY <1>1, <1>3, <1>4, <1>5, <1>6 DEF Inv

LEMMA NextInv == Inv /\ [Next]_vars => Inv'
    <1> SUFFICES ASSUME Inv, [Next]_vars PROVE Inv'
      OBVIOUS
    <1>1. TypeOK /\ Shape /\ Closed /\ Reports /\ AbsenceToldOnce
          /\ Summaries /\ SummariesSpaced /\ Clock /\ ChronicleInOrder /\ Ledger
      BY DEF Inv
    <1>2. TypeOK' /\ Kinds
      <2>1. CASE Next
        BY <1>1, <2>1, StepKinds
      <2>2. CASE UNCHANGED vars
        <3>1. TypeOK'
          BY <1>1, <2>2 DEF TypeOK, vars
        <3>2. Quiet
          BY <1>1, <2>2 DEF Quiet, vars, TypeOK
        <3>3. QED
          BY <3>1, <3>2 DEF Kinds
      <2>3. QED
        BY <2>1, <2>2
    <1>3. Shape' /\ Closed'
      BY <1>1, <1>2, ShapeStep, ClosedStep
    <1>4. Reports' /\ AbsenceToldOnce'
      BY <1>1, <1>2, ReportsStep
    <1>5. Summaries' /\ SummariesSpaced'
      BY <1>1, <1>2, SummariesStep
    <1>6. Clock' /\ ChronicleInOrder'
      BY <1>1, <1>2, ClockStep
    <1>7. Ledger'
      BY <1>1, <1>2, LedgerStep
    <1>8. QED
      BY <1>2, <1>3, <1>4, <1>5, <1>6, <1>7 DEF Inv

LEMMA Invariant == Spec => []Inv
    BY InitInv, NextInv, PTL DEF Spec

\* The logbook, the clocks, the files and the boot task keep their types.
THEOREM TypeCorrect == Spec => []TypeOK
    <1>1. Inv => TypeOK
      BY DEF Inv
    <1>2. QED
      BY <1>1, Invariant, PTL

\* An absence is reported by two launches only if the first crashed.
THEOREM ToldOnce == Spec => []AbsenceToldOnce
    <1>1. Inv => AbsenceToldOnce
      BY DEF Inv
    <1>2. QED
      BY <1>1, Invariant, PTL

\* Weekly summaries of two launches lie an interval apart, but for a first one
\* that was cut off.
THEOREM SummariesAreSpaced == Spec => []SummariesSpaced
    <1>1. Inv => SummariesSpaced
      BY DEF Inv
    <1>2. QED
      BY <1>1, Invariant, PTL

\* The rows of the logbook run forward in world time but for a crash in between.
THEOREM ChronicleIsOrdered == Spec => []ChronicleInOrder
    <1>1. Inv => ChronicleInOrder
      BY DEF Inv
    <1>2. QED
      BY <1>1, Invariant, PTL

\* The logbook has moved a pair once for each of its rows about one; a row that
\* moved nothing is the last of a launch that was cut off, at most one of each.
THEOREM RowsMoveThePair == Spec => []BondsFollowRows
    <1>1. Inv => BondsFollowRows
      <2>1. ASSUME Inv PROVE BondsFollowRows
        <3>1. /\ past.bonds \in Nat /\ Cardinality(Pairs) \in Nat
              /\ Cardinality(past.cut) \in Nat
          BY <2>1, PairsFinite, CutFinite DEF Inv, TypeOK
        <3>2. /\ past.bonds + Pending <= Cardinality(Pairs)
              /\ Cardinality(Pairs) <= past.bonds + Pending + Cardinality(past.cut)
          BY <2>1 DEF Inv, Ledger
        <3>3. QED
          BY <3>1, <3>2, PendingTypes DEF BondsFollowRows
      <2>2. QED
        BY <2>1
    <1>2. QED
      BY <1>1, Invariant, PTL

LEMMA OpenBacksUp ==
    ASSUME TypeOK, Closed, NEW fresh \in BOOLEAN, Open(fresh), past.clean, file # "none"
    PROVE  archives' # <<>> /\ Newly = "whole"
    <1>1. file = "whole" /\ archives' = Newest(Append(archives, file))
      BY DEF Closed, Open, Up
    <1>2. archives \in Seq({"behind", "whole"})
      BY DEF TypeOK
    <1>3. /\ Append(archives, file) \in Seq({"behind", "whole"})
          /\ Append(archives, file) # <<>>
          /\ Append(archives, file)[Len(Append(archives, file))] = "whole"
      BY <1>1, <1>2
    <1>4. Newest(Append(archives, file)) # <<>>
          /\ Newest(Append(archives, file))[Len(Newest(Append(archives, file)))] = "whole"
      BY <1>3, NewestType
    <1>5. QED
      BY <1>1, <1>4 DEF Newly

\* After a launch that ended in main's finally the next launch, fresh or not,
\* has a backup with all of the world.
THEOREM BackupsAreWhole == Spec => StoppedWorldIsBackedUp
    <1>1. ASSUME Inv, [Next]_vars
          PROVE  [launches' # launches /\ past.clean /\ file # "none"
                     => archives' # <<>> /\ Newly = "whole"]_vars
      <2> SUFFICES ASSUME Next, launches' # launches, past.clean, file # "none"
                   PROVE  archives' # <<>> /\ Newly = "whole"
        BY <1>1
      <2>1. \E fresh \in BOOLEAN : Open(fresh)
        BY DEF Next, Boot, BootFails, Begin, Answered, Told, Failed, Conversation,
               Checkpoint, NewDay, TimePasses, Stop, Dies, Crash, CrashWhileStopping,
               CrashAfterBond
      <2>2. QED
        BY <1>1, <2>1, OpenBacksUp DEF Inv
    <1>2. QED
      BY <1>1, Invariant, PTL DEF Spec, StoppedWorldIsBackedUp
=============================================================================
