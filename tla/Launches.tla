------------------------------ MODULE Launches ------------------------------
(***************************************************************************)
(* The life of a world over many launches: main and boot of __main__.py,   *)
(* the file side of db.py, and the logbook of logbook.py, which tells at   *)
(* each launch what happened while the process was not running.            *)
(*                                                                         *)
(* The database is in WAL mode: what is committed survives a crash, but    *)
(* peerport.db itself holds it only after a checkpoint, and the backups    *)
(* copy peerport.db alone.  Of such a file the model keeps whether it is   *)
(* "whole", holding all that is committed, or "behind".  The clock of the  *)
(* world and the time of the shutdown are written when main ends, and at   *)
(* no other time.                                                          *)
(***************************************************************************)
EXTENDS Integers, Sequences, FiniteSets

CONSTANTS Away,        \* ABSENCE_THRESHOLD_SECONDS
          Interval,    \* WEEKLY_SUMMARY_INTERVAL_DAYS
          Keep,        \* DEFAULT_BACKUP_KEEP
          ScoreMax,    \* SCORE_MAX; SCORE_MIN is its negative
          Delta,       \* LOGBOOK_RELATIONSHIP_DELTA
          Deltas,      \* what a conversation may change a relationship by
          Batches,     \* accepted batches: for each event, whether it moves the pair
          MaxLaunches, \* bound: launches
          MaxNow,      \* bound: real time
          MaxDay       \* bound: world days

ASSUME LogbookAssumption ==
    Away \in Nat \ {0} /\ Interval \in Nat \ {0} /\ Keep \in Nat \ {0}
ASSUME LedgerAssumption == ScoreMax \in Nat /\ Delta \in Int /\ Deltas \subseteq Int
ASSUME BatchesAssumption == Batches \subseteq Seq(BOOLEAN)
ASSUME BoundsAssumption ==
    MaxLaunches \in Nat /\ MaxNow \in Nat /\ MaxDay \in Nat

VARIABLES
    world,    \* what is committed
    file,     \* peerport.db: "none", "behind" or "whole"
    archives, \* data/backups, oldest first: what the file was when copied
    boot,     \* the process and its run_boot_generation
    today,    \* the world day
    now,      \* real time
    launches, \* launches so far
    past      \* history, see Init

vars == <<world, file, archives, boot, today, now, launches, past>>

\* The rows of the logbook, the score of one pair of peers, the day of the last
\* weekly summary, and the day and the time of the last shutdown (0: never).
Blank == [rows |-> <<>>, score |-> 0, week |-> 0, day |-> 1, stopped |-> 0]

Down == [stage |-> "down", weekly |-> FALSE, batch |-> "none", since |-> 0,
         day |-> 0, date |-> 0, left |-> <<>>]

\* bonds: deltas the logbook has applied to the pair; cut: launches that left a
\* batch half told; crashed: launches that crashed; clean: the last launch ended
\* in main's finally.
NoPast == [bonds |-> 0, cut |-> {}, crashed |-> {}, clean |-> TRUE]

Init ==
    /\ world = Blank
    /\ file = "none"
    /\ archives = <<>>
    /\ boot = Down
    /\ today = 1
    /\ now = 1
    /\ launches = 0
    /\ past = NoPast

\* Mutant: only the upper end is kept.
ClampTop(score) == IF score > ScoreMax THEN ScoreMax ELSE score

Clamp(score) ==
    IF score > ScoreMax THEN ScoreMax ELSE IF score < -ScoreMax THEN -ScoreMax ELSE score

\* What is committed goes to the log beside the file.
Commit == file' = IF world' = world THEN file ELSE "behind"

Up == boot.stage # "down"
Telling == boot.stage = "tell"

-----------------------------------------------------------------------------
(* boot: the data layer.                                                   *)

\* rotate_backups: the newest Keep.
Newest(backups) ==
    IF Len(backups) <= Keep THEN backups
    ELSE SubSeq(backups, Len(backups) - Keep + 1, Len(backups))

\* backup_db or reset_fresh, open_db, rotate_backups.
Open(fresh) ==
    /\ boot.stage = "down"
    /\ launches < MaxLaunches
    /\ launches' = launches + 1
    /\ world' = IF fresh THEN Blank ELSE world
    /\ archives' = IF file = "none" THEN archives ELSE Newest(Append(archives, file))
    /\ UNCHANGED now

PastOf(fresh) == IF fresh THEN NoPast ELSE past

\* Mutant: every launch starts on the first day.
BootOnDayOne(fresh, weekly) ==
    /\ Open(fresh)
    /\ file' = IF fresh \/ file = "none" THEN "behind" ELSE file
    /\ today' = 1
    /\ boot' = [Down EXCEPT !.stage = "start", !.weekly = weekly]
    /\ past' = PastOf(fresh)

\* main up to uvicorn.run; the log of committed changes stays beside the file.
Boot(fresh, weekly) ==
    /\ Open(fresh)
    /\ file' = IF fresh \/ file = "none" THEN "behind" ELSE file
    /\ today' = world'.day
    /\ boot' = [Down EXCEPT !.stage = "start", !.weekly = weekly]
    /\ past' = PastOf(fresh)

\* Invalid personas or map data: the connection is closed, nothing is saved.
BootFails(fresh) ==
    /\ Open(fresh)
    /\ file' = "whole"
    /\ past' = [PastOf(fresh) EXCEPT !.clean = TRUE]
    /\ UNCHANGED <<boot, today>>

-----------------------------------------------------------------------------
(* The logbook.                                                            *)

Asking(batch, since, day) ==
    [Down EXCEPT !.stage = "ask", !.weekly = boot.weekly, !.batch = batch,
                 !.since = since, !.day = day]

Rest == [Down EXCEPT !.stage = "run"]

\* maybe_generate_weekly_summary up to the model call.
WeeklyDue == boot.weekly /\ today - world.week >= Interval
WeeklySummary == IF WeeklyDue THEN Asking("weekly", 0, today) ELSE Rest

\* maybe_generate_absence_report up to the model call.
AbsenceDue == world.stopped # 0 /\ now - world.stopped >= Away

Begin ==
    /\ boot.stage = "start"
    /\ boot' = IF AbsenceDue THEN Asking("absence", world.stopped, 0) ELSE WeeklySummary
    /\ UNCHANGED <<world, file, archives, today, now, launches, past>>

\* The world time of all rows of a batch is taken before the first.
Date == IF Telling THEN boot.date ELSE today

\* The launch of a row and the day its summary was asked for are history.
Row(pair) ==
    [batch |-> boot.batch, since |-> boot.since, asked |-> boot.day, day |-> Date,
     launch |-> launches, pair |-> pair]

\* The next event: its row, then the memories of its peers are awaited.  An
\* event that names no peer has no await and counts with the one after it.
Tell(w, events) ==
    /\ world' = [w EXCEPT !.rows = Append(@, Row(Head(events)))]
    /\ boot' = [boot EXCEPT !.stage = "tell", !.date = Date, !.left = events]

\* Mutant: the summary is not marked as written.
FinishUnmarked(w) ==
    /\ world' = w
    /\ boot' = IF boot.batch = "absence" THEN WeeklySummary ELSE Rest

\* The batch is complete: the summary follows the report, its mark ends it.
Finish(w) ==
    IF boot.batch = "absence"
    THEN /\ world' = w
         /\ boot' = WeeklySummary
    ELSE /\ world' = [w EXCEPT !.week = boot.day]
         /\ boot' = Rest

Continue(w, events) == IF events = <<>> THEN Finish(w) ELSE Tell(w, events)

\* The accepted events, each about a pair of peers or not; none if the call was
\* skipped or everything was rejected.
Answered(events) ==
    /\ boot.stage = "ask"
    /\ Continue(world, events)
    /\ Commit
    /\ UNCHANGED <<archives, today, now, launches, past>>

\* _apply_relationship_delta.
Bonded(w) == IF Head(boot.left) THEN [w EXCEPT !.score = Clamp(@ + Delta)] ELSE w
Bonds == IF Head(boot.left) THEN 1 ELSE 0

\* The memories of the event are written.
Told ==
    /\ Telling
    /\ Continue(Bonded(world), Tail(boot.left))
    /\ Commit
    /\ past' = [past EXCEPT !.bonds = @ + Bonds]
    /\ UNCHANGED <<archives, today, now, launches>>

\* Mutant: the batch is asked for again.
FailedRetries ==
    /\ boot.stage \in {"ask", "tell"}
    /\ boot' = [boot EXCEPT !.stage = "ask"]
    /\ past' = IF Telling THEN [past EXCEPT !.cut = @ \cup {launches}] ELSE past
    /\ UNCHANGED <<world, file, archives, today, now, launches>>

\* The model, or the database, raises: the task ends.
Failed ==
    /\ boot.stage \in {"ask", "tell"}
    /\ boot' = Rest
    /\ past' = IF Telling THEN [past EXCEPT !.cut = @ \cup {launches}] ELSE past
    /\ UNCHANGED <<world, file, archives, today, now, launches>>

-----------------------------------------------------------------------------
(* The running world and its end.                                          *)

\* The outcome of a conversation of the pair (converse.py _finish).
Conversation(delta) ==
    /\ Up
    /\ world' = [world EXCEPT !.score = Clamp(@ + delta)]
    /\ Commit
    /\ UNCHANGED <<archives, boot, today, now, launches, past>>

\* SQLite copies its log into peerport.db.
Checkpoint ==
    /\ Up
    /\ file' = "whole"
    /\ UNCHANGED <<world, archives, boot, today, now, launches, past>>

NewDay ==
    /\ Up
    /\ today < MaxDay
    /\ today' = today + 1
    /\ UNCHANGED <<world, file, archives, boot, now, launches, past>>

TimePasses ==
    /\ now < MaxNow
    /\ now' = now + 1
    /\ UNCHANGED <<world, file, archives, boot, today, launches, past>>

Cut == IF Telling THEN past.cut \cup {launches} ELSE past.cut

\* Mutant: the time of the shutdown is only written once.
StopKeepingTime ==
    /\ Up
    /\ world' = [world EXCEPT !.day = today,
                              !.stopped = IF @ = 0 THEN now ELSE @]
    /\ file' = "whole"
    /\ boot' = Down
    /\ past' = [past EXCEPT !.clean = TRUE, !.cut = Cut]
    /\ UNCHANGED <<archives, today, now, launches>>

\* Mutant: the connection is not closed.
StopWithoutClose ==
    /\ Up
    /\ world' = [world EXCEPT !.day = today, !.stopped = now]
    /\ file' = "behind"
    /\ boot' = Down
    /\ past' = [past EXCEPT !.clean = TRUE, !.cut = Cut]
    /\ UNCHANGED <<archives, today, now, launches>>

\* The finally of main, after a shutdown or a failed start of the server; the
\* boot task is cancelled where it waits.
Stop ==
    /\ Up
    /\ world' = [world EXCEPT !.day = today, !.stopped = now]
    /\ file' = "whole"
    /\ boot' = Down
    /\ past' = [past EXCEPT !.clean = TRUE, !.cut = Cut]
    /\ UNCHANGED <<archives, today, now, launches>>

\* The process dies, also between the transactions of Stop and of Told.
Dies(w, bonds) ==
    /\ Up
    /\ world' = w
    /\ boot' = Down
    /\ past' = [bonds |-> past.bonds + bonds, cut |-> Cut,
                crashed |-> past.crashed \cup {launches}, clean |-> FALSE]
    /\ Commit
    /\ UNCHANGED <<archives, today, now, launches>>

Crash == Dies(world, 0)
CrashWhileStopping == Dies([world EXCEPT !.day = today], 0)
CrashAfterBond == Telling /\ Dies(Bonded(world), Bonds)

Next ==
    \/ \E fresh \in BOOLEAN : BootFails(fresh) \/ \E weekly \in BOOLEAN : Boot(fresh, weekly)
    \/ Begin
    \/ \E events \in Batches : Answered(events)
    \/ Told \/ Failed
    \/ \E delta \in Deltas : Conversation(delta)
    \/ Checkpoint \/ NewDay \/ TimePasses
    \/ Stop \/ Crash \/ CrashWhileStopping \/ CrashAfterBond

Spec == Init /\ [][Next]_vars

-----------------------------------------------------------------------------
(* Properties.                                                             *)

Events == [batch : {"absence", "weekly"}, since : Nat, asked : Nat, day : Nat,
           launch : Nat, pair : BOOLEAN]
Worlds == [rows : Seq(Events), score : -ScoreMax .. ScoreMax, week : Nat, day : Nat,
           stopped : Nat]

\* The logbook, the clocks, the files and the boot task keep their types, and
\* the score of the pair stays between its ends (save_relationship).
TypeOK ==
    /\ world \in Worlds
    /\ file \in {"none", "behind", "whole"}
    /\ archives \in Seq({"behind", "whole"})
    /\ boot \in [stage : {"down", "start", "ask", "tell", "run"}, weekly : BOOLEAN,
                 batch : {"none", "absence", "weekly"}, since : Nat, day : Nat,
                 date : Nat, left : Seq(BOOLEAN)]
    /\ today \in Nat /\ now \in Nat /\ launches \in Nat
    /\ past \in [bonds : Nat, cut : SUBSET Nat, crashed : SUBSET Nat, clean : BOOLEAN]

Rows == DOMAIN world.rows

\* Two launches report the same absence only if the first of them crashed: the
\* time that is compared is the one main's finally wrote, in every other case
\* a newer one (maybe_generate_absence_report, main).
AbsenceToldOnce ==
    \A i, j \in Rows :
        LET first == world.rows[i]  second == world.rows[j]
        IN  /\ first.batch = "absence" /\ second.batch = "absence"
            /\ first.since = second.since /\ first.launch < second.launch
            => first.launch \in past.crashed

\* Two weekly summaries lie an interval apart, over any launches, unless the
\* first was cut off in the middle and has no mark (maybe_generate_weekly_summary).
SummariesSpaced ==
    \A i, j \in Rows :
        LET first == world.rows[i]  second == world.rows[j]
        IN  /\ first.batch = "weekly" /\ second.batch = "weekly"
            /\ first.launch < second.launch /\ first.launch \notin past.cut
            => second.asked >= first.asked + Interval

\* The logbook moves a relationship once for each of its rows about a pair, and
\* only a launch that was cut off can leave a row that moved nothing: one such
\* row at most (_persist).
Pairs == {i \in Rows : world.rows[i].pair}
BondsFollowRows ==
    /\ past.bonds <= Cardinality(Pairs)
    /\ Cardinality(Pairs) <= past.bonds + Cardinality(past.cut)
                               + (IF Telling THEN 1 ELSE 0)

\* The chronicle runs forward in world time; a day comes again only after a
\* crash, with the clock of the last clean shutdown (load_world_seconds).
ChronicleInOrder ==
    \A i, j \in Rows :
        i < j /\ world.rows[j].day < world.rows[i].day
            => \E l \in past.crashed :
                  world.rows[i].launch <= l /\ l < world.rows[j].launch

\* After a launch that ended in main's finally, the newest backup of the next one
\* holds all of the world, whatever was still in the log of the database before
\* (backup_db, reset_fresh).
Newly == archives'[Len(archives')]
StoppedWorldIsBackedUp ==
    [][launches' # launches /\ past.clean /\ file # "none"
          => archives' # <<>> /\ Newly = "whole"]_vars

\* What reset_fresh says of every world: "Archive the existing database, then
\* remove it".
FreshArchivesWorld ==
    [][\A weekly \in BOOLEAN :
          Boot(TRUE, weekly) /\ world # Blank => archives' # <<>> /\ Newly = "whole"]_vars
=============================================================================
