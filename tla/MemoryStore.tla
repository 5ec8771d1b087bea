----------------------------- MODULE MemoryStore -----------------------------
(***************************************************************************)
(* The `memories` table and the tasks that work on it: memory/stream.py    *)
(* (writes and batched scoring), memory/reflect.py (reflection and         *)
(* Summarize-and-Forget), the summary of a Keeper exchange in              *)
(* mate/chat.py, and the day and band arithmetic of world/clock.py.        *)
(*                                                                         *)
(* Every task reads rows, waits for the model or an embedding, and writes  *)
(* by row id; the others run in between.  A text is what it is about: the  *)
(* ids of the memories whose content it carries.  The order of the peers   *)
(* within one round of a loop is left open.                                *)
(***************************************************************************)
EXTENDS Integers, Sequences, FiniteSets

CONSTANTS Peers,           \* the peer ids the loops go through
          Mate,            \* the peer that chats with the Keeper
          RawScores,       \* what the model may answer as a score
          MaxImportance,   \* MAX_IMPORTANCE
          KeeperBias,      \* KEEPER_BIAS
          Threshold,       \* UNREFLECTED_THRESHOLD
          MinInsights,     \* MIN_INSIGHTS
          MaxInsights,     \* MAX_INSIGHTS
          ForgetThreshold, \* FORGET_THRESHOLD
          ClusterSize,     \* FORGET_CLUSTER_SIZE
          MaxWrites,       \* bound: ids used when a writer still writes
          MaxIds,          \* bound: ids used when a reflection or folding starts
          MaxNow,          \* bound: light bands the world lives through
          MaxLaunches      \* bound: launches of the process

ASSUME PeersAssumption == Mate \in Peers
ASSUME ScoresAssumption ==
    RawScores \subseteq Int /\ MaxImportance \in Nat \ {0} /\ KeeperBias \in Nat
ASSUME ReflectAssumption ==
    /\ Threshold \in Nat
    /\ MinInsights \in Nat \ {0}
    /\ MaxInsights \in Nat /\ MaxInsights >= MinInsights
ASSUME ForgetAssumption == ForgetThreshold \in Nat /\ ClusterSize \in Nat \ {0}
ASSUME BoundsAssumption ==
    MaxWrites \in Nat /\ MaxIds \in Nat /\ MaxNow \in Nat /\ MaxLaunches \in Nat \ {0}

VARIABLES
    table,      \* the live rows, by id
    now,        \* the world clock, counted in light bands
    saved,      \* the clock the last clean shutdown stored
    lastDay,    \* last_reflection_day:<peer>, 0 while unset
    launches,   \* how often the process was started
    scorer,     \* run_scoring_loop: the peer and the rows listed in its prompt
    keeper,     \* MateChat._summarize: the row whose scoring it awaits, or 0
    reflection, \* run_reflection_loop
    forgetting, \* run_forgetting_loop
    lastId,     \* history: the largest id a row ever had
    digested,   \* history: ids a finished reflection read or wrote
    biased      \* history: ids scored with the bias of the Keeper, see KeeperScored

vars == <<table, now, saved, lastDay, launches, scorer, keeper, reflection,
          forgetting, lastId, digested, biased>>

Day == now \div 4 + 1
IsNight == now % 4 = 3

\* importance IS NULL
Pending == 0

\* Mutant: only the ceiling of the scale is kept off.
ClampFloor(raw, bias) == IF raw + bias < 1 THEN 1 ELSE raw + bias

Clamp(raw, bias) ==
    IF raw + bias < 1 THEN 1
    ELSE IF raw + bias > MaxImportance THEN MaxImportance ELSE raw + bias

RowsOf(t, p) == {i \in DOMAIN t : t[i].peer = p}
Unreflected(p) == {i \in RowsOf(table, p) : ~table[i].reflected}

\* Mutant: a row is listed again as long as no reflection has read it.
UnscoredOrFresh(p) == Unreflected(p)

Unscored(p) == {i \in RowsOf(table, p) : table[i].importance = Pending}

\* INTEGER PRIMARY KEY without AUTOINCREMENT: one more than the largest id of
\* the rows that are left.
NextId(t) ==
    IF DOMAIN t = {} THEN 1
    ELSE 1 + CHOOSE i \in DOMAIN t : \A j \in DOMAIN t : j <= i

Insert(t, p, importance, about) ==
    [i \in DOMAIN t \cup {NextId(t)} |->
        IF i = NextId(t)
        THEN [peer |-> p, importance |-> importance, reflected |-> FALSE,
              about |-> about \cup {i}]
        ELSE t[i]]

Delete(t, ids) == [i \in DOMAIN t \ ids |-> t[i]]

\* UPDATE ... WHERE id = ?, which does nothing for a row that is gone.
Reflect(t, ids) ==
    [i \in DOMAIN t |-> IF i \in ids THEN [t[i] EXCEPT !.reflected = TRUE] ELSE t[i]]
Score(t, scores, bias) ==
    [i \in DOMAIN t |->
        IF i \in DOMAIN scores
        THEN [t[i] EXCEPT !.importance = Clamp(scores[i], bias)] ELSE t[i]]

\* An INSERT was committed.
Inserted(t) == lastId' = IF NextId(t) > lastId THEN NextId(t) ELSE lastId

Idle == [stage |-> "idle", peer |-> Mate, read |-> {}, made |-> {}, left |-> 0]
Unfolding == [stage |-> "idle", peer |-> Mate, cluster |-> {}, gist |-> {}]
Resting == [peer |-> Mate, read |-> {}]

Init ==
    /\ table = [i \in {} |-> Idle]
    /\ now = 0
    /\ saved = 0
    /\ lastDay = [p \in Peers |-> 0]
    /\ launches = 1
    /\ scorer = Resting
    /\ keeper = 0
    /\ reflection = Idle
    /\ forgetting = Unfolding
    /\ lastId = 0
    /\ digested = {}
    /\ biased = {}

history == <<lastId, digested, biased>>
clock == <<now, saved, lastDay, launches>>

-----------------------------------------------------------------------------
(* Writers.                                                                *)

\* MemoryStream.write without an importance, by decisions, conversations,
\* letters, note actions and the logbook.  The embedding comes before the
\* insert; its failure leaves a row without a vector.
Write(p) ==
    /\ lastId < MaxWrites
    /\ table' = Insert(table, p, Pending, {})
    /\ Inserted(table)
    /\ UNCHANGED <<clock, scorer, keeper, reflection, forgetting, digested, biased>>

\* MateChat._summarize: the row is inserted and its scoring call leaves with
\* no suspension in between.  The chat lock admits one exchange at a time.
KeeperExchange ==
    /\ keeper = 0
    /\ lastId < MaxWrites
    /\ table' = Insert(table, Mate, Pending, {})
    /\ Inserted(table)
    /\ keeper' = NextId(table)
    /\ UNCHANGED <<clock, scorer, reflection, forgetting, digested, biased>>

\* The answer is stored whatever importance the row has by now.  If the loop has
\* listed the row before, its answer overwrites this one; biased leaves it out.
KeeperScored(raw) ==
    /\ keeper # 0
    /\ table' = Score(table, [i \in {keeper} |-> raw], KeeperBias)
    /\ biased' = biased \cup ({keeper} \ scorer.read)
    /\ keeper' = 0
    /\ UNCHANGED <<clock, scorer, reflection, forgetting, lastId, digested>>

\* Skipped, failed or without a score: the row stays pending for the loop.
KeeperUnscored ==
    /\ keeper # 0
    /\ keeper' = 0
    /\ UNCHANGED <<table, clock, scorer, reflection, forgetting, history>>

-----------------------------------------------------------------------------
(* run_scoring_loop.                                                       *)

\* Mutant: only the Mate is ever scored, as before the loop existed.
ScoreReadMate(p) ==
    /\ p = Mate
    /\ scorer.read = {}
    /\ Unscored(p) # {}
    /\ scorer' = [peer |-> p, read |-> Unscored(p)]
    /\ UNCHANGED <<table, clock, keeper, reflection, forgetting, history>>

ScoreRead(p) ==
    /\ scorer.read = {}
    /\ Unscored(p) # {}
    /\ scorer' = [peer |-> p, read |-> Unscored(p)]
    /\ UNCHANGED <<table, clock, keeper, reflection, forgetting, history>>

\* The first ids of the listing, as many as the model gave scores for.
Prefixes(ids) == {s \in SUBSET ids : \A i \in s : \A j \in ids \ s : i < j}

ScoreAnswered(answered) ==
    /\ scorer.read # {}
    /\ answered \in Prefixes(scorer.read)
    /\ \E scores \in [answered -> RawScores] : table' = Score(table, scores, 0)
    /\ scorer' = Resting
    /\ UNCHANGED <<clock, keeper, reflection, forgetting, history>>

-----------------------------------------------------------------------------
(* Reflection.                                                             *)

NightDue(p) == IsNight /\ lastDay[p] # Day
CountDue(p) == Cardinality(Unreflected(p)) >= Threshold

ReflectBegin(p) ==
    /\ reflection.stage = "idle"
    /\ lastId < MaxIds
    /\ NightDue(p) \/ CountDue(p)
    /\ reflection' = [Idle EXCEPT !.stage = "ask", !.peer = p, !.read = Unreflected(p)]
    /\ UNCHANGED <<table, clock, scorer, keeper, forgetting, history>>

\* Fewer than MIN_INSIGHTS, or a skipped call: asked once more.
ReflectAgain ==
    /\ reflection.stage = "ask"
    /\ reflection' = [reflection EXCEPT !.stage = "ask again"]
    /\ UNCHANGED <<table, clock, scorer, keeper, forgetting, history>>

\* Mutant: every row of the peer is marked.
MarkedAll(t) ==
    /\ table' = Reflect(t, RowsOf(t, reflection.peer))
    /\ digested' = digested \cup reflection.read \cup reflection.made
                       \cup (DOMAIN t \ DOMAIN table)
    /\ lastDay' = [lastDay EXCEPT ![reflection.peer] = Day]
    /\ reflection' = Idle

\* What is marked is what was listed and the insights, on the day it is now.
Marked(t) ==
    /\ table' = Reflect(t, reflection.read \cup reflection.made \cup (DOMAIN t \ DOMAIN table))
    /\ digested' = digested \cup reflection.read \cup reflection.made
                       \cup (DOMAIN t \ DOMAIN table)
    /\ lastDay' = [lastDay EXCEPT ![reflection.peer] = Day]
    /\ reflection' = Idle

\* No insight from the second request: nothing to write, all is marked.
ReflectEmpty ==
    /\ reflection.stage = "ask again"
    /\ Marked(table)
    /\ UNCHANGED <<now, saved, launches, scorer, keeper, forgetting, lastId, biased>>

ReflectAnswered(insights) ==
    /\ \/ reflection.stage = "ask" /\ insights >= MinInsights
       \/ reflection.stage = "ask again" /\ insights >= 1
    /\ reflection' = [reflection EXCEPT !.stage = "write", !.left = insights]
    /\ UNCHANGED <<table, clock, scorer, keeper, forgetting, history>>

\* An insight was embedded and is inserted; after the last one the marks follow
\* without a suspension.
ReflectWrite(raw) ==
    /\ reflection.stage = "write"
    /\ Inserted(table)
    /\ LET t == Insert(table, reflection.peer, Clamp(raw, 0), reflection.read)
       IN  \/ /\ reflection.left > 1
              /\ table' = t
              /\ reflection' = [reflection EXCEPT !.left = @ - 1,
                                                  !.made = @ \cup {NextId(table)}]
              /\ UNCHANGED <<lastDay, digested>>
           \/ reflection.left = 1 /\ Marked(t)
    /\ UNCHANGED <<now, saved, launches, scorer, keeper, forgetting, biased>>

\* A call raised; the loop logs it and goes on.
ReflectFail ==
    /\ reflection.stage \in {"ask", "ask again"}
    /\ reflection' = Idle
    /\ UNCHANGED <<table, clock, scorer, keeper, forgetting, history>>

-----------------------------------------------------------------------------
(* Forgetting.                                                             *)

\* Mutant: pending rows, which SQLite sorts first, are not left out.
ClustersOfAll(p) ==
    LET rows == RowsOf(table, p)
    IN  {c \in SUBSET rows :
            /\ Cardinality(c) = IF Cardinality(rows) < ClusterSize
                                THEN Cardinality(rows) ELSE ClusterSize
            /\ \A i \in c : \A j \in rows \ c :
                   table[i].importance <= table[j].importance}

\* ORDER BY importance, ts_world LIMIT size; which of equal rows come first
\* is left open.
Clusters(p) ==
    LET scored == RowsOf(table, p) \ Unscored(p)
    IN  {c \in SUBSET scored :
            /\ Cardinality(c) = IF Cardinality(scored) < ClusterSize
                                THEN Cardinality(scored) ELSE ClusterSize
            /\ \A i \in c : \A j \in scored \ c :
                   table[i].importance <= table[j].importance}

ForgetBegin(p) ==
    /\ forgetting.stage = "idle"
    /\ lastId < MaxIds
    /\ Cardinality(RowsOf(table, p)) > ForgetThreshold
    /\ \E c \in Clusters(p) :
         /\ c # {}
         /\ forgetting' = [stage |-> "ask", peer |-> p, cluster |-> c,
                           gist |-> UNION {table[i].about : i \in c}]
    /\ UNCHANGED <<table, clock, scorer, keeper, reflection, history>>

ForgetAnswered ==
    /\ forgetting.stage = "ask"
    /\ forgetting' = [forgetting EXCEPT !.stage = "write"]
    /\ UNCHANGED <<table, clock, scorer, keeper, reflection, history>>

\* Failed, skipped or invalid: every row stays.
ForgetDefer ==
    /\ forgetting.stage = "ask"
    /\ forgetting' = Unfolding
    /\ UNCHANGED <<table, clock, scorer, keeper, reflection, history>>

Summarised(raw) == Insert(table, forgetting.peer, Clamp(raw, 0), forgetting.gist)

\* Mutant: the cluster is deleted before the summary is inserted.
ForgetFoldLate(raw) ==
    /\ forgetting.stage = "write"
    /\ table' = Insert(Delete(table, forgetting.cluster), forgetting.peer,
                       Clamp(raw, 0), forgetting.gist)
    /\ Inserted(Delete(table, forgetting.cluster))
    /\ forgetting' = Unfolding
    /\ UNCHANGED <<clock, scorer, keeper, reflection, digested, biased>>

\* The summary was embedded: it is inserted, then the cluster is deleted.
ForgetFold(raw) ==
    /\ forgetting.stage = "write"
    /\ table' = Delete(Summarised(raw), forgetting.cluster)
    /\ Inserted(table)
    /\ forgetting' = Unfolding
    /\ UNCHANGED <<clock, scorer, keeper, reflection, digested, biased>>

-----------------------------------------------------------------------------
(* The world and the process.                                              *)

Tick ==
    /\ now < MaxNow
    /\ now' = now + 1
    /\ UNCHANGED <<table, saved, lastDay, launches, scorer, keeper, reflection,
                   forgetting, history>>

Restart ==
    /\ launches < MaxLaunches
    /\ launches' = launches + 1
    /\ scorer' = Resting
    /\ keeper' = 0
    /\ reflection' = Idle
    /\ forgetting' = Unfolding

\* A clean shutdown stores the clock and cancels every task where it waits.
Stop ==
    /\ Restart
    /\ saved' = now
    /\ UNCHANGED <<table, now, lastDay, history>>

\* A crash does not store it.
Crash ==
    /\ Restart
    /\ now' = saved
    /\ UNCHANGED <<table, saved, lastDay, history>>

\* Mutant: the cluster is out, the summary is not in.
CrashAfterDelete(raw) ==
    /\ forgetting.stage = "write"
    /\ Restart
    /\ table' = Delete(table, forgetting.cluster)
    /\ now' = saved
    /\ UNCHANGED <<saved, lastDay, lastId, digested, biased>>

\* A crash between the transactions of one step: the summary is in, the
\* cluster is not out.
CrashWhileFolding(raw) ==
    /\ forgetting.stage = "write"
    /\ Restart
    /\ table' = Summarised(raw)
    /\ Inserted(table)
    /\ now' = saved
    /\ UNCHANGED <<saved, lastDay, digested, biased>>

\* The last insight is in, but nothing is marked.
CrashWhileMarking(raw) ==
    /\ reflection.stage = "write" /\ reflection.left = 1
    /\ Restart
    /\ table' = Insert(table, reflection.peer, Clamp(raw, 0), reflection.read)
    /\ Inserted(table)
    /\ now' = saved
    /\ UNCHANGED <<saved, lastDay, digested, biased>>

Next ==
    \/ \E p \in Peers : Write(p) \/ ScoreRead(p) \/ ReflectBegin(p) \/ ForgetBegin(p)
    \/ KeeperExchange \/ KeeperUnscored
    \/ \E raw \in RawScores :
         \/ KeeperScored(raw) \/ ReflectWrite(raw) \/ ForgetFold(raw)
         \/ CrashWhileFolding(raw) \/ CrashWhileMarking(raw)
    \/ \E answered \in SUBSET scorer.read : ScoreAnswered(answered)
    \/ \E insights \in 1 .. MaxInsights : ReflectAnswered(insights)
    \/ ReflectAgain \/ ReflectEmpty \/ ReflectFail
    \/ ForgetAnswered \/ ForgetDefer
    \/ Tick \/ Stop \/ Crash

Spec == Init /\ [][Next]_vars

\* The loop visits the peers in turn, and the model scores a whole listing
\* again and again.
Fairness ==
    /\ \A p \in Peers : SF_vars(ScoreRead(p))
    /\ SF_vars(scorer.read # {} /\ ScoreAnswered(scorer.read))

FairSpec == Spec /\ Fairness

-----------------------------------------------------------------------------
(* Properties.                                                             *)

Rows == [peer : Peers, importance : 0 .. MaxImportance, reflected : BOOLEAN,
         about : SUBSET Nat]

TableTypes ==
    /\ DOMAIN table \subseteq Nat \ {0}
    /\ \A i \in DOMAIN table : table[i] \in Rows
    /\ lastId \in Nat
    /\ digested \subseteq Nat /\ biased \subseteq Nat

ClockTypes ==
    /\ now \in Nat /\ saved \in Nat /\ launches \in Nat
    /\ lastDay \in [Peers -> Nat]

TaskTypes ==
    /\ scorer \in [peer : Peers, read : SUBSET Nat]
    /\ keeper \in Nat
    /\ reflection \in [stage : {"idle", "ask", "ask again", "write"}, peer : Peers,
                       read : SUBSET Nat, made : SUBSET Nat, left : 0 .. MaxInsights]
    /\ forgetting \in [stage : {"idle", "ask", "write"}, peer : Peers,
                       cluster : SUBSET Nat, gist : SUBSET Nat]

\* Every row belongs to a peer and has an importance that is pending or in the
\* scale; every task holds row ids and a stage of its code.
TypeOK == TableTypes /\ ClockTypes /\ TaskTypes

\* Summarize-and-Forget loses nothing: whatever was once remembered is still
\* told by a live row, its own or a summary, also after failed calls and after
\* crashes (forget_once).
NothingForgottenUnsummarised ==
    \A i \in 1 .. lastId : \E r \in DOMAIN table : i \in table[r].about

\* An id is never given to a second memory, so that a score, a mark or a
\* deletion that arrives late never meets another memory than the one its task
\* read.  SQLite would reuse the id of a deleted last row; forget_once inserts
\* before it deletes (memory/reflect.py, db.py).
IdsNeverReused == [][\A i \in DOMAIN table' \ DOMAIN table : i > lastId]_vars

\* A memory that has no importance yet is never folded away (_forget_cluster),
\* even if it was written while the summary of a cluster was awaited.
PendingNeverForgotten ==
    [][\A i \in DOMAIN table \ DOMAIN table' : table[i].importance # Pending]_vars

\* A row is marked reflected exactly if a reflection that finished has read or
\* written it: what comes in while the insights are awaited waits for the next
\* one, and a reflection that failed or crashed takes nothing away (_reflect).
ReflectedAsRead == \A i \in DOMAIN table : table[i].reflected <=> i \in digested

\* No memory stays pending for ever: it is scored or folded into a summary
\* (run_scoring_loop), as long as the model answers again and again.
EveryMemoryIsScored ==
    \A i \in 1 .. MaxWrites :
        i \in DOMAIN table ~> (i \in DOMAIN table => table[i].importance # Pending)

\* The memory of an exchange with the Keeper keeps the bias it was scored with
\* (_summarize), whatever the loop scores later: only an answer to a listing
\* made before the biased score arrived can take it away.
KeeperBiasKept ==
    \A i \in biased \cap DOMAIN table :
        \E raw \in RawScores : table[i].importance = Clamp(raw, KeeperBias)
=============================================================================
