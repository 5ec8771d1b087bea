------------------------- MODULE MemoryStore_proofs -------------------------
(***************************************************************************)
(* Theorems about MemoryStore, for any peers, scores, thresholds and       *)
(* bounds.                                                                 *)
(***************************************************************************)
EXTENDS MemoryStore, TLAPS

\* The row with the largest id ever used is always there: it is the one thing
\* that keeps SQLite from using an id again.
TopRow ==
    /\ \A i \in DOMAIN table : i <= lastId
    /\ lastId > 0 => lastId \in DOMAIN table

\* What is being folded is still in the table, scored, and told by the prompt.
FoldingKept ==
    forgetting.stage # "idle" =>
        \A i \in forgetting.cluster :
            /\ i \in DOMAIN table
            /\ table[i].importance # Pending
            /\ table[i].about \subseteq forgetting.gist

\* Only ids that exist are read, made and digested.
Known == reflection.read \cup reflection.made \cup digested \subseteq 1 .. lastId

TableInv == TableTypes /\ TopRow

-----------------------------------------------------------------------------
(* The statements of the table.                                            *)

\* A clamped score is in the scale.
LEMMA ClampTypes ==
    ASSUME NEW raw \in RawScores, NEW bias \in Nat
    PROVE  Clamp(raw, bias) \in 1 .. MaxImportance
    BY ScoresAssumption DEF Clamp

\* The next id is one more than the largest ever used.
LEMMA NextIdIsFresh ==
    ASSUME TableInv
    PROVE  NextId(table) = lastId + 1
    <1>1. CASE DOMAIN table = {}
      BY <1>1 DEF TableInv, TopRow, TableTypes, NextId
    <1>2. CASE DOMAIN table # {}
      <2> DEFINE top == CHOOSE i \in DOMAIN table : \A j \in DOMAIN table : j <= i
      <2>1. lastId \in DOMAIN table /\ lastId \in Nat
        BY <1>2 DEF TableInv, TopRow, TableTypes
      <2>2. \A i \in DOMAIN table : (\A j \in DOMAIN table : j <= i) => i = lastId
        BY <2>1 DEF TableInv, TopRow, TableTypes
      <2>3. top = lastId
        BY <2>1, <2>2 DEF TableInv, TopRow
      <2>4. NextId(table) = 1 + top
        BY <1>2, Zenon DEF NextId
      <2> HIDE DEF top
      <2>5. QED
        BY <2>1, <2>3, <2>4
    <1>3. QED
      BY <1>1, <1>2

\* An INSERT adds exactly one row, with a new id, and changes no other.
LEMMA InsertAddsRow ==
    ASSUME TableInv, NEW p \in Peers, NEW importance \in 0 .. MaxImportance,
           NEW about \in SUBSET Nat
    PROVE  LET t == Insert(table, p, importance, about)
           IN  /\ DOMAIN t = DOMAIN table \cup {lastId + 1}
               /\ lastId + 1 \notin DOMAIN table
               /\ \A i \in DOMAIN table : t[i] = table[i]
               /\ t[lastId + 1] = [peer |-> p, importance |-> importance,
                                   reflected |-> FALSE,
                                   about |-> about \cup {lastId + 1}]
               /\ \A i \in DOMAIN t : t[i] \in Rows
               /\ DOMAIN t \subseteq Nat \ {0}
    <1>1. NextId(table) = lastId + 1
      BY NextIdIsFresh
    <1>2. lastId + 1 \notin DOMAIN table /\ lastId + 1 \in Nat \ {0}
      BY DEF TableInv, TopRow, TableTypes
    <1> DEFINE t == Insert(table, p, importance, about)
    <1>3. /\ DOMAIN t = DOMAIN table \cup {lastId + 1}
          /\ \A i \in DOMAIN table : t[i] = table[i]
          /\ t[lastId + 1] = [peer |-> p, importance |-> importance,
                              reflected |-> FALSE,
                              about |-> about \cup {lastId + 1}]
      BY <1>1, <1>2 DEF Insert
    <1>4. t[lastId + 1] \in Rows
      BY <1>3, <1>2 DEF Rows, TableInv, TableTypes
    <1>5. \A i \in DOMAIN t : t[i] \in Rows
      BY <1>2, <1>3, <1>4 DEF TableInv, TableTypes
    <1>6. DOMAIN t \subseteq Nat \ {0}
      BY <1>2, <1>3 DEF TableInv, TableTypes
    <1>7. QED
      BY <1>2, <1>3, <1>5, <1>6

\* Marking keeps the rows, what they are about and what they count.
LEMMA ReflectKeepsRows ==
    ASSUME NEW t, \A i \in DOMAIN t : t[i] \in Rows, NEW ids
    PROVE  /\ DOMAIN Reflect(t, ids) = DOMAIN t
           /\ \A i \in DOMAIN t :
                /\ Reflect(t, ids)[i] \in Rows
                /\ Reflect(t, ids)[i].about = t[i].about
                /\ Reflect(t, ids)[i].importance = t[i].importance
                /\ Reflect(t, ids)[i].reflected <=> t[i].reflected \/ i \in ids
    <1>1. ASSUME NEW i \in DOMAIN t
          PROVE  /\ Reflect(t, ids)[i] \in Rows
                 /\ Reflect(t, ids)[i].about = t[i].about
                 /\ Reflect(t, ids)[i].importance = t[i].importance
                 /\ Reflect(t, ids)[i].reflected <=> t[i].reflected \/ i \in ids
      <2>1. t[i] \in Rows
        OBVIOUS
      <2>2. CASE i \in ids
        BY <2>1, <2>2 DEF Reflect, Rows
      <2>3. CASE i \notin ids
        BY <2>1, <2>3 DEF Reflect, Rows
      <2>4. QED
        BY <2>2, <2>3
    <1>2. QED
      BY <1>1 DEF Reflect

\* Scoring keeps the rows, what they are about and whether they are reflected,
\* and never takes an importance away.
LEMMA ScoreKeepsRows ==
    ASSUME NEW t, \A i \in DOMAIN t : t[i] \in Rows, NEW answered,
           NEW scores \in [answered -> RawScores], NEW bias \in Nat
    PROVE  /\ DOMAIN Score(t, scores, bias) = DOMAIN t
           /\ \A i \in DOMAIN t :
                /\ Score(t, scores, bias)[i] \in Rows
                /\ Score(t, scores, bias)[i].about = t[i].about
                /\ Score(t, scores, bias)[i].reflected = t[i].reflected
                /\ t[i].importance # Pending
                     => Score(t, scores, bias)[i].importance # Pending
    <1>1. ASSUME NEW i \in DOMAIN t
          PROVE  /\ Score(t, scores, bias)[i] \in Rows
                 /\ Score(t, scores, bias)[i].about = t[i].about
                 /\ Score(t, scores, bias)[i].reflected = t[i].reflected
                 /\ t[i].importance # Pending
                      => Score(t, scores, bias)[i].importance # Pending
      <2>1. t[i] \in Rows
        OBVIOUS
      <2>2. CASE i \in answered
        <3>1. Clamp(scores[i], bias) \in 1 .. MaxImportance
          BY <2>2, ClampTypes
        <3>2. Score(t, scores, bias)[i]
                = [t[i] EXCEPT !.importance = Clamp(scores[i], bias)]
          BY <2>2 DEF Score
        <3>3. QED
          BY <2>1, <3>1, <3>2, ScoresAssumption DEF Rows, Pending
      <2>3. CASE i \notin answered
        BY <2>1, <2>3 DEF Score
      <2>4. QED
        BY <2>2, <2>3
    <1>2. QED
      BY <1>1 DEF Score

-----------------------------------------------------------------------------
(* The invariant.                                                          *)

Inv == TypeOK /\ TopRow /\ FoldingKept /\ Known
           /\ ReflectedAsRead /\ NothingForgottenUnsummarised

\* A step that inserts one row and marks or deletes nothing keeps what is said
\* of the table, for whichever peer, importance and content.
LEMMA InsertKeepsTable ==
    ASSUME Inv, NEW p \in Peers, NEW importance \in 0 .. MaxImportance,
           NEW about \in SUBSET Nat,
           table' = Insert(table, p, importance, about), Inserted(table)
    PROVE  /\ lastId' = lastId + 1
           /\ DOMAIN table' \subseteq Nat \ {0}
           /\ \A i \in DOMAIN table' : table'[i] \in Rows
           /\ lastId' \in Nat
           /\ TopRow'
           /\ (forgetting' = forgetting \/ forgetting' = Unfolding) => FoldingKept'
           /\ digested' = digested => ReflectedAsRead'
           /\ NothingForgottenUnsummarised'
    <1>1. TableInv
      BY DEF Inv, TypeOK, TableInv
    <1>2. /\ DOMAIN table' = DOMAIN table \cup {lastId + 1}
          /\ lastId + 1 \notin DOMAIN table
          /\ \A i \in DOMAIN table : table'[i] = table[i]
          /\ table'[lastId + 1] = [peer |-> p, importance |-> importance,
                                   reflected |-> FALSE,
                                   about |-> about \cup {lastId + 1}]
          /\ \A i \in DOMAIN table' : table'[i] \in Rows
          /\ DOMAIN table' \subseteq Nat \ {0}
      BY <1>1, InsertAddsRow
    <1>3. lastId \in Nat /\ lastId' = lastId + 1
      BY <1>1, NextIdIsFresh DEF Inserted, TableInv, TableTypes
    <1>4. TopRow'
      BY <1>1, <1>2, <1>3 DEF TopRow, TableInv, TableTypes
    <1>5. ASSUME forgetting' = forgetting \/ forgetting' = Unfolding
          PROVE  FoldingKept'
      BY <1>2, <1>5 DEF Inv, FoldingKept, Unfolding
    <1>6. ASSUME digested' = digested
          PROVE  ReflectedAsRead'
      <2>1. lastId + 1 \notin digested
        BY <1>3 DEF Inv, Known
      <2>2. QED
        BY <1>2, <1>6, <2>1 DEF Inv, ReflectedAsRead
    <1>7. NothingForgottenUnsummarised'
      <2>1. lastId + 1 \in table'[lastId + 1].about
        BY <1>2
      <2>2. ASSUME NEW i \in 1 .. lastId
            PROVE  \E r \in DOMAIN table' : i \in table'[r].about
        BY <1>2 DEF Inv, NothingForgottenUnsummarised
      <2>3. \A i \in 1 .. lastId' : i \in 1 .. lastId \/ i = lastId + 1
        BY <1>3
      <2>4. QED
        BY <1>2, <2>1, <2>2, <2>3 DEF NothingForgottenUnsummarised
    <1>8. QED
      BY <1>2, <1>3, <1>4, <1>5, <1>6, <1>7

\* A step that scores rows keeps it too.
LEMMA ScoreKeepsTable ==
    ASSUME Inv, NEW answered, NEW scores \in [answered -> RawScores],
           NEW bias \in Nat,
           table' = Score(table, scores, bias),
           UNCHANGED <<forgetting, reflection, lastId, digested>>
    PROVE  /\ DOMAIN table' \subseteq Nat \ {0}
           /\ \A i \in DOMAIN table' : table'[i] \in Rows
           /\ TopRow' /\ FoldingKept' /\ Known'
           /\ ReflectedAsRead' /\ NothingForgottenUnsummarised'
    <1>1. /\ DOMAIN table \subseteq Nat \ {0}
          /\ \A i \in DOMAIN table : table[i] \in Rows
      BY DEF Inv, TypeOK, TableTypes
    <1>2. /\ DOMAIN table' = DOMAIN table
          /\ \A i \in DOMAIN table :
               /\ table'[i] \in Rows
               /\ table'[i].about = table[i].about
               /\ table'[i].reflected = table[i].reflected
               /\ table[i].importance # Pending => table'[i].importance # Pending
      BY <1>1, ScoreKeepsRows
    <1>3. TopRow' /\ Known'
      BY <1>2 DEF Inv, TopRow, Known
    <1>4. FoldingKept'
      BY <1>2 DEF Inv, FoldingKept
    <1>5. ReflectedAsRead'
      BY <1>2 DEF Inv, ReflectedAsRead
    <1>6. NothingForgottenUnsummarised'
      BY <1>2 DEF Inv, NothingForgottenUnsummarised
    <1>7. QED
      BY <1>1, <1>2, <1>3, <1>4, <1>5, <1>6

\* A step that leaves the table and what is folded, read and digested alone, or
\* drops the folding or the reflection.
LEMMA QuietStep ==
    ASSUME Inv, UNCHANGED <<table, lastId, digested>>,
           forgetting' = forgetting \/ forgetting' = Unfolding,
           \/ reflection' = Idle
           \/ reflection'.read = reflection.read /\ reflection'.made = reflection.made
    PROVE  TopRow' /\ FoldingKept' /\ Known' /\ ReflectedAsRead'
               /\ NothingForgottenUnsummarised'
    <1>1. TopRow' /\ ReflectedAsRead' /\ NothingForgottenUnsummarised'
      BY DEF Inv, TopRow, ReflectedAsRead, NothingForgottenUnsummarised
    <1>2. FoldingKept'
      BY DEF Inv, FoldingKept, Unfolding
    <1>3. Known'
      BY DEF Inv, Known, Idle
    <1>4. QED
      BY <1>1, <1>2, <1>3

-----------------------------------------------------------------------------
(* The steps.                                                              *)

LEMMA InitInv == Init => Inv
  BY PeersAssumption, BoundsAssumption, ReflectAssumption
     DEF Init, Inv, TypeOK, TableTypes, ClockTypes, TaskTypes, TopRow, FoldingKept,
         Known, ReflectedAsRead, NothingForgottenUnsummarised, Idle, Unfolding, Resting

\* The idle tasks are tasks.
LEMMA IdleTypes ==
    /\ Idle \in [stage : {"idle", "ask", "ask again", "write"}, peer : Peers,
                 read : SUBSET Nat, made : SUBSET Nat, left : 0 .. MaxInsights]
    /\ Unfolding \in [stage : {"idle", "ask", "write"}, peer : Peers,
                      cluster : SUBSET Nat, gist : SUBSET Nat]
    /\ Resting \in [peer : Peers, read : SUBSET Nat]
  BY PeersAssumption, ReflectAssumption DEF Idle, Unfolding, Resting

\* Days are counted from one.
LEMMA DayTypes ==
    ASSUME now \in Nat
    PROVE  Day \in Nat
    BY DEF Day

LEMMA WriteStep ==
    ASSUME Inv, NEW p \in Peers, Write(p)
    PROVE  Inv'
    <1>1. /\ lastId' = lastId + 1
          /\ DOMAIN table' \subseteq Nat \ {0}
          /\ \A i \in DOMAIN table' : table'[i] \in Rows
          /\ lastId' \in Nat
          /\ TopRow' /\ FoldingKept' /\ ReflectedAsRead' /\ NothingForgottenUnsummarised'
      BY InsertKeepsTable, ScoresAssumption DEF Write, Pending
    <1>2. TypeOK'
      BY <1>1 DEF Inv, TypeOK, TableTypes, ClockTypes, TaskTypes, Write, clock
    <1>3. Known'
      BY <1>1 DEF Inv, Known, Write, TypeOK, TableTypes
    <1>4. QED
      BY <1>1, <1>2, <1>3 DEF Inv

LEMMA KeeperExchangeStep ==
    ASSUME Inv, KeeperExchange
    PROVE  Inv'
    <1>1. /\ lastId' = lastId + 1
          /\ DOMAIN table' \subseteq Nat \ {0}
          /\ \A i \in DOMAIN table' : table'[i] \in Rows
          /\ lastId' \in Nat
          /\ TopRow' /\ FoldingKept' /\ ReflectedAsRead' /\ NothingForgottenUnsummarised'
      BY InsertKeepsTable, ScoresAssumption, PeersAssumption DEF KeeperExchange, Pending
    <1>2. NextId(table) \in Nat
      BY NextIdIsFresh DEF Inv, TypeOK, TableInv, TableTypes
    <1>3. TypeOK'
      BY <1>1, <1>2 DEF Inv, TypeOK, TableTypes, ClockTypes, TaskTypes, KeeperExchange, clock
    <1>4. Known'
      BY <1>1 DEF Inv, Known, KeeperExchange, TypeOK, TableTypes
    <1>5. QED
      BY <1>1, <1>3, <1>4 DEF Inv

LEMMA KeeperScoredStep ==
    ASSUME Inv, NEW raw \in RawScores, KeeperScored(raw)
    PROVE  Inv'
    <1> DEFINE scores == [i \in {keeper} |-> raw]
    <1>1. scores \in [{keeper} -> RawScores]
      OBVIOUS
    <1>2. /\ DOMAIN table' \subseteq Nat \ {0}
          /\ \A i \in DOMAIN table' : table'[i] \in Rows
          /\ TopRow' /\ FoldingKept' /\ Known'
          /\ ReflectedAsRead' /\ NothingForgottenUnsummarised'
      BY <1>1, ScoreKeepsTable, ScoresAssumption DEF KeeperScored
    <1>3. TypeOK'
      BY <1>2 DEF Inv, TypeOK, TableTypes, ClockTypes, TaskTypes, KeeperScored, clock
    <1>4. QED
      BY <1>2, <1>3 DEF Inv

LEMMA ScoreAnsweredStep ==
    ASSUME Inv, NEW answered, ScoreAnswered(answered)
    PROVE  Inv'
    <1>1. PICK scores \in [answered -> RawScores] : table' = Score(table, scores, 0)
      BY DEF ScoreAnswered
    <1>2. /\ DOMAIN table' \subseteq Nat \ {0}
          /\ \A i \in DOMAIN table' : table'[i] \in Rows
          /\ TopRow' /\ FoldingKept' /\ Known'
          /\ ReflectedAsRead' /\ NothingForgottenUnsummarised'
      BY <1>1, ScoreKeepsTable DEF ScoreAnswered, history
    <1>3. TypeOK'
      BY <1>2, IdleTypes
         DEF Inv, TypeOK, TableTypes, ClockTypes, TaskTypes, ScoreAnswered, clock, history
    <1>4. QED
      BY <1>2, <1>3 DEF Inv

\* The tasks that only read, fail or start waiting for something else.
LEMMA WaitingStep ==
    ASSUME Inv,
           \/ KeeperUnscored \/ ReflectAgain \/ ReflectFail
           \/ ForgetDefer \/ Tick \/ Stop \/ Crash
           \/ \E p \in Peers : ScoreRead(p)
           \/ \E insights \in 1 .. MaxInsights : ReflectAnswered(insights)
    PROVE  Inv'
    <1>1. UNCHANGED <<table, lastId, digested, biased>>
      BY DEF KeeperUnscored, ReflectAgain, ReflectFail, ForgetDefer, Tick, Stop, Crash,
             ScoreRead, ReflectAnswered, history
    <1>2. /\ forgetting' = forgetting \/ forgetting' = Unfolding
          /\ \/ reflection' = Idle
             \/ reflection'.read = reflection.read /\ reflection'.made = reflection.made
      BY DEF Inv, TypeOK, TaskTypes, KeeperUnscored, ReflectAgain, ReflectFail, ForgetDefer,
             Tick, Stop, Crash, Restart, ScoreRead, ReflectAnswered
    <1>3. TopRow' /\ FoldingKept' /\ Known' /\ ReflectedAsRead'
             /\ NothingForgottenUnsummarised'
      BY <1>1, <1>2, QuietStep
    <1>4. TableTypes'
      BY <1>1 DEF Inv, TypeOK, TableTypes
    <1>5. ClockTypes /\ TaskTypes
      BY DEF Inv, TypeOK
    <1>6. ClockTypes' /\ TaskTypes'
      <2>1. ASSUME NEW p \in Peers, ScoreRead(p)
            PROVE  ClockTypes' /\ TaskTypes'
        <3>1. Unscored(p) \in SUBSET Nat
          BY DEF Inv, TypeOK, TableTypes, Unscored, RowsOf
        <3>2. scorer' \in [peer : Peers, read : SUBSET Nat]
          BY <2>1, <3>1 DEF ScoreRead
        <3>3. QED
          BY <1>5, <2>1, <3>2 DEF ScoreRead, clock, ClockTypes, TaskTypes
      <2>2. ASSUME NEW insights \in 1 .. MaxInsights, ReflectAnswered(insights)
            PROVE  ClockTypes' /\ TaskTypes'
        <3>1. insights \in 0 .. MaxInsights
          BY ReflectAssumption
        <3>2. reflection' = [reflection EXCEPT !.stage = "write", !.left = insights]
          BY <2>2 DEF ReflectAnswered
        <3>3. reflection' \in [stage : {"idle", "ask", "ask again", "write"}, peer : Peers,
                               read : SUBSET Nat, made : SUBSET Nat,
                               left : 0 .. MaxInsights]
          BY <1>5, <3>1, <3>2 DEF TaskTypes
        <3>4. QED
          BY <1>5, <2>2, <3>3 DEF ReflectAnswered, clock, ClockTypes, TaskTypes
      <2>3. CASE Tick
        <3>1. TaskTypes'
          BY <1>5, <2>3 DEF Tick, TaskTypes
        <3>2. ClockTypes'
          BY <1>5, <2>3 DEF Tick, ClockTypes
        <3>3. QED
          BY <3>1, <3>2
      <2>4. CASE Stop \/ Crash
        <3>1. scorer' = Resting /\ keeper' = 0 /\ reflection' = Idle /\ forgetting' = Unfolding
          BY <2>4 DEF Stop, Crash, Restart
        <3>2. TaskTypes'
          BY <3>1, IdleTypes DEF TaskTypes
        <3>3. ClockTypes'
          BY <1>5, <2>4 DEF ClockTypes, Stop, Crash, Restart
        <3>4. QED
          BY <3>2, <3>3
      <2>5. CASE KeeperUnscored
        BY <1>5, <2>5 DEF KeeperUnscored, ClockTypes, TaskTypes, clock
      <2>6. CASE ReflectAgain
        BY <1>5, <2>6 DEF ReflectAgain, ClockTypes, TaskTypes, clock
      <2>7. CASE ReflectFail \/ ForgetDefer
        BY <1>5, <2>7, IdleTypes DEF ReflectFail, ForgetDefer, ClockTypes, TaskTypes, clock
      <2>8. QED
        BY <2>1, <2>2, <2>3, <2>4, <2>5, <2>6, <2>7
    <1>7. QED
      BY <1>3, <1>4, <1>5, <1>6 DEF Inv, TypeOK

LEMMA ReflectBeginStep ==
    ASSUME Inv, NEW p \in Peers, ReflectBegin(p)
    PROVE  Inv'
    <1>1. UNCHANGED <<table, lastId, digested, forgetting>>
      BY DEF ReflectBegin, history
    <1>2. Unreflected(p) \subseteq DOMAIN table /\ DOMAIN table \subseteq 1 .. lastId
      BY DEF Inv, TypeOK, TableTypes, TopRow, Unreflected, RowsOf
    <1>3. Known'
      BY <1>1, <1>2 DEF Inv, Known, ReflectBegin, Idle
    <1>4. TypeOK'
      BY <1>2, IdleTypes
         DEF Inv, TypeOK, TableTypes, ClockTypes, TaskTypes, ReflectBegin, history, clock, Idle
    <1>5. TopRow' /\ FoldingKept' /\ ReflectedAsRead' /\ NothingForgottenUnsummarised'
      BY <1>1 DEF Inv, TopRow, FoldingKept, ReflectedAsRead, NothingForgottenUnsummarised
    <1>6. QED
      BY <1>3, <1>4, <1>5 DEF Inv

LEMMA ForgetBeginStep ==
    ASSUME Inv, NEW p \in Peers, ForgetBegin(p) \/ ForgetAnswered
    PROVE  Inv'
    <1>1. UNCHANGED <<table, lastId, digested, reflection, biased, scorer, keeper, clock>>
      BY DEF ForgetBegin, ForgetAnswered, history
    <1>2. ASSUME ForgetBegin(p)
          PROVE  FoldingKept' /\ TaskTypes'
      <2>1. PICK c \in Clusters(p) :
              forgetting' = [stage |-> "ask", peer |-> p, cluster |-> c,
                             gist |-> UNION {table[i].about : i \in c}]
        BY <1>2 DEF ForgetBegin
      <2>2. \A i \in c : i \in DOMAIN table /\ table[i].importance # Pending
        BY DEF Clusters, RowsOf, Unscored
      <2>3. UNION {table[i].about : i \in c} \subseteq Nat /\ c \subseteq Nat
        BY <2>2 DEF Inv, TypeOK, TableTypes, Rows
      <2>4. FoldingKept'
        BY <1>1, <2>1, <2>2 DEF FoldingKept
      <2>5. forgetting' \in [stage : {"idle", "ask", "write"}, peer : Peers,
                             cluster : SUBSET Nat, gist : SUBSET Nat]
        BY <2>1, <2>3
      <2>6. QED
        BY <1>1, <2>4, <2>5 DEF Inv, TypeOK, TaskTypes
    <1>3. ASSUME ForgetAnswered
          PROVE  FoldingKept' /\ TaskTypes'
      <2>1. TaskTypes
        BY DEF Inv, TypeOK
      <2>2. TaskTypes'
        BY <1>1, <1>3, <2>1 DEF TaskTypes, ForgetAnswered
      <2>3. forgetting'.cluster = forgetting.cluster /\ forgetting'.gist = forgetting.gist
        BY <1>3, <2>1 DEF TaskTypes, ForgetAnswered
      <2>4. FoldingKept'
        BY <1>1, <1>3, <2>3 DEF Inv, FoldingKept, ForgetAnswered
      <2>5. QED
        BY <2>2, <2>4
    <1>4. TypeOK'
      BY <1>1, <1>2, <1>3 DEF Inv, TypeOK, TableTypes, ClockTypes, clock
    <1>5. TopRow' /\ Known' /\ ReflectedAsRead' /\ NothingForgottenUnsummarised'
      BY <1>1 DEF Inv, TopRow, Known, ReflectedAsRead, NothingForgottenUnsummarised
    <1>6. QED
      BY <1>2, <1>3, <1>4, <1>5 DEF Inv

\* No insight was given: what was read is marked.
LEMMA ReflectEmptyStep ==
    ASSUME Inv, ReflectEmpty
    PROVE  Inv'
    <1> DEFINE ids == reflection.read \cup reflection.made
    <1>1. /\ table' = Reflect(table, ids)
          /\ digested' = digested \cup ids
      BY DEF ReflectEmpty, Marked
    <1>2. /\ reflection' = Idle
          /\ lastDay' = [lastDay EXCEPT ![reflection.peer] = Day]
          /\ UNCHANGED <<now, saved, launches, scorer, keeper, forgetting, lastId, biased>>
      BY DEF ReflectEmpty, Marked
    <1>3. /\ DOMAIN table \subseteq Nat \ {0}
          /\ \A i \in DOMAIN table : table[i] \in Rows
          /\ lastId \in Nat
      BY DEF Inv, TypeOK, TableTypes
    <1>4. /\ DOMAIN table' = DOMAIN table
          /\ \A i \in DOMAIN table :
               /\ table'[i] \in Rows
               /\ table'[i].about = table[i].about
               /\ table'[i].importance = table[i].importance
               /\ table'[i].reflected <=> table[i].reflected \/ i \in ids
      <2> HIDE DEF ids
      <2>1. QED
        BY <1>1, <1>3, ReflectKeepsRows
    <1>5. Known'
      BY <1>1, <1>2 DEF Inv, Known, Idle
    <1>6. TableTypes'
      <2>1. digested' \subseteq Nat
        BY <1>2, <1>3, <1>5 DEF Known
      <2>2. biased' \subseteq Nat
        BY <1>2 DEF Inv, TypeOK, TableTypes
      <2>3. QED
        BY <1>2, <1>3, <1>4, <2>1, <2>2 DEF TableTypes
    <1>7. ClockTypes'
      BY <1>2, DayTypes DEF Inv, TypeOK, ClockTypes
    <1>8. TaskTypes'
      BY <1>2, IdleTypes DEF Inv, TypeOK, TaskTypes
    <1>9. ReflectedAsRead'
      BY <1>1, <1>4 DEF Inv, ReflectedAsRead
    <1>10. TopRow' /\ FoldingKept' /\ NothingForgottenUnsummarised'
      BY <1>2, <1>4 DEF Inv, TopRow, FoldingKept, NothingForgottenUnsummarised
    <1>11. QED
      BY <1>5, <1>6, <1>7, <1>8, <1>9, <1>10 DEF Inv, TypeOK

\* An insight is inserted; after the last one what was read and written is
\* marked.
LEMMA ReflectWriteStep ==
    ASSUME Inv, NEW raw \in RawScores, ReflectWrite(raw)
    PROVE  Inv'
    <1> DEFINE t == Insert(table, reflection.peer, Clamp(raw, 0), reflection.read)
               ids == reflection.read \cup reflection.made \cup {lastId + 1}
    <1>1. TableInv /\ lastId \in Nat
      BY DEF Inv, TypeOK, TableInv, TableTypes
    <1>2. /\ reflection.peer \in Peers
          /\ Clamp(raw, 0) \in 0 .. MaxImportance
          /\ reflection.read \in SUBSET Nat /\ reflection.made \in SUBSET Nat
      <2>1. Clamp(raw, 0) \in 1 .. MaxImportance
        BY ClampTypes
      <2>2. Clamp(raw, 0) \in 0 .. MaxImportance
        BY <2>1, ScoresAssumption
      <2>3. QED
        BY <2>2 DEF Inv, TypeOK, TaskTypes
    <1>3. NextId(table) = lastId + 1 /\ lastId' = lastId + 1
      BY <1>1, NextIdIsFresh DEF ReflectWrite, Inserted
    <1>4. UNCHANGED <<now, saved, launches, scorer, keeper, forgetting, biased>>
      BY DEF ReflectWrite
    <1>5. ASSUME reflection.left > 1, table' = t, UNCHANGED <<lastDay, digested>>,
                 reflection' = [reflection EXCEPT !.left = @ - 1,
                                                  !.made = @ \cup {NextId(table)}]
          PROVE  Inv'
      <2>1. /\ DOMAIN table' \subseteq Nat \ {0}
            /\ \A i \in DOMAIN table' : table'[i] \in Rows
            /\ TopRow' /\ FoldingKept' /\ ReflectedAsRead'
            /\ NothingForgottenUnsummarised'
        BY <1>2, <1>4, <1>5, InsertKeepsTable DEF ReflectWrite
      <2>2. TaskTypes
        BY DEF Inv, TypeOK
      <2>3. /\ reflection'.read = reflection.read
            /\ reflection'.made = reflection.made \cup {lastId + 1}
            /\ reflection' \in [stage : {"idle", "ask", "ask again", "write"}, peer : Peers,
                                read : SUBSET Nat, made : SUBSET Nat, left : 0 .. MaxInsights]
        <3>1. reflection.left - 1 \in 0 .. MaxInsights
          <4>1. reflection.left \in 0 .. MaxInsights
            BY <2>2 DEF TaskTypes
          <4>2. QED
            BY <1>5, <4>1, ReflectAssumption
        <3>2. reflection.made \cup {lastId + 1} \in SUBSET Nat
          BY <1>1, <1>2
        <3>3. reflection' = [reflection EXCEPT !.left = reflection.left - 1,
                                               !.made = reflection.made \cup {lastId + 1}]
          BY <1>3, <1>5
        <3>4. QED
          BY <2>2, <3>1, <3>2, <3>3 DEF TaskTypes
      <2>4. TaskTypes'
        BY <1>4, <2>2, <2>3 DEF TaskTypes
      <2>5. Known'
        <3>1. reflection'.read \cup reflection'.made \cup digested'
                = reflection.read \cup reflection.made \cup digested \cup {lastId + 1}
          BY <1>5, <2>3
        <3>2. reflection.read \cup reflection.made \cup digested \subseteq 1 .. lastId
          BY DEF Inv, Known
        <3>3. QED
          BY <1>1, <1>3, <3>1, <3>2 DEF Known
      <2>6. TableTypes' /\ ClockTypes'
        BY <1>1, <1>3, <1>4, <1>5, <2>1 DEF Inv, TypeOK, TableTypes, ClockTypes
      <2>7. QED
        BY <2>1, <2>4, <2>5, <2>6 DEF Inv, TypeOK
    <1>6. ASSUME Marked(t)
          PROVE  Inv'
      <2>1. /\ DOMAIN t = DOMAIN table \cup {lastId + 1}
            /\ lastId + 1 \notin DOMAIN table
            /\ \A i \in DOMAIN table : t[i] = table[i]
            /\ t[lastId + 1] = [peer |-> reflection.peer, importance |-> Clamp(raw, 0),
                                reflected |-> FALSE,
                                about |-> reflection.read \cup {lastId + 1}]
            /\ \A i \in DOMAIN t : t[i] \in Rows
            /\ DOMAIN t \subseteq Nat \ {0}
        BY <1>1, <1>2, InsertAddsRow
      <2> HIDE DEF t
      <2>2. /\ table' = Reflect(t, ids) /\ digested' = digested \cup ids
            /\ reflection' = Idle
            /\ lastDay' = [lastDay EXCEPT ![reflection.peer] = Day]
        <3>1. DOMAIN t \ DOMAIN table = {lastId + 1}
          BY <2>1
        <3>2. QED
          BY <1>6, <3>1 DEF Marked
      <2>3. /\ DOMAIN table' = DOMAIN t
            /\ \A i \in DOMAIN t :
                 /\ table'[i] \in Rows
                 /\ table'[i].about = t[i].about
                 /\ table'[i].importance = t[i].importance
                 /\ table'[i].reflected <=> t[i].reflected \/ i \in ids
        <3> HIDE DEF ids
        <3>1. QED
          BY <2>1, <2>2, ReflectKeepsRows
      <2>4. Known'
        BY <1>1, <1>3, <2>2 DEF Inv, Known, Idle
      <2>5. TableTypes'
        BY <1>1, <1>3, <1>4, <2>1, <2>3, <2>4 DEF Inv, TypeOK, TableTypes, Known
      <2>6. ClockTypes' /\ TaskTypes'
        <3>1. ClockTypes'
          BY <1>4, <2>2, DayTypes DEF Inv, TypeOK, ClockTypes
        <3>2. TaskTypes'
          BY <1>4, <2>2, IdleTypes DEF Inv, TypeOK, TaskTypes
        <3>3. QED
          BY <3>1, <3>2
      <2>7. ReflectedAsRead'
        <3>1. lastId + 1 \in ids /\ lastId + 1 \notin digested
          BY <1>1 DEF Inv, Known
        <3>2. QED
          BY <2>1, <2>2, <2>3, <3>1 DEF Inv, ReflectedAsRead
      <2>8. TopRow'
        BY <1>1, <1>3, <2>1, <2>3 DEF TableInv, TopRow, TableTypes
      <2>9. FoldingKept'
        BY <1>4, <2>1, <2>3 DEF Inv, FoldingKept
      <2>10. NothingForgottenUnsummarised'
        <3>1. lastId + 1 \in table'[lastId + 1].about
          BY <2>1, <2>3
        <3>2. ASSUME NEW i \in 1 .. lastId
              PROVE  \E r \in DOMAIN table' : i \in table'[r].about
          BY <2>1, <2>3 DEF Inv, NothingForgottenUnsummarised
        <3>3. \A i \in 1 .. lastId' : i \in 1 .. lastId \/ i = lastId + 1
          BY <1>1, <1>3
        <3>4. QED
          BY <2>1, <2>3, <3>1, <3>2, <3>3 DEF NothingForgottenUnsummarised
      <2>11. QED
        BY <2>4, <2>5, <2>6, <2>7, <2>8, <2>9, <2>10 DEF Inv, TypeOK
    <1>7. QED
      BY <1>5, <1>6 DEF ReflectWrite

\* The summary of a cluster is inserted: the table with it, before anything is
\* deleted.
LEMMA SummaryTellsAll ==
    ASSUME Inv, NEW raw \in RawScores, forgetting.stage = "write"
    PROVE  LET t == Summarised(raw)
           IN  /\ DOMAIN t = DOMAIN table \cup {lastId + 1}
               /\ lastId + 1 \notin DOMAIN table
               /\ \A i \in DOMAIN table : t[i] = table[i]
               /\ t[lastId + 1].about = forgetting.gist \cup {lastId + 1}
               /\ ~t[lastId + 1].reflected
               /\ \A i \in DOMAIN t : t[i] \in Rows
               /\ DOMAIN t \subseteq Nat \ {0}
               /\ forgetting.peer \in Peers
               /\ Clamp(raw, 0) \in 0 .. MaxImportance
               /\ forgetting.gist \in SUBSET Nat
               /\ NextId(table) = lastId + 1
    <1>1. TableInv
      BY DEF Inv, TypeOK, TableInv
    <1>2. forgetting.peer \in Peers /\ forgetting.gist \in SUBSET Nat
      BY DEF Inv, TypeOK, TaskTypes
    <1>3. Clamp(raw, 0) \in 0 .. MaxImportance
      <2>1. Clamp(raw, 0) \in 1 .. MaxImportance
        BY ClampTypes
      <2>2. QED
        BY <2>1, ScoresAssumption
    <1> DEFINE t == Summarised(raw)
    <1>4. t = Insert(table, forgetting.peer, Clamp(raw, 0), forgetting.gist)
      BY DEF Summarised
    <1>5. /\ DOMAIN t = DOMAIN table \cup {lastId + 1}
          /\ lastId + 1 \notin DOMAIN table
          /\ \A i \in DOMAIN table : t[i] = table[i]
          /\ t[lastId + 1] = [peer |-> forgetting.peer, importance |-> Clamp(raw, 0),
                              reflected |-> FALSE,
                              about |-> forgetting.gist \cup {lastId + 1}]
          /\ \A i \in DOMAIN t : t[i] \in Rows
          /\ DOMAIN t \subseteq Nat \ {0}
      BY <1>1, <1>2, <1>3, <1>4, InsertAddsRow
    <1> HIDE DEF t
    <1>6. t[lastId + 1].about = forgetting.gist \cup {lastId + 1}
          /\ ~t[lastId + 1].reflected
      BY <1>5
    <1>7. NextId(table) = lastId + 1
      BY <1>1, NextIdIsFresh
    <1>8. QED
      BY <1>2, <1>3, <1>5, <1>6, <1>7 DEF t

LEMMA ForgetFoldStep ==
    ASSUME Inv, NEW raw \in RawScores, ForgetFold(raw)
    PROVE  Inv'
    <1> DEFINE t == Summarised(raw)
    <1>1. forgetting.stage = "write"
      BY DEF ForgetFold
    <1>2. /\ DOMAIN t = DOMAIN table \cup {lastId + 1}
          /\ lastId + 1 \notin DOMAIN table
          /\ \A i \in DOMAIN table : t[i] = table[i]
          /\ t[lastId + 1].about = forgetting.gist \cup {lastId + 1}
          /\ ~t[lastId + 1].reflected
          /\ \A i \in DOMAIN t : t[i] \in Rows
          /\ DOMAIN t \subseteq Nat \ {0}
          /\ NextId(table) = lastId + 1
      BY <1>1, SummaryTellsAll
    <1> HIDE DEF t
    <1>3. lastId \in Nat /\ lastId' = lastId + 1
      BY <1>2 DEF ForgetFold, Inserted, Inv, TypeOK, TableTypes
    <1>4. table' = Delete(t, forgetting.cluster)
      BY DEF ForgetFold, t
    <1>5. /\ DOMAIN table' = DOMAIN t \ forgetting.cluster
          /\ \A i \in DOMAIN table' : table'[i] = t[i]
      BY <1>4 DEF Delete
    <1>6. \A i \in forgetting.cluster :
              i \in DOMAIN table /\ table[i].about \subseteq forgetting.gist
      BY <1>1 DEF Inv, FoldingKept
    <1>7. lastId + 1 \in DOMAIN table'
      BY <1>2, <1>5, <1>6
    <1>8. TopRow'
      BY <1>2, <1>3, <1>5, <1>7 DEF Inv, TopRow, TypeOK, TableTypes
    <1>9. forgetting' = Unfolding
          /\ UNCHANGED <<clock, scorer, keeper, reflection, digested, biased>>
      BY DEF ForgetFold
    <1>10. FoldingKept'
      BY <1>9 DEF FoldingKept, Unfolding
    <1>11. Known'
      BY <1>3, <1>9 DEF Inv, Known
    <1>12. ReflectedAsRead'
      <2>1. lastId + 1 \notin digested
        BY <1>3 DEF Inv, Known
      <2>2. QED
        BY <1>2, <1>5, <1>9, <2>1 DEF Inv, ReflectedAsRead
    <1>13. NothingForgottenUnsummarised'
      <2>1. ASSUME NEW i \in 1 .. lastId
            PROVE  \E r \in DOMAIN table' : i \in table'[r].about
        <3>1. PICK r \in DOMAIN table : i \in table[r].about
          BY DEF Inv, NothingForgottenUnsummarised
        <3>2. CASE r \in forgetting.cluster
          BY <1>2, <1>5, <1>6, <1>7, <3>1, <3>2
        <3>3. CASE r \notin forgetting.cluster
          BY <1>2, <1>5, <3>1, <3>3
        <3>4. QED
          BY <3>2, <3>3
      <2>2. lastId + 1 \in table'[lastId + 1].about
        BY <1>2, <1>5, <1>7
      <2>3. \A i \in 1 .. lastId' : i \in 1 .. lastId \/ i = lastId + 1
        BY <1>3
      <2>4. QED
        BY <1>7, <2>1, <2>2, <2>3 DEF NothingForgottenUnsummarised
    <1>14. TableTypes'
      BY <1>2, <1>3, <1>5, <1>9 DEF Inv, TypeOK, TableTypes
    <1>15. ClockTypes' /\ TaskTypes'
      <2>1. ClockTypes'
        BY <1>9 DEF Inv, TypeOK, ClockTypes, clock
      <2>2. TaskTypes'
        BY <1>9, IdleTypes DEF Inv, TypeOK, TaskTypes
      <2>3. QED
        BY <2>1, <2>2
    <1>16. QED
      BY <1>8, <1>10, <1>11, <1>12, <1>13, <1>14, <1>15 DEF Inv, TypeOK

\* A crash after an insert leaves one more row and no task.
LEMMA CrashAfterInsert ==
    ASSUME Inv, NEW p \in Peers, NEW importance \in 0 .. MaxImportance,
           NEW about \in SUBSET Nat,
           table' = Insert(table, p, importance, about), Inserted(table),
           Restart, now' = saved, UNCHANGED <<saved, lastDay, digested, biased>>
    PROVE  Inv'
    <1>1. scorer' = Resting /\ keeper' = 0 /\ reflection' = Idle /\ forgetting' = Unfolding
      BY DEF Restart
    <1>2. /\ lastId' = lastId + 1
          /\ DOMAIN table' \subseteq Nat \ {0}
          /\ \A i \in DOMAIN table' : table'[i] \in Rows
          /\ lastId' \in Nat
          /\ TopRow' /\ FoldingKept' /\ ReflectedAsRead' /\ NothingForgottenUnsummarised'
      BY <1>1, InsertKeepsTable
    <1>3. TaskTypes'
      BY <1>1, IdleTypes DEF TaskTypes
    <1>4. ClockTypes'
      BY DEF Inv, TypeOK, ClockTypes, Restart
    <1>5. TableTypes'
      BY <1>2 DEF Inv, TypeOK, TableTypes
    <1>6. Known'
      BY <1>1, <1>2 DEF Inv, TypeOK, TableTypes, Known, Idle
    <1>7. QED
      BY <1>2, <1>3, <1>4, <1>5, <1>6 DEF Inv, TypeOK

LEMMA CrashAmidStep ==
    ASSUME Inv, NEW raw \in RawScores, CrashWhileFolding(raw) \/ CrashWhileMarking(raw)
    PROVE  Inv'
    <1>1. Clamp(raw, 0) \in 0 .. MaxImportance
      <2>1. Clamp(raw, 0) \in 1 .. MaxImportance
        BY ClampTypes
      <2>2. QED
        BY <2>1, ScoresAssumption
    <1>2. /\ reflection.peer \in Peers /\ reflection.read \in SUBSET Nat
          /\ forgetting.peer \in Peers /\ forgetting.gist \in SUBSET Nat
      BY DEF Inv, TypeOK, TaskTypes
    <1>3. CASE CrashWhileFolding(raw)
      BY <1>1, <1>2, <1>3, CrashAfterInsert DEF CrashWhileFolding, Summarised
    <1>4. CASE CrashWhileMarking(raw)
      BY <1>1, <1>2, <1>4, CrashAfterInsert DEF CrashWhileMarking
    <1>5. QED
      BY <1>3, <1>4

LEMMA NextInv == Inv /\ [Next]_vars => Inv'
    <1> SUFFICES ASSUME Inv, [Next]_vars PROVE Inv'
      OBVIOUS
    <1>1. ASSUME NEW p \in Peers,
                 Write(p) \/ ScoreRead(p) \/ ReflectBegin(p) \/ ForgetBegin(p)
          PROVE  Inv'
      BY <1>1, WriteStep, WaitingStep, ReflectBeginStep, ForgetBeginStep
    <1>2. CASE KeeperExchange \/ KeeperUnscored
      BY <1>2, KeeperExchangeStep, WaitingStep
    <1>3. ASSUME NEW raw \in RawScores,
                 \/ KeeperScored(raw) \/ ReflectWrite(raw) \/ ForgetFold(raw)
                 \/ CrashWhileFolding(raw) \/ CrashWhileMarking(raw)
          PROVE  Inv'
      BY <1>3, KeeperScoredStep, ReflectWriteStep, ForgetFoldStep, CrashAmidStep
    <1>4. CASE \E answered \in SUBSET scorer.read : ScoreAnswered(answered)
      BY <1>4, ScoreAnsweredStep
    <1>5. CASE \E insights \in 1 .. MaxInsights : ReflectAnswered(insights)
      BY <1>5, WaitingStep
    <1>6. CASE ReflectAgain \/ ReflectEmpty \/ ReflectFail
      BY <1>6, WaitingStep, ReflectEmptyStep
    <1>7. CASE ForgetAnswered \/ ForgetDefer
      <2>1. Mate \in Peers
        BY PeersAssumption
      <2>2. QED
        BY <1>7, <2>1, WaitingStep, ForgetBeginStep
    <1>8. CASE Tick \/ Stop \/ Crash
      BY <1>8, WaitingStep
    <1>9. CASE UNCHANGED vars
      BY <1>9 DEF Inv, TypeOK, TableTypes, ClockTypes, TaskTypes, TopRow, FoldingKept,
                  Known, ReflectedAsRead, NothingForgottenUnsummarised, vars
    <1>10. QED
      BY <1>1, <1>2, <1>3, <1>4, <1>5, <1>6, <1>7, <1>8, <1>9 DEF Next

LEMMA SpecInv == Spec => []Inv
    <1>1. QED
      BY InitInv, NextInv, PTL DEF Spec

-----------------------------------------------------------------------------
(* What a step adds and deletes.                                           *)

\* A step adds at most the row after the last id, and deletes nothing that is
\* pending.
LEMMA StepAddsAndDeletes ==
    ASSUME Inv, Next
    PROVE  /\ \A i \in DOMAIN table' \ DOMAIN table : i > lastId
           /\ \A i \in DOMAIN table \ DOMAIN table' : table[i].importance # Pending
    <1> DEFINE Good == /\ \A i \in DOMAIN table' \ DOMAIN table : i > lastId
                       /\ \A i \in DOMAIN table \ DOMAIN table' :
                            table[i].importance # Pending
    <1>1. lastId \in Nat /\ NextId(table) = lastId + 1
      BY NextIdIsFresh DEF Inv, TypeOK, TableTypes, TableInv
    <1>2. \A p, importance, about :
             DOMAIN Insert(table, p, importance, about) = DOMAIN table \cup {lastId + 1}
      BY <1>1 DEF Insert
    <1>3. \A scores, bias : DOMAIN Score(table, scores, bias) = DOMAIN table
      BY DEF Score
    <1>4. \A t, ids : DOMAIN Reflect(t, ids) = DOMAIN t
      BY DEF Reflect
    <1>5. \A t, ids : DOMAIN Delete(t, ids) = DOMAIN t \ ids
      BY DEF Delete
    <1>6. CASE DOMAIN table' = DOMAIN table \/ DOMAIN table' = DOMAIN table \cup {lastId + 1}
      BY <1>1, <1>6
    <1>7. ASSUME NEW p \in Peers,
                 Write(p) \/ ScoreRead(p) \/ ReflectBegin(p) \/ ForgetBegin(p)
          PROVE  Good
      BY <1>2, <1>6, <1>7 DEF Write, ScoreRead, ReflectBegin, ForgetBegin
    <1>8. CASE KeeperExchange \/ KeeperUnscored
      BY <1>2, <1>6, <1>8 DEF KeeperExchange, KeeperUnscored
    <1>9. ASSUME NEW raw \in RawScores,
                 KeeperScored(raw) \/ CrashWhileFolding(raw) \/ CrashWhileMarking(raw)
          PROVE  Good
      BY <1>2, <1>3, <1>6, <1>9
         DEF KeeperScored, CrashWhileFolding, CrashWhileMarking, Summarised
    <1>10. ASSUME NEW raw \in RawScores, ReflectWrite(raw)
           PROVE  Good
      BY <1>2, <1>4, <1>6, <1>10 DEF ReflectWrite, Marked
    <1>11. ASSUME NEW raw \in RawScores, ForgetFold(raw)
           PROVE  Good
      <2>1. DOMAIN table' = (DOMAIN table \cup {lastId + 1}) \ forgetting.cluster
        <3>1. table' = Delete(Summarised(raw), forgetting.cluster)
          BY <1>11 DEF ForgetFold
        <3>2. DOMAIN Summarised(raw) = DOMAIN table \cup {lastId + 1}
          BY <1>2 DEF Summarised
        <3>3. QED
          BY <1>5, <3>1, <3>2
      <2>2. \A i \in forgetting.cluster : table[i].importance # Pending
        BY <1>11 DEF Inv, FoldingKept, ForgetFold
      <2>3. QED
        BY <1>1, <2>1, <2>2
    <1>12. CASE \E answered \in SUBSET scorer.read : ScoreAnswered(answered)
      BY <1>3, <1>6, <1>12 DEF ScoreAnswered
    <1>13. CASE \/ \E insights \in 1 .. MaxInsights : ReflectAnswered(insights)
                \/ ReflectAgain \/ ReflectFail \/ ForgetAnswered \/ ForgetDefer
                \/ Tick \/ Stop \/ Crash
      BY <1>6, <1>13
         DEF ReflectAnswered, ReflectAgain, ReflectFail, ForgetAnswered, ForgetDefer, Tick,
             Stop, Crash
    <1>14. CASE ReflectEmpty
      BY <1>4, <1>6, <1>14 DEF ReflectEmpty, Marked
    <1>15. QED
      BY <1>7, <1>8, <1>9, <1>10, <1>11, <1>12, <1>13, <1>14 DEF Next

-----------------------------------------------------------------------------
(* The bias of the Keeper.                                                 *)

\* Rows the chat has scored exist or existed, and the loop has none of them
\* listed: a listing holds pending rows only.
Bias ==
    /\ keeper \in 0 .. lastId
    /\ biased \subseteq 1 .. lastId
    /\ biased \cap scorer.read = {}
    /\ KeeperBiasKept

\* A step that leaves the importances of the biased rows alone.
LEMMA BiasLeftAlone ==
    ASSUME Inv, Bias, Next, biased' = biased, lastId' \in Nat, lastId' >= lastId,
           keeper' = keeper \/ keeper' \in 0 .. lastId',
           biased \cap scorer'.read = {},
           \A i \in biased \cap DOMAIN table \cap DOMAIN table' :
               table'[i].importance = table[i].importance
    PROVE  Bias'
    <1>1. lastId \in Nat /\ \A i \in DOMAIN table' \ DOMAIN table : i > lastId
      BY StepAddsAndDeletes DEF Inv, TypeOK, TableTypes
    <1>2. keeper' \in 0 .. lastId' /\ biased' \subseteq 1 .. lastId'
      <2>1. 0 .. lastId \subseteq 0 .. lastId' /\ 1 .. lastId \subseteq 1 .. lastId'
        BY <1>1
      <2>2. QED
        BY <2>1 DEF Bias
    <1>3. ASSUME NEW i \in biased, i \in DOMAIN table'
          PROVE  i \in DOMAIN table
      <2>1. i \in 1 .. lastId
        BY DEF Bias
      <2>2. ~(i > lastId)
        BY <1>1, <2>1
      <2>3. QED
        BY <1>1, <1>3, <2>2
    <1>4. KeeperBiasKept'
      BY <1>3 DEF Bias, KeeperBiasKept
    <1>5. QED
      BY <1>2, <1>4 DEF Bias

LEMMA BiasStep ==
    ASSUME Inv, Bias, [Next]_vars
    PROVE  Bias'
    <1>1. /\ lastId \in Nat /\ NextId(table) = lastId + 1
          /\ \A i \in DOMAIN table : i \in 1 .. lastId
      BY NextIdIsFresh DEF Inv, TypeOK, TableTypes, TableInv, TopRow
    <1>2. lastId' = lastId \/ lastId' = lastId + 1 => lastId' \in Nat /\ lastId' >= lastId
      BY <1>1
    <1>3. \A p, importance, about : \A i \in DOMAIN table :
             Insert(table, p, importance, about)[i] = table[i]
      BY <1>1 DEF Insert
    <1>4. \A t, ids : \A i \in DOMAIN t : Reflect(t, ids)[i].importance = t[i].importance
      BY DEF Reflect
    <1>5. Inserted(table) => lastId' = lastId + 1
      BY <1>1 DEF Inserted
    <1>6. ASSUME NEW p \in Peers, Write(p)
          PROVE  Bias'
      <2>1. /\ \A i \in DOMAIN table : table'[i] = table[i]
            /\ lastId' = lastId + 1 /\ scorer' = scorer /\ keeper' = keeper /\ biased' = biased
        BY <1>3, <1>5, <1>6 DEF Write
      <2>2. QED
        BY <1>2, <1>6, <2>1, BiasLeftAlone DEF Next, Bias
    <1>7. CASE KeeperExchange
      <2>1. /\ \A i \in DOMAIN table : table'[i] = table[i]
            /\ lastId' = lastId + 1 /\ scorer' = scorer /\ keeper' = lastId + 1
            /\ biased' = biased
        BY <1>1, <1>3, <1>5, <1>7 DEF KeeperExchange
      <2>2. keeper' \in 0 .. lastId'
        BY <1>1, <2>1
      <2>3. QED
        BY <1>2, <1>7, <2>1, <2>2, BiasLeftAlone DEF Next, Bias
    <1>8. ASSUME NEW raw \in RawScores, KeeperScored(raw)
          PROVE  Bias'
      <2>1. /\ keeper # 0 /\ keeper' = 0 /\ scorer' = scorer /\ lastId' = lastId
            /\ biased' = biased \cup ({keeper} \ scorer.read)
            /\ table' = Score(table, [i \in {keeper} |-> raw], KeeperBias)
        BY <1>8 DEF KeeperScored
      <2>2. /\ DOMAIN table' = DOMAIN table
            /\ \A i \in DOMAIN table : i # keeper => table'[i] = table[i]
        BY <2>1 DEF Score
      <2>3. ASSUME keeper \in DOMAIN table
            PROVE  table'[keeper].importance = Clamp(raw, KeeperBias)
        <3>1. table'[keeper] = [table[keeper] EXCEPT !.importance = Clamp(raw, KeeperBias)]
          BY <2>1, <2>3 DEF Score
        <3>2. table[keeper] \in Rows
          BY <2>3 DEF Inv, TypeOK, TableTypes
        <3>3. QED
          BY <3>1, <3>2 DEF Rows
      <2>4. KeeperBiasKept'
        BY <2>1, <2>2, <2>3 DEF Bias, KeeperBiasKept
      <2>5. keeper' \in 0 .. lastId' /\ biased' \subseteq 1 .. lastId'
        <3>1. 0 \in 0 .. lastId /\ keeper \in 1 .. lastId
          BY <1>1, <2>1 DEF Bias
        <3>2. QED
          BY <2>1, <3>1 DEF Bias
      <2>6. QED
        BY <2>1, <2>4, <2>5 DEF Bias
    <1>9. ASSUME NEW answered \in SUBSET scorer.read, ScoreAnswered(answered)
          PROVE  Bias'
      <2>1. PICK scores \in [answered -> RawScores] : table' = Score(table, scores, 0)
        BY <1>9 DEF ScoreAnswered
      <2>2. \A i \in DOMAIN table : i \notin answered => table'[i] = table[i]
        BY <2>1 DEF Score
      <2>3. biased \cap answered = {}
        BY DEF Bias
      <2>4. scorer'.read = {} /\ lastId' = lastId /\ keeper' = keeper /\ biased' = biased
        BY <1>9 DEF ScoreAnswered, Resting, history
      <2>5. QED
        BY <1>2, <1>9, <2>2, <2>3, <2>4, BiasLeftAlone DEF Next
    <1>10. ASSUME NEW p \in Peers, ScoreRead(p)
           PROVE  Bias'
      <2>1. /\ scorer'.read = Unscored(p) /\ table' = table /\ lastId' = lastId
            /\ keeper' = keeper /\ biased' = biased
        BY <1>10 DEF ScoreRead, history
      <2>2. \A i \in biased \cap DOMAIN table : table[i].importance # Pending
        BY ClampTypes, ScoresAssumption DEF Bias, KeeperBiasKept, Pending
      <2>3. biased \cap scorer'.read = {}
        BY <2>1, <2>2 DEF Unscored, RowsOf
      <2>4. QED
        BY <1>2, <1>10, <2>1, <2>3, BiasLeftAlone DEF Next
    <1>11. ASSUME NEW raw \in RawScores, ReflectWrite(raw)
           PROVE  Bias'
      <2>1. \A i \in DOMAIN table : table'[i].importance = table[i].importance
        <3> DEFINE t == Insert(table, reflection.peer, Clamp(raw, 0), reflection.read)
        <3>1. table' = t \/ \E ids : table' = Reflect(t, ids)
          BY <1>11 DEF ReflectWrite, Marked
        <3>2. \A i \in DOMAIN table : t[i] = table[i] /\ i \in DOMAIN t
          BY <1>3 DEF Insert
        <3> HIDE DEF t
        <3>3. QED
          BY <1>4, <3>1, <3>2
      <2>2. lastId' = lastId + 1 /\ scorer' = scorer /\ keeper' = keeper /\ biased' = biased
        BY <1>5, <1>11 DEF ReflectWrite
      <2>3. QED
        BY <1>2, <1>11, <2>1, <2>2, BiasLeftAlone DEF Next, Bias
    <1>12. CASE ReflectEmpty
      <2>1. \A i \in DOMAIN table : table'[i].importance = table[i].importance
        BY <1>4, <1>12 DEF ReflectEmpty, Marked
      <2>2. lastId' = lastId /\ scorer' = scorer /\ keeper' = keeper /\ biased' = biased
        BY <1>12 DEF ReflectEmpty
      <2>3. QED
        BY <1>2, <1>12, <2>1, <2>2, BiasLeftAlone DEF Next, Bias
    <1>13. ASSUME NEW raw \in RawScores, ForgetFold(raw)
           PROVE  Bias'
      <2>1. \A i \in DOMAIN table \cap DOMAIN table' : table'[i] = table[i]
        BY <1>3, <1>13 DEF ForgetFold, Summarised, Delete
      <2>2. lastId' = lastId + 1 /\ scorer' = scorer /\ keeper' = keeper /\ biased' = biased
        BY <1>5, <1>13 DEF ForgetFold
      <2>3. QED
        BY <1>2, <1>13, <2>1, <2>2, BiasLeftAlone DEF Next, Bias
    <1>14. ASSUME NEW raw \in RawScores, CrashWhileFolding(raw) \/ CrashWhileMarking(raw)
           PROVE  Bias'
      <2>1. \A i \in DOMAIN table : table'[i] = table[i]
        BY <1>3, <1>14 DEF CrashWhileFolding, CrashWhileMarking, Summarised
      <2>2. lastId' = lastId + 1 /\ scorer'.read = {} /\ keeper' = 0 /\ biased' = biased
        BY <1>5, <1>14 DEF CrashWhileFolding, CrashWhileMarking, Restart, Resting
      <2>3. keeper' \in 0 .. lastId'
        BY <1>1, <2>2
      <2>4. QED
        BY <1>2, <1>14, <2>1, <2>2, <2>3, BiasLeftAlone DEF Next
    <1>15. CASE /\ table' = table /\ lastId' = lastId /\ biased' = biased
                /\ keeper' \in {keeper, 0} /\ (scorer' = scorer \/ scorer'.read = {})
      <2>1. keeper' \in 0 .. lastId'
        BY <1>1, <1>15 DEF Bias
      <2>2. QED
        BY <1>15, <2>1 DEF Bias, KeeperBiasKept
    <1>16. CASE KeeperUnscored \/ Tick \/ UNCHANGED vars
      BY <1>15, <1>16 DEF KeeperUnscored, Tick, history, vars
    <1>17. CASE Stop \/ Crash
      BY <1>15, <1>17 DEF Stop, Crash, Restart, Resting, history
    <1>18. CASE ReflectAgain \/ ReflectFail \/ ForgetAnswered \/ ForgetDefer
      BY <1>15, <1>18 DEF ReflectAgain, ReflectFail, ForgetAnswered, ForgetDefer, history
    <1>19. ASSUME NEW p \in Peers, ReflectBegin(p) \/ ForgetBegin(p)
           PROVE  Bias'
      BY <1>15, <1>19 DEF ReflectBegin, ForgetBegin, history
    <1>20. ASSUME NEW insights \in 1 .. MaxInsights, ReflectAnswered(insights)
           PROVE  Bias'
      BY <1>15, <1>20 DEF ReflectAnswered, history
    <1>21. QED
      BY <1>6, <1>7, <1>8, <1>9, <1>10, <1>11, <1>12, <1>13, <1>14, <1>16, <1>17, <1>18,
         <1>19, <1>20 DEF Next

-----------------------------------------------------------------------------
(* Theorems.                                                               *)

\* Rows, clock and tasks keep their types.
THEOREM TypeCorrect == Spec => []TypeOK
    <1>1. Inv => TypeOK
      BY DEF Inv
    <1>2. QED
      BY <1>1, SpecInv, PTL

\* What was once remembered is told by a live row, whatever is folded, fails or
\* crashes.
THEOREM NothingIsLost == Spec => []NothingForgottenUnsummarised
    <1>1. Inv => NothingForgottenUnsummarised
      BY DEF Inv
    <1>2. QED
      BY <1>1, SpecInv, PTL

\* Exactly what a finished reflection read or wrote is marked.
THEOREM MarksAreReadings == Spec => []ReflectedAsRead
    <1>1. Inv => ReflectedAsRead
      BY DEF Inv
    <1>2. QED
      BY <1>1, SpecInv, PTL

\* SQLite never gives an id a second time, although it takes the largest live
\* id plus one: forget_once inserts before it deletes.
THEOREM IdsStayUnique == Spec => IdsNeverReused
    <1>1. Inv /\ [Next]_vars
            => [\A i \in DOMAIN table' \ DOMAIN table : i > lastId]_vars
      BY StepAddsAndDeletes
    <1>2. QED
      BY <1>1, SpecInv, PTL DEF Spec, IdsNeverReused

\* A memory without an importance is never deleted.
THEOREM PendingStays == Spec => PendingNeverForgotten
    <1>1. Inv /\ [Next]_vars
            => [\A i \in DOMAIN table \ DOMAIN table' : table[i].importance # Pending]_vars
      BY StepAddsAndDeletes
    <1>2. QED
      BY <1>1, SpecInv, PTL DEF Spec, PendingNeverForgotten

\* The score of an exchange with the Keeper keeps its bias unless the loop had
\* listed the row before that score arrived (_summarize).
THEOREM BiasIsKept == Spec => []KeeperBiasKept
    <1>1. Init => Bias
      BY DEF Init, Resting, Bias, KeeperBiasKept
    <1>2. Inv /\ Bias /\ [Next]_vars => Bias'
      BY BiasStep
    <1>3. Bias => KeeperBiasKept
      BY DEF Bias
    <1>4. QED
      BY <1>1, <1>2, <1>3, SpecInv, PTL DEF Spec
=============================================================================
