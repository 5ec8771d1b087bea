\* Three launches, batches of up to two events, summaries a day apart.
CONSTANTS
    Away = 1
    Interval = 1
    Keep = 1
    ScoreMax = 2
    Delta = 2
    Deltas <- Quarrels
    Batches <- Tales
    MaxLaunches = 3
    MaxNow = 2
    MaxDay = 2
SPECIFICATION Spec
INVARIANTS
    TypeOK
    AbsenceToldOnce
    SummariesSpaced
    BondsFollowRows
    ChronicleInOrder
PROPERTIES
    StoppedWorldIsBackedUp
\* All launches and all time used: the world may stop.
CHECK_DEADLOCK FALSE
