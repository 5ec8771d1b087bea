\* The Mate and one more peer, three rows when the last task starts, a night.
CONSTANTS
    Peers = {mate, peer}
    Mate = mate
    RawScores = {1, 3}
    MaxImportance = 3
    KeeperBias = 2
    Threshold = 2
    MinInsights = 1
    MaxInsights = 1
    ForgetThreshold = 1
    ClusterSize = 2
    MaxWrites = 2
    MaxIds = 3
    MaxNow = 3
    MaxLaunches = 2
SPECIFICATION FairSpec
INVARIANTS
    TypeOK
    NothingForgottenUnsummarised
    ReflectedAsRead
    KeeperBiasKept
PROPERTIES
    IdsNeverReused
    PendingNeverForgotten
    EveryMemoryIsScored
\* All launches used and every task done: the world may stop.
CHECK_DEADLOCK FALSE
