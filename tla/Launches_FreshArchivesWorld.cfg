\* As Launches.cfg: one launch that crashes, one with --fresh.
CONSTANTS
    Away = 1
    Interval = 1
    Keep = 1
    ScoreMax = 2
    Delta = 2
    Deltas <- Quarrels
    Batches <- Tales
    MaxLaunches = 2
    MaxNow = 2
    MaxDay = 2
SPECIFICATION Spec
PROPERTIES
    FreshArchivesWorld
CHECK_DEADLOCK FALSE
