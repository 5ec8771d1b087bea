\* Two messages, two notes of one title, a page that connects twice, one change
\* of the outage and one crash.
CONSTANTS
    Messages = {m1, m2}
    Titles = {t1}
    MaxCalls = 1
    MaxDeltas = 1
    MaxCopies = 2
    MaxFlips = 1
    MaxLinks = 2
    MaxCrashes = 1
SPECIFICATION FairSpec
INVARIANTS
    TypeOK
    RepliesUnmixed
    NotesRemembered
    FogResyncs
PROPERTY EveryMessageSettled
\* Every message answered and all bounds used: the world may stop.
CHECK_DEADLOCK FALSE
