CONSTANTS
    Peers = {ann, bob}
    BoardRequests = {}
    ChoosableActions = {"move", "talk"}
    TurnLimits = {2}
    RepeatExclusionRun = 1
SPECIFICATION FairSpec
PROPERTY EveryDecisionResolves
