\* Two peers and one board post, with fairness.
CONSTANTS
    Peers = {ann, bob}
    BoardRequests = {req}
    ChoosableActions = {"talk"}
    TurnLimits = {2}
    RepeatExclusionRun = 1
SPECIFICATION FairSpec
PROPERTIES
    ConversationsEnd
    DecisionsResolveUnlessCycle
    ImplementsBook
