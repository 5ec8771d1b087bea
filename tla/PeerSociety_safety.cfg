\* Two peers and one board post.
CONSTANTS
    Peers = {ann, bob}
    BoardRequests = {req}
    ChoosableActions = {"move", "talk", "read_board", "emote"}
    TurnLimits = {2}
    RepeatExclusionRun = 3
SPECIFICATION Spec
SYMMETRY Symmetry
INVARIANTS
    TypeOK
    BusyExact
    OneDecisionPerPeer
    AntiRepeat
