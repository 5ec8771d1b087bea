CONSTANTS
    Residents <- MCResidents
    Drifter = "echo"
    Tiles <- MCTiles
    Walkable <- MCWalkable
    Adjacent <- MCAdjacent
    Nodes <- MCNodes
    NoTile = NoTile
    HomeNode <- MCHomeNode
    Standable <- MCStandable
    Routes <- MCRoutes
SPECIFICATION Spec
INVARIANTS
    TypeOK
    NoOverlap
    NeverStranded
PROPERTIES
    NoJump
    ImplementsTraffic
