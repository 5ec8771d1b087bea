\* Two call sites, two retries, a cap of two units, replies of up to one unit.
CONSTANTS
    Calls = {c1, c2}
    HardCap = 2
    MaxCost = 1
    Retries = 2
    MaxPending = 2
SPECIFICATION FairSpec
INVARIANTS
    TypeOK
    BoundedOvershoot
    HardStopIsShown
    FogSettles
PROPERTIES
    CallsEnd
