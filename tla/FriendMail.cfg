\* Two friends, two overlapping callers and the loop, a cap of two, five mails.
CONSTANTS
    Friends = {f1, f2}
    Callers = {c1, c2}
    Cap = 2
    CadenceDays = 1
    MaxMails = 5
    MaxDay = 2
    MaxLaunches = 2
SYMMETRY Symmetry
SPECIFICATION Spec
INVARIANTS
    TypeOK
    CapOvershootBounded
    HearsayHasLetter
    ThreadsAreWhole
PROPERTIES
    CadenceKept
\* All launches, days and rows of the bounds used: the world may stop.
CHECK_DEADLOCK FALSE
