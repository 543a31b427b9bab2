SPECIFICATION Spec
CONSTANTS
    None = None
    Calls = {c1, c2, c3}
    Keys = {k1}
    Quota = 5
    StartUsage = {3}
    FiredMax = 1
    Subscribed = {TRUE, FALSE}
    MaxPeriod = 1
    MaxStarts = 6
SYMMETRY Symmetry
INVARIANTS
    TypeOK
    Accounted
    OvershootBounded
    AlertsAscend
CHECK_DEADLOCK FALSE
