SPECIFICATION Spec
CONSTANTS
    None = None
    Calls = {c1, c2}
    Keys = {k1}
    Quota = 5
    StartUsage = {3}
    FiredMax = 1
    Subscribed = {TRUE}
    MaxPeriod = 1
    MaxStarts = 5
SYMMETRY Symmetry
INVARIANT
    ReachedIsAlerted
CHECK_DEADLOCK FALSE
