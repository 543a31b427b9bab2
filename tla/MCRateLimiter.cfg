SPECIFICATION LimiterSpec
CONSTANTS
    Absent = Absent
    Gone = Gone
    Requests = {r1, r2}
    Replicas = {a, b}
    Specs <- MCSpecs
    Unit = 2
    MaxTime = 4
    MaxEdits = 1
SYMMETRY Symmetry
INVARIANTS
    LimiterTypeOK
    WindowLimit
PROPERTY
    ExpiryForgetsNothing
CHECK_DEADLOCK FALSE
