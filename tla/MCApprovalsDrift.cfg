SPECIFICATION Spec
CONSTANTS
    Handlers = {h1, h2}
    People = {alice, bob}
    Proposals = {p1, p2}
    Policies = {locked, strict, open}
    Default = open
    MaxEdits = 2
    NoOne = NoOne
    Sweep = Sweep
SYMMETRY Symmetry
INVARIANT
    AppliedOnBaseline
CHECK_DEADLOCK FALSE
