SPECIFICATION Spec
CONSTANTS
    Handlers = {h1, h2}
    People = {alice, bob}
    Proposals = {p1}
    Policies = {locked, open}
    Default = open
    MaxEdits = 3
    NoOne = NoOne
    Sweep = Sweep
INVARIANTS
    TypeOK
    FourEyes
    ApprovedWasApplied
    GatedPolicyReviewed
    EventsAreTrue
PROPERTIES
    ResolvedIsFinal
    PendingIsResolved
CHECK_DEADLOCK FALSE
