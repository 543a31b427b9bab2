SPECIFICATION KeysSpec
CONSTANTS
    Rotators = {c1}
    Loop = loop
    Routes = {route}
    Ttl = 1
    RefreshAfter = 0
    OverlapTtls = 2
    MaxTime = 3
    MaxTasks = 1
    MaxKeys = 2
    MaxFaults = 1
    None = None
INVARIANTS
    KeysTypeOK
    IssuerIsFingerprint
    CachedTokenIsCurrent
    GapHasCause
PROPERTY
    FollowsRows
CHECK_DEADLOCK FALSE
