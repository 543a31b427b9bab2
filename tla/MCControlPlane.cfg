SPECIFICATION Spec
CONSTANTS
    Users = {admin, bob}
    Admin = admin
    Federated = {bob}
    Ids = {s1, s2}
    Grantable = {"viewer", "admin"}
    Attempts = {a1}
    Handlers = {h1, h2}
    MaxOps = 3
    BreakGlass = FALSE
    Jit = TRUE
    Anyone = Anyone
    None = None
    People = {bob}
    Requests = {q1, q2}
    MaxProjects = 2
    MemberRoles = {"admin"}
    NoOne = None
SYMMETRY Symmetry
INVARIANTS
    TypeOK
    EndedStaysEnded
    LogoutAllHolds
    SetupWonOnce
    SetupLeavesAdmin
    RoleOnRecord
    NothingOrphaned
CHECK_DEADLOCK FALSE
