SPECIFICATION PipelineSpec
CONSTANTS
    None = None
    Requests = {r1}
    Inputs <- MCInputs
    StorablePolicies <- MCPolicies
    Args <- MCArgs
    OutcomeSpace <- MCOutcomeSpace
    MaxWrites = 3
INVARIANTS
    PipelineTypeOK
    OneTrueDecisionRow
    BlockedNeverSent
    AgreedRefusalHolds
    AgreedScanHolds
    UsageFollowsRows
CHECK_DEADLOCK FALSE
