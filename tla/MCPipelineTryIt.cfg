SPECIFICATION PipelineSpec
CONSTANTS
    None = None
    Requests = {r1, r2}
    Inputs <- MCCalls
    StorablePolicies <- MCPolicies
    Args <- MCArgs
    OutcomeSpace <- MCOutcomeSpace
    MaxWrites = 0
INVARIANT
    TryItReportsItsOwn
CHECK_DEADLOCK FALSE
