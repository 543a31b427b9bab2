SPECIFICATION PipelineSpec
CONSTANTS
    None = None
    Requests = {r1}
    Inputs <- MCCalls
    StorablePolicies <- MCPolicies
    Args <- MCArgs
    OutcomeSpace <- MCOutcomeSpace
    MaxWrites = 1
INVARIANT
    PolicyIsOneStored
CHECK_DEADLOCK FALSE
