SPECIFICATION Spec
CONSTANTS
    None = None
    Tools <- MCTools
    Patterns <- MCPatterns
    PolicySpace <- MCPolicySpace
    ArgsSpace <- MCArgsSpace
INVARIANTS
    ForwardedComplies
    AnsweredIsExact
PROPERTY
    LoadOnlyTightens
CHECK_DEADLOCK FALSE
