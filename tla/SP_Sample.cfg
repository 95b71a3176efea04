SPECIFICATION Spec
CONSTANTS
    ClearsUpper = FALSE
    Prime <- MCPrime
    ParallelDepth = 1
    Sessions <- SampleSessions
    Policies <- MCPolicies
    Refinements <- MCRefinements
CHECK_DEADLOCK FALSE
INVARIANT
    SampleIsOfTheMatrix
