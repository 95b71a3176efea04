SPECIFICATION Spec
CONSTANTS
    ClearsUpper = FALSE
    Prime <- MCPrime
    ParallelDepth = 1
    Sessions <- RefactorSessions
    Policies <- MCPolicies
    Refinements <- MCRefinements
CHECK_DEADLOCK FALSE
INVARIANT
    RefactorFactorsTheMatrix
