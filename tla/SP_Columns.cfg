SPECIFICATION Spec
CONSTANTS
    ClearsUpper = FALSE
    Prime <- MCPrime
    ParallelDepth = 1
    Sessions <- ColumnSessions
    Policies <- MCPolicies
    Refinements <- MCRefinements
CHECK_DEADLOCK FALSE
INVARIANT
    SolvesEverySystem
