SPECIFICATION Spec
CONSTANTS
    ClearsUpper = FALSE
    Prime <- MCPrime
    ParallelDepth = 1
    Sessions <- MCSessions
    Policies <- MCPolicies
    Refinements <- MCRefinements
CHECK_DEADLOCK FALSE
INVARIANTS
    TypeOK
    EditsApplied
    OrderingSeparates
    ForestIsFound
    AnalysisIsExact
    FactorIsExact
    SolutionSolves
    WorkspaceFits
PROPERTIES
    AnalysisReturns
