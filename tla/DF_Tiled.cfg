SPECIFICATION Spec
CONSTANTS
    ClearsUpper = TRUE
    Prime <- MCPrime
    Calls <- MCCalls
INVARIANTS
    TypeOK
    ReadyTasksDisjoint
    SplittingAgrees
    ResultIsFactor
    PivotedFactors
    KernelsAgree
PROPERTIES
    CallReturns
