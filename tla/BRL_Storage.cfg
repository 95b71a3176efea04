CONSTANTS
    NumSupernodes = 6
    Parent <- DeepParent
    SupernodeSize <- DeepSize
    Degree <- DeepDegree
    TileSize = 1
    MergeSize = 0
    MinParallelThreshold = 15
    InverseRatio = 50
    TbbCancellation = TRUE
    ThreadChoices = {1, 2}
    InputChoices <- DeepInputs
    MaxFactorizations = 2
SPECIFICATION FairSpec
INVARIANTS
    TypeOK
    LiveFrontsBacked
    StackSuffices
    SuccessCountsEveryPivot
PROPERTIES
    ImplementsElimination
    EveryCallReturns
