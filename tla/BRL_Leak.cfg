CONSTANTS
    NumSupernodes = 5
    Parent <- SmallParent
    SupernodeSize <- SmallSize
    Degree <- SmallDegree
    TileSize = 1
    MergeSize = 0
    MinParallelThreshold = 3
    InverseRatio = 50
    TbbCancellation = TRUE
    ThreadChoices = {2}
    InputChoices <- PairInputs
    MaxFactorizations = 1
SPECIFICATION Spec
INVARIANT
    AllocatedOnlyWhileInUse
