CONSTANTS
    NumSupernodes = 7
    Parent <- WideParent
    SupernodeSize <- WideSize
    Degree <- WideDegree
    TileSize = 1
    MergeSize = 0
    MinParallelThreshold = 4
    InverseRatio = 50
    TbbCancellation = TRUE
    ThreadChoices = {1, 2}
    InputChoices <- WideInputs
    MaxFactorizations = 2
SPECIFICATION Spec
INVARIANTS
    CancelledOnlyAfterFailure
    MergesOnlyCompleteFronts
    FactorsOnlyAssembledFronts
    FramesNest
    ContextPresent
    OutcomeIsTrue
    SuccessReleasesStorage
