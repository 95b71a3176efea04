CONSTANTS
    Height = 7
    TileSize = 2
    Cancellation = TRUE
    OthersFail = TRUE
    OthersWait = TRUE
    Inputs = {0, 1, 2, 3, 4}
    MaxRuns = 2
SPECIFICATION Spec
INVARIANT
    OperandsAlwaysReady
