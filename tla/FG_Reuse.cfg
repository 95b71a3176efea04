CONSTANTS
    Height = 6
    TileSize = 2
    Cancellation = TRUE
    OthersFail = TRUE
    OthersWait = TRUE
    Inputs = {0, 1, 2, 3}
    MaxRuns = 3
SPECIFICATION Spec
INVARIANTS
    TypeOK
    OperandsReady
    PivotsExclusive
    CancelledOnlyAfterNotified
    RunReturnsTruth
