CONSTANTS
    NumSupernodes = 8
    Parent <- TreeParent
    SupernodeSize <- TreeSize
    Degree <- TreeDegree
    Structure <- TreeStructure
    ForwardWork = 12
    ForwardMaxDepth = 4
    BackwardWork = 12
    BackwardMaxDepth = 10
    MaxSolves = 2
SPECIFICATION FairSpec
INVARIANTS
    TypeOK
    UpdatesExactlyOnce
    NoDataRace
    GroupsPrepared
PROPERTIES
    ImplementsTriangularSystem
    EverySolveReturns
