SPECIFICATION Spec
CONSTANTS
    PositionTotalNum = 2
    FoldingNum <- MCFoldingNumParallel
    ParallelFlag = TRUE
    MayFail <- MCMayFail
    Leftover <- MCLeftover
INVARIANTS
    VerifiedCountsInOrder
PROPERTIES
    ProversRunOut
