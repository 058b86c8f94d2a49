SPECIFICATION Spec
CONSTANTS
    PositionTotalNum = 2
    FoldingNum <- MCFoldingNumParallel
    ParallelFlag = TRUE
    MayFail <- MCNothing
    Leftover <- MCNothing
INVARIANTS
    VerifiedIsOwn
