SPECIFICATION FairSpec
CONSTANTS
    PositionTotalNum = 3
    FoldingNum <- MCFoldingNum
    ParallelFlag = FALSE
    MayFail <- MCLastMayFail
    Leftover <- MCLeftover
INVARIANTS
    TypeOK
    AssertsHold
    LeavesNoFiles
    VerifiedIsOwn
PROPERTIES
    AllProved
    ProverStops
