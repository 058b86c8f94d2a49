SPECIFICATION FairSpec
CONSTANTS
    NumShards = 2
    Limit = 3
    EarlierLimit = 1
    NumAttacks = 1
    LastStage = 6
    MaxCrashes = 1
    TornWrites = FALSE
    Roles <- MCMain
INVARIANTS
    TypeOK
    MergedIsComplete
PROPERTIES
    
    RerunsMerge
