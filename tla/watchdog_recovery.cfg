SPECIFICATION FairDogSpec
CONSTANTS
    NumShards = 1
    Limit = 1
    EarlierLimit = 0
    NumAttacks = 1
    LastStage = 2
    MaxCrashes = 1
    TornWrites = TRUE
    StalledIntervals = 1
    Roles <- MCRoles
INVARIANTS
    DogTypeOK
    CompleteHasAll
    

    
