SPECIFICATION Spec
CONSTANTS
    NumShards = 1
    Limit = 1
    EarlierLimit = 0
    NumAttacks = 1
    LastStage = 3
    MaxCrashes = 1
    TornWrites = TRUE
    Roles <- MCRoles
INVARIANTS
    PublishedIsJournalled
