SPECIFICATION Spec
CHECK_DEADLOCK FALSE
CONSTANTS
    Tokens <- MCTokens
    Oracles <- MCOracles
    Envs <- MCEnvs
    Prime = 13
    Pow253 = 8
    GammaInv = 4
    GreenListSize = 2
    SummationNum = 3
    MaxText = 5
INVARIANTS
    TypeOK
    BiasesGreenOnce
    CacheHoldsLists
    DetectsWhatWasBiased
    ProvesOwnText
    SumsEveryFlag
    AcceptedUnlessTie
    CountsGreenAndFolded
    CountsListedTokens
PROPERTIES
    RunEnds
