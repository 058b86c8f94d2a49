SPECIFICATION ProverSpec
CONSTANTS
    SeqLen = 1
    Infor = 2
    Key = "k"
    Prime = 11
    Width = 5
    MaxFolds = 3
    Levels = 2
    Tokens <- MCTokens
    NGrams <- MCNGrams
    Positions <- MCPositions
    Keys <- MCKeys
    Maps <- MCMaps
    HashOf <- MCHashOf
    TokensPerFold = 2
    Depth = 2
    Seed = "s"
    Seeds <- MCSeeds
    WmKeys <- MCWmKeys
    GHash <- MCGHash
INVARIANTS
    TypeOK
    OneKey
    
    DigestsBindHistory
    
    
    OneSeed
    PreparedInputsFit
    BothDigestsBind
