SPECIFICATION Spec
CONSTANTS
    NgramLen = 3
    HistorySize = 2
    Rows = {1, 2}
    Tokens = {0, 1, 2}
    Eos = 2
    Pad = 2
    OutputsLen = 6
    Backends <- MCBackends
    SkipFirst = {TRUE, FALSE}
    Half = 5
    HashOf <- MCHashOf
    MaskHash <- MCMaskHash
INVARIANTS
    TypeOK
    
    ScoresWhatWasDrawn
    ReplayAgrees
