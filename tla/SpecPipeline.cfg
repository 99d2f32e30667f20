CONSTANTS
    tokA = tokA
    tokB = tokB
    eos = eos
    Token <- MCToken
    StopToken = {eos}
    MaxModelLen = 8
    PP = 4
    NumPromptTokens = 2
    MaxTokens = 6
    EnableLaSched1 = TRUE
    ChunkedPrefill = TRUE
    SplitResume = FALSE
    EvictDropped = FALSE
    Target <- MCTarget
SPECIFICATION FairSpec
INVARIANTS
    TypeOK
    InFlightAccounted
    UserSeesVerified
    RealTokenIsLast
    WithinModelLen
PROPERTIES
    Lossless
    DropEnds
    PreemptionCompletes
