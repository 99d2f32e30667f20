CONSTANTS
    r1 = r1
    r2 = r2
    r3 = r3
    tokA = tokA
    tokB = tokB
    eos = eos
    Rid <- MCThree
    NumPromptTokens <- MCPrompt
    MaxTokens <- MCMaxTokensMixed
    Token <- MCToken
    StopToken = {}
    MaxModelLen = 7
    Target <- MCTarget
    PP = 3
    MaxNumSeqs = 3
    MaxNumBatchedTokens = 21
    LongPrefillThreshold = 0
    EnableLaSched1 = FALSE
    DropNum = 0
    DropDen = 1
    EnableLaSched2 = FALSE
    MaxBoost = 0
    MemEstiBlocks = 0
    NumBlocks = 7
    BlockSize = 1
    NumPreallocateBlocks = 0
SPECIFICATION FairSpec
INVARIANTS
    TypeOK
    NoRequestLost
    KVCovered
    StrictFCFS
    WaitingDrained
PROPERTIES
    Lossless
    ImplementsPipeline
    EveryRequestFinishes
