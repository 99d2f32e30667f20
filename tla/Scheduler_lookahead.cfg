CONSTANTS
    r1 = r1
    r2 = r2
    r3 = r3
    tokA = tokA
    tokB = tokB
    eos = eos
    Rid <- MCTwo
    NumPromptTokens <- MCPrompt
    MaxTokens <- MCMaxTokens4
    Token <- MCToken
    StopToken = {}
    MaxModelLen = 6
    Target <- MCTarget
    PP = 3
    MaxNumSeqs = 2
    MaxNumBatchedTokens = 2
    LongPrefillThreshold = 0
    EnableLaSched1 = TRUE
    DropNum = 1
    DropDen = 2
    EnableLaSched2 = TRUE
    MaxBoost = 1
    MemEstiBlocks = 1
    NumBlocks = 20
    BlockSize = 2
    NumPreallocateBlocks = 0
SPECIFICATION FairSpec
INVARIANTS
    KVCovered
    BlockTableAgrees
PROPERTIES
    Lossless
    ImplementsPipeline
    PrefillCompletes
    EveryRequestFinishes
