CONSTANTS
    r1 = r1
    r2 = r2
    r3 = r3
    tokA = tokA
    tokB = tokB
    eos = eos
    Rid <- MCTwo
    NumPromptTokens <- MCPrompt
    MaxTokens <- MCMaxTokens5
    Token <- MCTokenEos
    StopToken = {eos}
    MaxModelLen = 7
    Target <- MCTargetEos
    PP = 2
    MaxNumSeqs = 2
    MaxNumBatchedTokens = 14
    LongPrefillThreshold = 0
    EnableLaSched1 = TRUE
    DropNum = 1
    DropDen = 2
    EnableLaSched2 = FALSE
    MaxBoost = 0
    MemEstiBlocks = 0
    NumBlocks = 7
    BlockSize = 1
    NumPreallocateBlocks = 0
SPECIFICATION FairSpec
PROPERTY
    Lossless
