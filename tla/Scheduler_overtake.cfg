CONSTANTS
    r1 = r1
    r2 = r2
    r3 = r3
    tokA = tokA
    tokB = tokB
    eos = eos
    Rid <- MCThree
    NumPromptTokens <- MCPrompt
    MaxTokens <- MCMaxTokens
    Token <- MCToken
    StopToken = {}
    MaxModelLen = 5
    Target <- MCTarget
    PP = 2
    MaxNumSeqs = 3
    MaxNumBatchedTokens = 15
    LongPrefillThreshold = 0
    EnableLaSched1 = TRUE
    DropNum = 1
    DropDen = 2
    EnableLaSched2 = FALSE
    MaxBoost = 0
    MemEstiBlocks = 0
    NumBlocks = 6
    BlockSize = 1
    NumPreallocateBlocks = 0
SPECIFICATION Spec
INVARIANT
    StrictFCFS
