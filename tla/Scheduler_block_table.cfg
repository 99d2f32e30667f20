CONSTANTS
    r1 = r1
    r2 = r2
    r3 = r3
    tokA = tokA
    tokB = tokB
    eos = eos
    Rid <- MCTwo
    NumPromptTokens <- MCPrompt
    MaxTokens <- MCMaxTokens
    Token <- MCToken
    StopToken = {}
    MaxModelLen = 5
    Target <- MCTarget
    PP = 2
    MaxNumSeqs = 2
    MaxNumBatchedTokens = 2
    LongPrefillThreshold = 0
    EnableLaSched1 = FALSE
    DropNum = 0
    DropDen = 1
    EnableLaSched2 = FALSE
    MaxBoost = 0
    MemEstiBlocks = 0
    NumBlocks = 5
    BlockSize = 1
    NumPreallocateBlocks = 0
SPECIFICATION Spec
INVARIANT
    BlockTableAgrees
