SPECIFICATION Spec
CONSTANTS
    MaxRunning = 4
    Scale = 3
    NumBuckets = 2
    DropNum = 1
    DropDen = 3
    EnableLaSched2 = TRUE
    MaxBoost = 1
    ConfThre = 0
    PP = 2
    AccNum = 1
    AccDen = 2
    MaxIter = 4
    iter_list <- MCIterList
    expect_length <- MCExpectLength
    PrecNum <- MCPrec
    PrecDen = 2
    Margin = 7
    TokenCounts <- MCTokenCounts
    MaxBatch = 2
    MaxWaiting = 2
INVARIANTS
    TypeOK
    SelectionCorrect
    CachesCorrect
    AdmissionWithinMargin
