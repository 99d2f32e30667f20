CONSTANTS
    tokA = tokA
    tokB = tokB
    r1 = r1
    r2 = r2
    r3 = r3
    BatchRid = {r1, r2, r3}
    MaxReqs = 3
    MaxInFlight = 2
    KVRid = {r1, r2}
    KVPrompts <- MCPrompts
    KVToken = {tokA, tokB}
    KVMaxLen = 5
    KVBlockSize = 2
    NumGpuBlocks = 4
    PreallocateBlocks = 0
    MaxSteps = 2
    MaxPreempt = 1
SPECIFICATION Spec
INVARIANTS
    TypeOK
    BatchConsistent
    AssertionsHold
    PoolExact
    ChainsUnbroken
PROPERTIES
    EmbeddingsInOrder
    ReadsOwnTokens
SYMMETRY MCSymmetry
CHECK_DEADLOCK FALSE
