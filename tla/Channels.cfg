CONSTANTS
    x = x
    y = y
    MaxSize = 7
    FlagSize = 2
    HeaderSize = 2
    Cell <- MCCell
    Message <- MCMessage
    NumBatches = 3
    q1 = q1
    q2 = q2
    FERid = {q1, q2}
    OutputKinds <- MCOutputKinds
    StopStrings = {q1}
    Sampled = {q2}
    Cores = {TRUE, FALSE}
    MaxOut = 3
    MaxEvict = 1
SPECIFICATION ChannelsSpec
INVARIANTS
    ChannelsTypeOK
    MutualExclusion
    EachBatchItsOutput
    StreamIntact
    NoneOrphaned
PROPERTIES
    BatchAnswered
    EveryClientAnswered
