CONSTANTS
    x = x
    y = y
    MaxSize = 7
    FlagSize = 2
    HeaderSize = 2
    Cell <- MCCell
    Message <- MCMessage
    NumBatches = 3
    q1 = q1
    q2 = q2
    FERid = {q1, q2}
    OutputKinds <- MCOutputKinds
    StopStrings = {}
    Sampled = {}
    Cores = {TRUE}
    MaxOut = 3
    MaxEvict = 1
SPECIFICATION ChannelsSpec
INVARIANT
    EngineSurvives
