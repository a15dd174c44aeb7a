SPECIFICATION FairSpec
CONSTANTS
    Items = {i1}
    ClientIds = {}
    Filters = {}
    Reqs = {r1, r2}
    Nil = Nil
    WindowSize = 2
    MaxGen = 3
    MaxCursor = 1
    MaxLost = 1
    MaxFaults = 1
    MaxChunk = 1
    InlineHeldLimit = 0
    HeldChunkSize = 1
    Mixed = TRUE
    Exclusive = TRUE
    InOrder = TRUE
    RestartKeepsPrevious = FALSE
    CleansUp = FALSE
PROPERTIES Answers Restarts Implements
