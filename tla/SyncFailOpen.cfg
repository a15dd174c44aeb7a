SPECIFICATION Spec
CONSTANTS
    Items = {i1}
    ClientIds = {}
    Filters = {f1}
    Reqs = {r1, r2}
    Nil = Nil
    WindowSize = 2
    MaxGen = 3
    MaxCursor = 1
    MaxLost = 1
    MaxFaults = 0
    MaxChunk = 0
    InlineHeldLimit = 1
    HeldChunkSize = 1
    Mixed = TRUE
    Exclusive = FALSE
    InOrder = FALSE
    RestartKeepsPrevious = TRUE
    CleansUp = FALSE
SYMMETRY Symmetry
PROPERTIES NoLostRound FilterAdoptedEmpty
