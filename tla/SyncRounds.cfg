SPECIFICATION Spec
CONSTANTS
    Items = {i1, i2}
    ClientIds = {c1}
    Filters = {}
    Reqs = {r1, r2}
    Nil = Nil
    WindowSize = 1
    MaxGen = 3
    MaxCursor = 1
    MaxLost = 1
    MaxFaults = 2
    MaxChunk = 3
    InlineHeldLimit = 1
    HeldChunkSize = 1
    Mixed = FALSE
    Exclusive = TRUE
    InOrder = TRUE
    RestartKeepsPrevious = TRUE
    CleansUp = TRUE
SYMMETRY Symmetry
INVARIANTS KeyAccepted NoDuplicateAdd HeldAgreement ChunksDisjoint
PROPERTIES NoLiveChunkWrite
