SPECIFICATION Spec
CONSTANTS
    MaxUid = 2
    MaxTime = 4
    WindowSize = 1
    MoveScanLimit = 1
    ReconcileLimit = 0
    Overlap = 1
    MoveSlack = 2
    MaxLag = 1
    MaxCount = 1
    MaxLost = 0
    Merges = FALSE
INVARIANTS NothingSkipped
