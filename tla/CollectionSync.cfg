SPECIFICATION FairSpec
CONSTANTS
    MaxUid = 2
    MaxTime = 3
    WindowSize = 1
    MoveScanLimit = 2
    ReconcileLimit = 1
    Overlap = 1
    MoveSlack = 2
    MaxLag = 1
    MaxCount = 2
    MaxLost = 1
    Merges = FALSE
INVARIANTS NothingSkipped NoMoveSkipped EstimateCovers
PROPERTIES Converges Quiesces
