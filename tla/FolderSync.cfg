SPECIFICATION Spec
CONSTANTS
    MaxUid = 2
    MaxTime = 4
    Reqs = {r1, r2}
    Nil = Nil
    WindowSize = 1
    MaxPages = 3
    MaxGen = 3
    MaxLost = 2
    Calm = TRUE
INVARIANTS NothingMissed KnownFolders KeyAccepted
CHECK_DEADLOCK FALSE
