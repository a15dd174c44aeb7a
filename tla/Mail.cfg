SPECIFICATION Spec
CONSTANTS
    Messages = {m1, m2}
    Reqs = {r1, r2}
    BatchSize = 1
    MaxBatches = 2
    MaxEdits = 1
    MaxBegun = 2
    MaxSends = 2
    MaxStops = 1
    JobRaces = FALSE
SYMMETRY Symmetry
INVARIANTS SentOnce EmptyIsEmpty
PROPERTIES CancelHolds ContentKept FlagsKept
CHECK_DEADLOCK FALSE
