SPECIFICATION FairSpec
CONSTANTS
    c1 = c1
    c2 = c2
    r1 = r1
    r2 = r2
    r3 = r3
    Copies <- TwoCopies
    Reqs <- ThreeReqs
    home <- TwoInOne
    Nobody = Nobody
    UseRedis = TRUE
    MaxLapses = 1
INVARIANTS LocalExclusion KeyExclusion
PROPERTIES OwnKeyStays NeverHangs
CHECK_DEADLOCK FALSE
