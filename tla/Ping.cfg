SPECIFICATION FairSpec
CONSTANTS
    MaxUid = 3
    MaxTime = 3
    f1 = f1
    f2 = f2
    p1 = p1
    p2 = p2
    Pings <- TwoPings
    readable <- BothOrFirst
    Synced <- TwoFolders
    Folders <- TwoFolders
    folderOf <- OddInFirst
    Listed <- TwoFolders
    None = None
    UseRedis = TRUE
    BatchRowLimit = 0
    ScanLimit = 1
    MaxLag = 0
    MaxUnheard = 1
INVARIANTS OneActive NothingMissed ListenersLeave
PROPERTIES AlwaysAnswers
CHECK_DEADLOCK FALSE
