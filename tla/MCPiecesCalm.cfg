SPECIFICATION FairSpec
CONSTANTS
    p1 = p1
    p2 = p2
    w1 = w1
    w2 = w2
    Peers = {p1}
    Workers <- MCWorkers
    PiecesCount = 3
    PieceBlocks = 3
    LastBlocks = 2
    BLOCK_SIZE = 1
    MAX_PEERS = 2
    Announcements <- FullBitfield
    Faults <- OnlyUnknown
    MaxUnchokes = 1
    MaxTasks = 2
    MaxDownloaded = 3
INVARIANTS
    OneStage
    CountedOnce
    DiskHoldsHave
    WritesWhatWasVerified
PROPERTY
    ArrivesUnlessWritesFail
CHECK_DEADLOCK FALSE
