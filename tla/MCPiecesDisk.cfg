SPECIFICATION Spec
CONSTANTS
    p1 = p1
    p2 = p2
    w1 = w1
    w2 = w2
    Peers = {p1}
    Workers <- MCWorkers
    PiecesCount = 2
    PieceBlocks = 2
    LastBlocks = 2
    BLOCK_SIZE = 2
    MAX_PEERS = 2
    Announcements <- FullBitfield
    Faults <- NoFaults
    MaxUnchokes = 1
    MaxTasks = 2
    MaxDownloaded = 2
INVARIANT
    DiskHoldsHave
CHECK_DEADLOCK FALSE
