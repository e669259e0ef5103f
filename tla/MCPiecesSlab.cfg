SPECIFICATION Spec
CONSTANTS
    p1 = p1
    p2 = p2
    w1 = w1
    w2 = w2
    Peers <- MCPeers
    Workers <- MCWorkers
    PiecesCount = 2
    PieceBlocks = 1
    LastBlocks = 1
    BLOCK_SIZE = 2
    MAX_PEERS = 2
    Announcements <- FullBitfield
    Faults <- OnlyHandshake
    MaxUnchokes = 2
    MaxTasks = 2
    MaxDownloaded = 2
INVARIANT
    OwnBitfield
CHECK_DEADLOCK FALSE
