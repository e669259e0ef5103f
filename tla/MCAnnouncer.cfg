SPECIFICATION FairSpec
CONSTANTS
    w1 = w1
    w2 = w2
    TorrentCount = 2
    Schema <- TwoTorrents
    Workers = {w1, w2}
    TableSize = 3
    MaxTasks = 2
    StackReuse = TRUE
INVARIANTS
    TypeOK
    OneRequest
PROPERTIES
    GivenUpStays
    TriesNext
    StuckOnlyThus
CHECK_DEADLOCK FALSE
