SPECIFICATION MCSpec
CONSTANTS
    Chars = {"x", ".", " ", "/", "?"}
    DownloadPaths <- Folders
    PathBuffer = 8
    MaxNames = 3
    MaxChars = 6
    MaxSize = 200
    MaxPiece = 20
    BlockSize = 3
    IntBits = 3
    MaxLen = 10
    Align = 4
    CommitChunk = 8
    Reserve = 24
    PushSizes = {0, 3, 4, 9}
INVARIANTS
    TextParsed
    HashOfTheFile
    AllocatedBelow
    AskedAndAwaited
    Padding
    ArenaSound
CHECK_DEADLOCK FALSE
