SPECIFICATION Spec
CONSTANTS
    w1 = w1
    w2 = w2
    Lengths <- ManyFiles
    Found <- EachOfMany
    Multifile = TRUE
    PieceLength = 4
    PiecesCount = 3
    LastLength = 1
    UintRange = 16
    Workers = {w1, w2}
    Blank = Blank
INVARIANTS
    TypeOK
    InPlace
    ReportedIsWritten
PROPERTY
    StoresPieces
CHECK_DEADLOCK FALSE
