SPECIFICATION Spec
CONSTANTS
    w1 = w1
    w2 = w2
    Lengths <- SingleFile
    Found <- TheOne
    Multifile = FALSE
    PieceLength = 4
    PiecesCount = 2
    LastLength = 4
    UintRange = 16
    Workers = {w1, w2}
    Blank = Blank
INVARIANT
    ReportedIsWritten
CHECK_DEADLOCK FALSE
