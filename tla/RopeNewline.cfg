CONSTANTS
    Cr <- CR
    Lf <- LF
    RunOn <- RUN
    Nul <- NUL
    CharIsSigned = TRUE
    InfoMod = 65536
    BF = 4
    BufSize = 9
    Texts <- TestTexts
    Inserts <- TestInserts
    Lengths = {1, 3, 12}
    Stride = 5
    MaxEdits = 2
SPECIFICATION Spec
INVARIANT InsertedTextIsThere
CHECK_DEADLOCK FALSE
