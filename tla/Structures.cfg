CONSTANTS
    Keys = {0, 1, 2, 3}
    Payloads = {p, q}
    ChainLength = 2
    SlotCounts = {1, 4}
    BucketSizes = {1, 3}
    Texts <- SampleTexts
    Quantum = 2
    MaxSize = 4
    Values = {1, 2, 3, 4, 5, 6}
    Default = 0
    Threads = {t1, t2}
    BlockCount = 3
    WordSize = 2
    Lengths = {1, 2}
    MaxPages = 2
    Attempts = 2
    MaxHeld = 2
    Base = 4
    Room = 15
    FormatRoom = 7
    LogTexts <- SampleLogTexts
    Styles = {0, 1}
    Colors = {1, 3}
    Functors = {2, 3, 5}
    BufferSize = 4
    QueuedSize = 2
    Owners = {o1, o2, o3}
    Blocks = {b1, b2}
    NoBlock = NoBlock
    MaxOwed = 2
    Paths = {d1, d2}
    Callbacks = {c1, c2}
    Capacity = 2
    MaxInfos = 3
    MaxAsked = 2
    MaxChanges = 3
    InfoMod = 65536
    BF = 4
    BufSize = 9
    EraseLengths = {1, 3, 12}
    Stride = 7
    MaxEdits = 2
INIT MCInit
NEXT MCNext
SYMMETRY Symmetry
INVARIANTS
    HashAgrees
    StringsAgree
    TreeAgrees
    MarksFollowAllocations
    SaysWhatWasLogged
    FunctionsAgree
    CountsOwners
    WatchesAgree
    TreeIsSound
    ReadsAsEdited
    CopyKeepsText
CHECK_DEADLOCK FALSE
