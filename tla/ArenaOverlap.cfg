CONSTANTS
    Threads = {t1, t2}
    BlockCount = 4
    WordSize = 2
    Lengths = {1, 2}
    MaxPages = 2
    Attempts = 2
    MaxHeld = 3
SPECIFICATION Spec
INVARIANT AllocationsAreExclusive
CHECK_DEADLOCK FALSE
