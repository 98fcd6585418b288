CONSTANTS
  Threads = {t1}
  t1 = t1
  Null = Null
  SlotMax = 2
  WordBits = 2
  PageMax = 2
  MaxConstructs = 2
  MaxLive = 2
  MaxRefs = 1
SPECIFICATION FairSpec
CHECK_DEADLOCK FALSE
PROPERTY ConstructReturns
