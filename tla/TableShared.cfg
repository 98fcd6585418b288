CONSTANTS
  Threads = {t1, t2}
  t1 = t1
  t2 = t2
  Null = Null
  SlotMax = 2
  WordBits = 2
  PageMax = 2
  MaxConstructs = 2
  MaxLive = 3
  MaxRefs = 2
SPECIFICATION Spec
SYMMETRY Symmetry
CHECK_DEADLOCK FALSE
INVARIANTS
  PagesAreSound
  CountsMatchReferences
  SlotsHaveOneOwner
