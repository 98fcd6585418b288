CONSTANTS
  Clients = {c1, c2}
  c1 = c1
  c2 = c2
  Owner = c1
  Deferred = TRUE
  Capacity = 3
  Kinds = {"task", "repeat", "nested"}
  MaxSignals = 3
  MaxRepeats = 1
  MaxDepth = 2
SPECIFICATION FairSpec
CHECK_DEADLOCK FALSE
INVARIANTS
  NothingLeftBehind
  LoopsNest
PROPERTY CallsReturn
