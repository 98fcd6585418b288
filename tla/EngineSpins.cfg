CONSTANTS
  Clients = {c1, c2}
  c1 = c1
  c2 = c2
  Owner = c1
  Deferred = TRUE
  Capacity = 7
  Kinds = {"nested"}
  MaxSignals = 1
  MaxRepeats = 0
  MaxDepth = 1
SPECIFICATION Spec
CHECK_DEADLOCK FALSE
INVARIANT NeverAwaitsItself
