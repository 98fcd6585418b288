CONSTANTS
  Clients = {c1}
  c1 = c1
  Owner = c1
  Workers = {w1, w2}
  Capacity = 2
  Kinds = {"repeat"}
  IdxMod = 5
  MaxCalls = 1
  MaxRepeats = 2
  MaxPending = 4
SPECIFICATION Spec
CHECK_DEADLOCK FALSE
INVARIANT TokenOutlivesTasks
