CONSTANTS
  Clients = {c1, c2}
  c1 = c1
  c2 = c2
  Owner = c1
  Workers = {w1, w2}
  Capacity = 2
  Kinds = {"plain", "once", "repeat"}
  IdxMod = 4
  MaxCalls = 2
  MaxRepeats = 1
  MaxPending = 3
SPECIFICATION Spec
SYMMETRY Symmetry
CHECK_DEADLOCK FALSE
INVARIANTS
  IndicesAreHeld
  InTurn
  OnlyRepeatsOutlive
