CONSTANTS
  Producers = {p1, p2}
  Consumers = {c1, c2}
  BufWords = 5
  CursorMod = 64
  Sizes = {1}
  Contiguity = {TRUE, FALSE}
  DataWords <- PlainWords
  MaxTraffic = 7
SPECIFICATION Spec
SYMMETRY Symmetry
INVARIANTS
  ExclusiveRegions
  MessagesArriveWhole
  AllocationIsClean
  ReservationsDisjoint
PROPERTY ExclusiveAccess
