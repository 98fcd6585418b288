CONSTANTS
  Producers = {p1, p2}
  Consumers = {c1}
  BufWords = 4
  CursorMod = 11
  Sizes = {1}
  Contiguity = {FALSE}
  DataWords <- OneWord
  MaxTraffic = 12
SPECIFICATION Spec
INVARIANT WaitsForEmptyToWrap
