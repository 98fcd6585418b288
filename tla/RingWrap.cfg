CONSTANTS
  Producers = {p1}
  Consumers = {c1, c2}
  BufWords = 4
  CursorMod = 11
  Sizes = {1}
  Contiguity = {FALSE}
  DataWords <- OneWord
  MaxTraffic = 12
SPECIFICATION FairSpec
INVARIANTS
  TypeOK
  SafeBeforeWrap
PROPERTY EverythingDrains
