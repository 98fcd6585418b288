CONSTANTS
  Producers = {p1}
  Consumers = {c1, c2}
  BufWords = 4
  CursorMod = 64
  Sizes = {0, 1}
  Contiguity = {FALSE}
  DataWords <- LookalikeWords
  MaxTraffic = 5
SPECIFICATION Spec
PROPERTY ExclusiveAccess
