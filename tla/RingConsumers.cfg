CONSTANTS
  Producers = {p1}
  Consumers = {c1, c2, c3}
  BufWords = 2
  CursorMod = 64
  Sizes = {0}
  Contiguity = {FALSE}
  DataWords <- OneWord
  MaxTraffic = 4
SPECIFICATION Spec
SYMMETRY Symmetry
PROPERTY
  ImplementsChannel
