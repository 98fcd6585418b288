CONSTANTS
  Producers = {p1, p2}
  Consumers = {c1, c2}
  Nodes = {n1, n2, n3}
  Null = Null
  Values = {a, b}
  MaxBatch = 2
SPECIFICATION FairSpec
INVARIANTS
  ListIsSound
  MutualExclusion
PROPERTIES
  ImplementsFifo
  HeadMoves
