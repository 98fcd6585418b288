CONSTANTS
  Threads = {t1, t2}
  Events = {e1, e2}
  e1 = e1
  e2 = e2
  Systems = {s1}
  Handlers = {f1, f2}
  f1 = f1
  f2 = f2
  Reaction <- Chain
  Nothing = Nothing
  QueueSize = 3
  MaxRaises = 4
  MaxBegun = 2
  MaxBinds = 2
SPECIFICATION FairSpec
CHECK_DEADLOCK FALSE
INVARIANTS
  UsesCountBindings
  CallsFollowRaises
  CopiesLiveWithTheirCalls
PROPERTY
  CallsHappen
