CONSTANTS
  Runtimes = {r1, r2}
  Default = r1
  Console = h1
  Threads = {t1, t2}
  Hands = {h1}
  Nothing = Nothing
  QueueSize = 2
  MaxCommands = 4
SPECIFICATION FairSpec
CHECK_DEADLOCK FALSE
INVARIANTS
  HandlersSeeTheirLogs
  FlushIsBarrier
PROPERTY
  FlushesReturn
