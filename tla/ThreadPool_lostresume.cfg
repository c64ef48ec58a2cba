SPECIFICATION FairSpec
CONSTANTS
  k1 = k1
  k2 = k2
  Task = {}
  Prio <- MCPrio
  Throwing = {}
  MaxThreads = 2
  InitSize = 2
  MaxCalls = 2
  Ops = {"Pause", "Stop"}
PROPERTIES StopReturns
\* A stopped pool, and one whose client makes no more calls, rests.
CHECK_DEADLOCK FALSE
