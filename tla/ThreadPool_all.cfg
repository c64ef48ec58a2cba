SPECIFICATION Spec
CONSTANTS
  k1 = k1
  k2 = k2
  Task = {k1, k2}
  Prio <- MCPrio
  Throwing = {k1}
  MaxThreads = 3
  InitSize = 2
  MaxCalls = 3
  Ops = {"Pause", "Resume", "SetSize", "Stop", "StopTimed"}
INVARIANTS TypeOK ExecutedOnce StopTasksSuffice
PROPERTIES NoTaskStartsAfterStop QueueSpec
\* A stopped pool, and one whose client makes no more calls, rests.
CHECK_DEADLOCK FALSE
