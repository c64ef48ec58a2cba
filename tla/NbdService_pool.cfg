SPECIFICATION FairSpec
CONSTANTS
  w1 = w1
  w2 = w2
  r1 = r1
  r2 = r2
  Request = {w1, w2, r1}
  Reads = {r1}
  Offset <- MCOffset
  Length <- MCLength
  StorageSize = 2
  Worker = {p1, p2}
  Zero = Zero
INVARIANTS TypeOK WholeUnlessMixed
PROPERTIES DeviceSpec EveryRequestCompleted
\* The kernel need not send requests, and after a bad header it is over.
CHECK_DEADLOCK FALSE
