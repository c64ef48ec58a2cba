SPECIFICATION FairSpec
CONSTANTS
  w1 = w1
  r1 = r1
  f1 = f1
  Request = {w1, r1, f1}
  Type <- MCType
  Offset <- MCOffset
  Length <- MCLength
  StorageSize = 2
  Zero = Zero
  Fails = {r1}
  MaxSignals = 2
INVARIANTS TypeOK ZeroMeansReleased RepliesIntact
PROPERTIES DeviceSpec DisconnectEnds OrphanEnds ParentFollows
\* The processes end, and the kernel need not send requests.
CHECK_DEADLOCK FALSE
