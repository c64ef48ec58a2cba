SPECIFICATION FairSpec
CONSTANTS
  Worker = {p1, p2}
  MaxKeys = 2
  MaxRequests = 2
  MaxTasks = 2
INVARIANTS TypeOK OrderlyEnd SoundUntilQuit
PROPERTIES QuitReturns RequestsServed
\* Neither keys nor requests need come, and the process ends.
CHECK_DEADLOCK FALSE
