SPECIFICATION FairSpec
CONSTANTS
  PoolSize = 2
  MaxRequests = 2
  MaxSignals = 2
INVARIANTS TypeOK CleanReturn ListenerJoined KilledDetached
PROPERTIES QuitEnds DisconnectEnds
\* The process ends, and without a key or a signal it may wait for ever.
CHECK_DEADLOCK FALSE
