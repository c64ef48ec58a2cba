SPECIFICATION Spec
CONSTANTS
  nbdTask = nbdTask
  stdinTask = stdinTask
  urgentTask = urgentTask
  Thread = {t1, t2, t3}
  Elem = {nbdTask, stdinTask, urgentTask}
  Prio <- MCPrio
INVARIANTS TypeOK NoLostWakeup
