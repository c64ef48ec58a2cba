SPECIFICATION Spec
CONSTANTS
  l1 = l1
  l2 = l2
  Library = {l1, l2}
  Loadable = {l1}
  BufEvents = 2
INVARIANTS ListensUntilDestroyed
\* The program ends, or is not told to.
CHECK_DEADLOCK FALSE
