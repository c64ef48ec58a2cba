SPECIFICATION FairSpec
CONSTANTS
  l1 = l1
  l2 = l2
  Library = {l1, l2}
  Loadable = {l1}
  BufEvents = 2
INVARIANTS TypeOK OneFactory FactoryBuilt UsersOutlived
PROPERTIES DestructorEnds
\* The program ends, or is not told to.
CHECK_DEADLOCK FALSE
