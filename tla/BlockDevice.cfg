SPECIFICATION Spec
CONSTANTS
  w1 = w1
  w2 = w2
  w3 = w3
  r1 = r1
  Request = {w1, w2, w3, r1}
  Reads = {r1}
  Byte = {1, 2}
  Span <- MCSpan
  Zero = Zero
INVARIANTS TypeOK StoreFresh ReadsFresh
\* Every request is used once: the device rests when all are completed.
CHECK_DEADLOCK FALSE
