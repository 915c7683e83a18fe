SPECIFICATION Spec
CONSTANTS
  a = a
  b = b
  d = d
  w1 = w1
  w2 = w2
  Calls = {a, b, d}
  Workers = {w1}
  Size <- MCSize1
  ChanCap = 1
  PoolCap = 1
INVARIANTS OwnResponses
CHECK_DEADLOCK FALSE
