SPECIFICATION FairSpec
CONSTANTS
  a = a
  b = b
  d = d
  w1 = w1
  w2 = w2
  Calls = {a, b}
  Workers = {w1, w2}
  Size <- MCSize1
  ChanCap = 2
  PoolCap = 2
PROPERTIES CleanCallReturns
CHECK_DEADLOCK FALSE
