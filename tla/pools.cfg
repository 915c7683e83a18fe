SPECIFICATION FairSpec
CONSTANTS
  a = a
  b = b
  d = d
  w1 = w1
  w2 = w2
  Calls = {a, b}
  Workers = {w1, w2}
  Size <- MCSize21
  ChanCap = 2
  PoolCap = 1
INVARIANTS TypeOK DeliversOwnRange PooledChannelsIdle CallsNotStuck
PROPERTIES AllReturn
CHECK_DEADLOCK FALSE
