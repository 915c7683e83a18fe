SPECIFICATION FairSpec
CONSTANTS
  w1 = w1
  w2 = w2
  Start = 1
  End = 4
  NumTxs <- MCNumTxs1to4
  Workers = {w1, w2}
  ChanCap = 5
  RespCap = 4
  OutCap = 2
  MayFail = {}
  MayCancel = TRUE
PROPERTIES ContextBoundsCall
CHECK_DEADLOCK FALSE
