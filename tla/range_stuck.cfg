SPECIFICATION FairSpec
CONSTANTS
  w1 = w1
  w2 = w2
  Start = 1
  End = 6
  NumTxs <- MCNumTxs1to6
  Workers = {w1, w2}
  ChanCap = 2
  RespCap = 2
  OutCap = 2
  MayFail <- MCFail2
  MayCancel = FALSE
PROPERTIES Returns
CHECK_DEADLOCK FALSE
