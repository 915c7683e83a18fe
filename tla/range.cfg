SPECIFICATION FairSpec
CONSTANTS
  w1 = w1
  w2 = w2
  Start = 1
  End = 5
  NumTxs <- MCNumTxs
  Workers = {w1, w2}
  ChanCap = 3
  RespCap = 3
  OutCap = 2
  MayFail <- MCAllFail
  MayCancel = TRUE
INVARIANTS TypeOK IInv HandedBackChannelsIdle OutWhole PipelineNotStuck
PROPERTIES RefinesOrderedRange ReturnsIfRestFits GoroutinesExit
CHECK_DEADLOCK FALSE
