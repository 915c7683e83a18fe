SPECIFICATION FairSpec
CONSTANTS
  Start = 1
  End = 3
  NumTxs <- MCNumTxs
  OutCap = 2
  Requests <- MCAll
  MayCancel = TRUE
INVARIANTS TypeOK OrdersConsecutive EndMeansComplete TaskNotStuck
PROPERTIES TaskAnswered TaskEnds
CHECK_DEADLOCK FALSE
