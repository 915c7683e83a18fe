SPECIFICATION WorkerSpec
CONSTANTS
  s1 = s1
  r1 = r1
  r2 = r2
  Conns = {s1}
  Runners = {r1, r2}
  Requests <- MCRequests
  Validators = 1
INVARIANTS WorkerTypeOK AnswersWhole NoTaskLost BothStopped
PROPERTIES Served RunnersEnd Stops
CHECK_DEADLOCK FALSE
