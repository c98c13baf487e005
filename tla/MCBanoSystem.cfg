SPECIFICATION SysSpec
CONSTANTS
  n1 = n1
  k1 = k1
  Io = {i1}
  LoopTimer = LoopTimer
  None = None
  Addr = {n1}
  Conf = {n1}
  NewNodes = FALSE
  Key = {k1}
  Val = {0, 1}
  Nodl <- MCNodl
  RetryCount = 1
  AppRequests <- MCAppRequests
  HttpRequests <- MCHttpRequests
  Messages = {}
  HasLoopTimer = TRUE
  Late = FALSE
  MaxAir = 3
INVARIANTS
  RepliesOwned
PROPERTIES
  AnswerCurrent
