SPECIFICATION Spec
CONSTANTS
  n1 = n1
  n2 = n2
  k1 = k1
  k2 = k2
  Io = {i1, i2, i3}
  LoopTimer = LoopTimer
  None = None
  Addr <- MCAddr
  Conf <- MCConf
  NewNodes = TRUE
  Key <- MCKey
  Val <- MCVal
  Nodl <- MCNodl
  RetryCount = 1
  AppRequests <- MCAppRequests
  HttpRequests <- MCHttpRequests
  Messages <- MCMessages
  HasLoopTimer = TRUE
SYMMETRY IoSymmetry
INVARIANTS
  TypeOK
  OwnedOnce
  TimerPerPendingIo
  ExpiresInOrder
  SendBudget
  OneAnswerOwed
PROPERTIES
  ImplementsRequestReply
  GivesUpLast
  PageShowsAnswer
