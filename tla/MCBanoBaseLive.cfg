SPECIFICATION FairSpec
CONSTANTS
  n1 = n1
  n2 = n2
  k1 = k1
  k2 = k2
  Io = {i1, i2}
  LoopTimer = LoopTimer
  None = None
  Addr <- MCAddr
  Conf <- MCConf
  NewNodes = FALSE
  Key <- MCKey
  Val <- MCVal
  Nodl <- MCNodl
  RetryCount = 2
  AppRequests <- LiveAppRequests
  HttpRequests <- LiveHttpRequests
  Messages <- LiveMessages
  HasLoopTimer = FALSE
PROPERTIES
  IoRetired
  BrowserAnswered
