SPECIFICATION FairSpec
INVARIANTS
  FrameAlive
  NoLostWakeup
  ImageUntouched
PROPERTIES
  ImplementsRequestReply
  Answered
  CloseEnds
CHECK_DEADLOCK FALSE
