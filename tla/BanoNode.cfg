SPECIFICATION FairSpec
INVARIANTS
  NoneSleptThrough
PROPERTIES
  PinServed
  TimerPeriodic
