SPECIFICATION Spec
CONSTANTS
  IoTimer = {t1, t2, t3}
  LoopTimer = LoopTimer
  RetryMs = 5
  LoopMs = 3
  TicksPerMs = 2
INVARIANTS
  NeverLate
PROPERTIES
  ImplementsQueue
