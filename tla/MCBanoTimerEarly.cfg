SPECIFICATION Spec
CONSTANTS
  IoTimer = {t1, t2}
  LoopTimer = LoopTimer
  RetryMs = 3
  LoopMs = 2
  TicksPerMs = 1
INVARIANTS
  NeverEarly
