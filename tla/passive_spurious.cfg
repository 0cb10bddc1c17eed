SPECIFICATION Spec
CONSTANTS
  N = 3
  SpuriousWakeups = TRUE
INVARIANT BarrierHolds
CHECK_DEADLOCK FALSE
