SPECIFICATION Spec
CONSTANTS
  N = 3
  SpuriousWakeups = FALSE
INVARIANT RightPartner
INVARIANT NeverThrows
INVARIANT NoStraySignal
INVARIANT BarrierHolds
INVARIANT NoMessageLost
INVARIANT NobodyStuck
CHECK_DEADLOCK FALSE
