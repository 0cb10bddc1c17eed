SPECIFICATION FairSpec
CONSTANTS
  N = 4
  RankModulus = 16
  MaxRounds = 2
INVARIANT NoNotificationLost
INVARIANT Synchronized
INVARIANT SafeToTearDown
INVARIANT IInv
PROPERTY ImplementsBarrier
PROPERTY CallsReturn
CHECK_DEADLOCK FALSE
