SPECIFICATION Spec
CONSTANTS
  Small = 3
  Medium = 4
  Large = 5
  Rounds = 2
  root = 1
INVARIANT AllgathervCorrect
INVARIANT AllreduceCorrect
INVARIANT BroadcastCorrect
INVARIANT NoNotificationLost
INVARIANT SourcesReleased
INVARIANT NothingLeftOver
INVARIANT CountExact
PROPERTY Termination
CHECK_DEADLOCK FALSE
