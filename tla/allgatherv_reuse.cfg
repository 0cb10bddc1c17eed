SPECIFICATION Spec
CONSTANTS
  N = 3
  Rounds = 2
INVARIANT ReuseCorrect
CHECK_DEADLOCK FALSE
