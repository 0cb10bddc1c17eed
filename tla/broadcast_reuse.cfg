SPECIFICATION Spec
CONSTANTS
  N = 3
  Rounds = 2
  root = 1
PROPERTY Termination
CHECK_DEADLOCK FALSE
