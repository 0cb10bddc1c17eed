SPECIFICATION Spec
CONSTANTS
  Threads = {t1, t2}
  Collectives = {c1, c2}
  MaxHandles = 4
  None = None
INVARIANT NeverThrows
CHECK_DEADLOCK FALSE
