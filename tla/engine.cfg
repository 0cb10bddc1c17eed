SPECIFICATION RSpec
CONSTANTS
  Threads = {t1, t2}
  Collectives = {c1, c2}
  MaxHandles = 4
  None = None
INVARIANT TypeOK
INVARIANT NoLostWakeup
INVARIANT SnapshotCurrent
INVARIANT OutlivesUsers
INVARIANT FirstUseSafe
PROPERTY RegisteredPolled
PROPERTY DestructorReturns
CHECK_DEADLOCK FALSE
