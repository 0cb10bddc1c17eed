SPECIFICATION Spec
CONSTANTS
  Threads = {t1, t2}
  Sizes = {0, 1, 2, 3, 4, 5}
  InitialSize = 1
  MaxSegmentSize = 4
  NumNotifications = 2
  MaxSegments = 2
  MaxBuffers = 3
INVARIANT Tiling
INVARIANT OwnedOnce
INVARIANT SegmentSuffices
SYMMETRY Symmetry
