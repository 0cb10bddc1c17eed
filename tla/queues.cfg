SPECIFICATION Spec
CONSTANTS
  Threads = {t1, t2}
  NumQueues = 2
  Capacity = 2
  MaxRequests = 4
  NoThread = NoThread
PROPERTY FlushComplete
PROPERTY CallsReturn
CHECK_DEADLOCK FALSE
