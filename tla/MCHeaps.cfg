SPECIFICATION LockSpec
CONSTANTS
  Threads = {t1, t2, t3, t4}
  Mutexes = {1, 2}
  Recursive = {}
  CondMutex = 2
  PriorityMax = 3
  MaxDepth = 1
  NoThread = NoThread
  NoMutex = NoMutex
SYMMETRY MCSymmetry
INVARIANTS HeapOrder
CHECK_DEADLOCK FALSE
