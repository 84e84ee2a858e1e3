SPECIFICATION Spec
CONSTANTS
  Threads = {t1, t2, t3}
  Mutexes = {1, 2}
  Recursive = {2}
  CondMutex = 2
  PriorityMax = 3
  MaxDepth = 1
  NoThread = NoThread
  NoMutex = NoMutex
SYMMETRY MCSymmetry
INVARIANTS TypeOK MutualExclusion NoLostWakeup NothingKept
CHECK_DEADLOCK FALSE
PROPERTIES ImplementsLocks
