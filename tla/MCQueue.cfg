SPECIFICATION Spec
CONSTANTS
  Threads = {t1, t2, t3}
  Mutexes = {1, 2}
  Recursive = {2}
  CondMutex = 2
  MaxDepth = 1
  NoThread = NoThread
  NoMutex = NoMutex
  Values = {a, b}
  NoValue = NoValue
  Capacity = 2
  GetMutex = 1
  PutMutex = 2
SYMMETRY MCSymmetry
INVARIANTS TypeOK Exclusion NoLostWakeup OnePerSide
PROPERTIES ImplementsFifo ImplementsLocks NoOvertaking
CHECK_DEADLOCK FALSE
