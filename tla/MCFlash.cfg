SPECIFICATION FairSpec
CONSTANTS
  Threads = {t1, t2}
  Sectors = {1, 3}
  Places = {0}
  Values = {v, w}
  Erased = Erased
  Mixed = Mixed
  None = None
INVARIANTS RegistersAtRest
PROPERTIES ImplementsCalls CallsReturn
