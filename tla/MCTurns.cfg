SPECIFICATION OwnerSpec
CONSTANTS
  main = main
  b2 = b2
  b3 = b3
  Blocks = {main, b2, b3}
  Main = main
  Idle = Idle
  NoThread = NoThread
  Result = Result
  PriorityMax = 2
  MainPriority = 0
  MaxSleep = 1
  MaxPause = 1
INVARIANTS JoinersAreWoken
PROPERTIES EveryTurnComes
