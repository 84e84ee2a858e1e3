SPECIFICATION Spec
CONSTANTS
  Names = {f1, f2}
  Sizes = {0, 1, 2}
  SectorCells = 4
  Sectors = 2
  NoName = NoName
  Unnamed = Unnamed
  Text = Text
  Absent = Absent
INVARIANTS TypeOK NothingLost
PROPERTIES ImplementsDirectory CreateReturns
CHECK_DEADLOCK FALSE
