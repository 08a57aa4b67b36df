CONSTANTS
  e1 = e1
  e2 = e2
  e3 = e3
  e4 = e4
  f1 = f1
  f2 = f2
  Event <- FourEvents
  LevelOf <- MCLevelOf
  MessageOf <- MCMessageOf
  Own <- MCOwn
  Flush <- MCFlush
  MaxTop = 1
  MaxTime = 2
SPECIFICATION FairSpec
CONSTRAINT Scope
INVARIANTS
  FiguresFit
  InItsWindow
PROPERTIES
  ImplementsWindows
  TasksEnd
