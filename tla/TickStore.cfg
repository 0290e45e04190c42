SPECIFICATION FairSpec
CONSTANTS
  MaxTicks = 3
  PerMonth = 2
  MaxRows = 2
  Faults = {"open", "write", "close", "insert"}
  MaxFaults = 1
INVARIANTS
  TicksOnce
  NothingLost
  SavedAtClose
  LatestRow
PROPERTY
  CloseReturns
CHECK_DEADLOCK FALSE
