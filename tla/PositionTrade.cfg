\* A long and a short trade, filled in up to two parts, at most one fault.
SPECIFICATION FairSpec
CONSTANTS
  Styles = {"cumulative", "filled"}
  Averages = {TRUE}
  Streams = {"one", "two"}
  Faults = {"repeated", "lost"}
  Directions <- BothDirections
  EntrySize = 2
  FillPrice = 4
  Prices = {2, 6}
  StopLevels = {3, 5}
  LimitLevels = {6}
  Mods = {"DISTANT"}
  MaxSignals = 2
  BreakevenDistance = 1
  BreakevenOffset = 1
  TrailDistance = 1
CHECK_DEADLOCK FALSE
INVARIANTS BooksBalance NotOverbooked PositionInStep
PROPERTIES StopTightens ClosedIsPurged
