\* One trade of either class, every fault once, up to three orders.
SPECIFICATION Spec
CONSTANTS
  OrderIds = {o1, o2, o3}
  NoId = NoId
  Kinds = {"IND_MARGIN", "MARGIN"}
  Styles = {"cumulative", "relative"}
  Faults = {"lost", "repeated", "reordered"}
  EntrySize = 2
  Levels = {1}
  Mods = {"PREVIOUS", "DISTANT"}
  MaxSignals = 2
  MaxFaults = 1
CHECK_DEADLOCK FALSE
INVARIANTS EntryBacked MarginExitBacked IndMarginExitBacked
  EntryInStep ExitInStep OneClosingOrder ClosingEnds
