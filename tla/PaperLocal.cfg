\* Exits managed locally, both sides, market and limit entries, and a third
\* trade that a reversal may list past a max-trades of two.
SPECIFICATION Spec
CONSTANTS
  TradeIds = {t1, t2, t3}
  OrderIds = {o1, o2, o3, o4, o5, o6}
  NoId = NoId
  Directions <- BothSides
  EntryTypes = {"MARKET", "LIMIT"}
  Quantities = {1}
  MaxPrice = 2
  Spread = 1
  Levels = {2}
  MaxTrades = 2
  Reversal = TRUE
  StopMods = {"PREVIOUS"}
  ProfitMods = {"LOCAL"}
SYMMETRY TradeSymmetry
INVARIANTS EntriesRest ReversalCloses
