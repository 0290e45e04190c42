\* A strategy that trades both sides with market entries and reverses: the
\* opposite trades are closed by compute() before a new one is opened.
SPECIFICATION Spec
CONSTANTS
  TradeIds = {t1, t2, t3}
  OrderIds = {o1, o2, o3, o4, o5}
  NoId = NoId
  Directions <- BothSides
  EntryTypes = {"MARKET"}
  Quantities = {1}
  MaxPrice = 2
  Spread = 1
  Levels = {1, 2}
  MaxTrades = 2
  Reversal = TRUE
  StopMods = {"PREVIOUS"}
  ProfitMods = {"DISTANT"}
SYMMETRY TradeSymmetry
INVARIANTS OneSided NetPosition

