\* A strategy that only goes long, with limit entries and exchange side
\* take-profits: two trades, quotes of four ticks, a spread of one.
SPECIFICATION Spec
CONSTANTS
  TradeIds = {t1, t2}
  OrderIds = {o1, o2, o3, o4}
  NoId = NoId
  Directions <- LongOnly
  EntryTypes = {"MARKET", "LIMIT"}
  Quantities = {2}
  MaxPrice = 3
  Spread = 1
  Levels = {1, 3}
  MaxTrades = 2
  Reversal = TRUE
  StopMods = {"PREVIOUS"}
  ProfitMods = {"DISTANT"}
SYMMETRY TradeSymmetry
INVARIANTS TypeOK OrdersOwned OrdersRest NetPosition ExitHonoured
PROPERTY DeletedFlat
