\* One strategy fed from two months of files, bars by time and by range.
CONSTANTS
  FromTs = 6
  ToTs = 10
  MonthLength = 4
  BufferSize = 2
  Stores <- MCStores
  Kinds = {"timeframe", "range"}
  Timeframe = 2
  BarSize = 1
  Depth = 2
  Histories <- MCHistories
  Timesteps = {1, 2}
SPECIFICATION FairSpec
INVARIANTS
  RingHoldsLatest
  PricesMatchRing
  FillIsExact
  TimeNeverGoesBack
PROPERTIES
  AtCloseOncePerBar
  BinaryFillReturns
\* The backtest ends when curTs passes ToTs.
CHECK_DEADLOCK FALSE
