\* The text files the stream falls back to.
CONSTANTS
  FromTs = 6
  ToTs = 10
  MonthLength = 4
  BufferSize = 2
  Stores <- MCTextStores
  Kinds = {"timeframe"}
  Timeframe = 2
  BarSize = 1
  Depth = 2
  Histories <- MCNoHistory
  Timesteps = {1}
SPECIFICATION FairSpec
PROPERTY FillReturns
CHECK_DEADLOCK FALSE
