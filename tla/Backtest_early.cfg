SPECIFICATION BacktestSpec
CONSTANTS
  Demo = Demo
  Official = Official
  Sufficient = 3
  LastDay = 4
  MinBars = 1
  MinFlows = 2
  MaxDelay = 1
INVARIANTS
  PositionsIgnoreTheFuture
CHECK_DEADLOCK FALSE
