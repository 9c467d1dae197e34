SPECIFICATION DataSpec
CONSTANTS
  Jobs = {b1, b2, b3}
  Workers = {w1, w2}
  NoJob = NoJob
  MaxCrashes = 2
  Demo = Demo
  Official = TWSE
  Sufficient = 2
  LastDay = 4
  MinBars = 1
  MinFlows = 2
  MaxDelay = 0
  Times = {1, 2}
  Exchange = TWSE
  OtherOne = TPEX
  Revisions = {1, 2}
  Parts = {1, 2}
  Values = {0, 1}
  NoFigure = NoFigure
  MaxRows = 3
  Headlines = 1
  LastDate = 3
  Sessions = {1, 3}
  Ranges = {g1, g2}
  Concurrency = 1
  MaxEntries = 2
  MaxRatios = 1
  MaxRefused = 1
INVARIANTS
  TypeOK ClaimedOnce DataTypeOK PositionsIgnoreTheFuture SameAnswers FlowsAreFinal
PROPERTIES
  QueuedAreTaken TasksEnd
CHECK_DEADLOCK FALSE
