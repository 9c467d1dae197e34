SPECIFICATION FairSpec
CONSTANTS
  worker = worker request = request
  Syncers = {worker}
  Manual = {}
  Slices = 4
  SliceDays = 2
  LastDay <- MCLastDay
  Trading = {1, 2, 4, 5, 6, 8}
  ExDates = {2, 4, 6}
  Legacy = {1, 2, 4}
  FirstToday = 5
  Lookback = 2
  Adjusted = TRUE
  LongRuns = FALSE
  MaxFailures = 1
INVARIANTS
  TypeOK CoveredIsComplete FactorsSound ClosedAreFetchedOnce
PROPERTIES
  ClosedGetCovered
