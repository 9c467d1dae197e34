SPECIFICATION Spec
CONSTANTS
  worker = worker request = request
  Syncers = {worker, request}
  Manual = {request}
  Slices = 3
  SliceDays = 2
  LastDay <- MCLastDay
  Trading = {1, 2, 4, 5}
  ExDates = {2, 4}
  Legacy = {1}
  FirstToday = 2
  Lookback = 3
  Adjusted = TRUE
  LongRuns = FALSE
  MaxFailures = 0
INVARIANTS
  FactorsSound
