SPECIFICATION ReadsSpec
CONSTANTS
  LastDay = 4
  FirstToday = 2
  Trading = {1, 2, 4}
  MonthOf <- OneMonth
  KeepsIndex = FALSE
  Lookback = 3
  Need = 2
  MaxDays = 2
  Every = 2
  LateEntries = FALSE
  MaxFailures = 1
  SteadyState = 1
  RankingWindow = 2
INVARIANTS
  ReadsTypeOK CoveredIsStored NoLookAhead
PROPERTIES
  SessionsGetScored CompleteIsStored RankingSaysWhatIsMissing
