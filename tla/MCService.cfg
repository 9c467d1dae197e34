SPECIFICATION ServiceSpec
CONSTANTS
  Parts = {"logins", "requests", "watchlist", "analysis"}
  Home = b1
  Browsers = {b1, b2}
  Users = {u}
  Allowed = {u}
  Flows = {f1, f2}
  Tokens = {t1, t2}
  Calls = {c1, c2}
  Keys = {k}
  LastTick = 2
  DayLength = 2
  StateTtl = 2
  SessionTtl = 1
  Limit = 1
  MaxRestarts = 1
  None = None
  Stocks = {s1, s2}
  Quoted = {s1, s2}
  Requests = {r1, r2}
  MaxItems = 1
  MaxErrors = 1
  NoRequest = NoRequest
  Stock = "stock"
  Benchmark = "index"
  ByHand = {"stock"}
  Window = 3
  MinMonths = 3
  MaxAttempts = 2
  MaxRuns = 2
  MaxChunks = 1
  MaxFailures = 1
INVARIANTS
  ServiceTypeOK SignInsAreTheirOwn QuotaKept
  WithinLimit ListedIsWanted LoneAnswersAreCurrent ShownIsLatest
PROPERTIES
  EndedStaysEnded ShortIsSynced RunsEnd
CHECK_DEADLOCK FALSE
