SPECIFICATION Spec
CONSTANTS
  TW = TW stock = stock index = index
  r1 = r1 r2 = r2 w1 = w1 w2 = w2
  j1 = j1 j2 = j2 j3 = j3 j4 = j4
  Markets = {TW}
  Symbols = {stock}
  Indexes = {}
  Requesters = {r1}
  Workers = {w1}
  JobIds = {j1, j2, j3}
  NoJob = NoJob
  NoKey = NoKey
  Rank <- MCRank
  MaxAttempts = 2
  MaxFaults = 1
  Stamps = {"15:30"}
  Days = 1
  Weekdays = {1}
SYMMETRY JobSymmetry
INVARIANTS
  EnqueueIsHarmless
