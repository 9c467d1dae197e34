SPECIFICATION FairSpec
CONSTANTS
  Jobs = {b1}
  Workers = {w1}
  NoJob = NoJob
  MaxCrashes = 1
PROPERTIES
  EveryJobEnds
CHECK_DEADLOCK FALSE
