SPECIFICATION FairSpec
CONSTANTS
  e1 = e1
  e2 = e2
  Episodes = {e1, e2}
  Selections <- OneOrTwoSeeds
  Concurrency = 1
  MaxRetries = 1
  MaxRuns = 3
  MaxFaults = 1
INVARIANTS
  TypeOK
  RecordedIsStored
  OneDocument
  ProgressKept
PROPERTIES
  SuccessIsComplete
  RunEnds
CHECK_DEADLOCK FALSE
