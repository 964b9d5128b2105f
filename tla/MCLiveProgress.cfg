\* The same on one link, with what makes the lock, the pool and the loop wait.
SPECIFICATION FairSpec
CONSTANTS
  Streams = {s1, s2}
  Links = {l1}
  Calls <- FewCalls
  Decisions <- FewDecisions
  Threads = 1
  MaxPresses = 2
  MaxFaults = 1
  None = None
PROPERTIES
  RunsEnd
  PaidReachesLedger
CHECK_DEADLOCK FALSE
