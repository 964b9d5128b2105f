\* A run waits at a yield with the write lock, and a paid event arrives.
SPECIFICATION FairSpec
CONSTANTS
  Streams = {s1}
  Links = {l1}
  Calls <- FewCalls
  Decisions <- FewDecisions
  Threads = 1
  MaxPresses = 1
  MaxFaults = 0
  None = None
PROPERTY NeverLocked
CHECK_DEADLOCK FALSE
