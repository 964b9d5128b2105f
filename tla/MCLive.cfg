\* Two runs of the demo, the button, a paid link and a restart, on one thread.
SPECIFICATION Spec
CONSTANTS
  Streams = {s1, s2}
  Links = {l1, l2}
  Calls <- AllCalls
  Decisions <- AllDecisions
  Threads = 1
  MaxPresses = 1
  MaxFaults = 1
  None = None
SYMMETRY Symmetry
INVARIANTS
  TypeOK
  TrailIsWhole
  LinksOnTrail
CHECK_DEADLOCK FALSE
