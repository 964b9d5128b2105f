\* One handler at a time, four requests and one webhook, one restart.
SPECIFICATION SerialSpec
CONSTANTS
  c1 = c1
  c2 = c2
  c3 = c3
  Requests = {r1, r2, r3}
  Workers = {w1}
  Cases = {c1, c2}
  Preloaded <- OneCase
  Links = {l1}
  FailEvents = {e1}
  RequestSpace <- SerialRequests
  MaxFaults = 1
  None = None
  New = New
SYMMETRY Symmetry
INVARIANTS
  CountersExact
PROPERTIES
  ImplementsContract
CHECK_DEADLOCK FALSE
