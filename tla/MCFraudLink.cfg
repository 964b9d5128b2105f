\* The link button on a case diagnosed as fraud.
SPECIFICATION SerialSpec
CONSTANTS
  c1 = c1
  c2 = c2
  c3 = c3
  Requests = {r1}
  Workers = {w1}
  Cases = {c1}
  Preloaded <- FraudCase
  Links = {l1}
  FailEvents = {}
  RequestSpace <- LinkButton
  MaxFaults = 0
  None = None
  New = New
SYMMETRY Symmetry
INVARIANT ProhibitedNotContacted
CHECK_DEADLOCK FALSE
