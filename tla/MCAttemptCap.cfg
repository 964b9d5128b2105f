\* Four retries of one case, one after the other, cap three.
SPECIFICATION SerialSpec
CONSTANTS
  c1 = c1
  c2 = c2
  c3 = c3
  Requests = {r1, r2, r3, r4}
  Workers = {w1}
  Cases = {c1}
  Preloaded <- OneCase
  Links = {l1}
  FailEvents = {}
  RequestSpace <- RetryLadder
  MaxFaults = 0
  None = None
  New = New
SYMMETRY Symmetry
INVARIANT AttemptsWithinCap
CHECK_DEADLOCK FALSE
