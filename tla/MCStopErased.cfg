\* A request that started before an opt-out reopens the case after it.
SPECIFICATION Spec
CONSTANTS
  c1 = c1
  c2 = c2
  c3 = c3
  Requests = {r1, r2, r3}
  Workers = {w1}
  Cases = {c1}
  Preloaded <- OneCase
  Links = {l1}
  FailEvents = {}
  RequestSpace <- MixedRequests
  MaxFaults = 0
  None = None
  New = New
SYMMETRY Symmetry
INVARIANT NoExecutionBehindStop
CHECK_DEADLOCK FALSE
