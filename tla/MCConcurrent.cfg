\* Three requests race one webhook worker on one case; the server may crash once.
SPECIFICATION Spec
CONSTANTS
  c1 = c1
  c2 = c2
  c3 = c3
  Requests = {r1, r2, r3}
  Workers = {w1}
  Cases = {c1}
  Preloaded <- OneCase
  Links = {l1, l2}
  FailEvents = {}
  RequestSpace <- MixedRequests
  MaxFaults = 1
  None = None
  New = New
SYMMETRY Symmetry
INVARIANTS
  TypeOK
  DurableIdempotency
  StopUndoneOnlyByOverlap
  ClosedIsOnLedger
  CountersNeverOvercount
  SecondLinkExplained
CHECK_DEADLOCK FALSE
