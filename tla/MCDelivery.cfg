\* Two webhook workers, redelivery, lost answers, restarts.
SPECIFICATION FairSpec
CONSTANTS
  c1 = c1
  c2 = c2
  c3 = c3
  Requests = {r1}
  Workers = {w1, w2}
  Cases = {c1, c2, c3}
  Preloaded <- OneCase
  Links = {l1}
  FailEvents = {e1}
  RequestSpace <- DeliveryRequests
  MaxFaults = 2
  None = None
  New = New
INVARIANTS
  ProcessedMatchesLedger
  LinksAccountedFor
PROPERTIES
  ImplementsInbox
  PaidIsRecorded
CHECK_DEADLOCK FALSE
