SPECIFICATION FairSagaSpec
CONSTANTS
  o1 = o1
  r1 = r1
  r2 = r2
  r3 = r3
  r4 = r4
  k1 = k1
  k2 = k2
  k3 = k3
  Orders = {o1}
  Calls = {r1, r2, r3, r4, k1, k2, k3}
  Deliveries = {k1, k2, k3}
  NoRequest = NoRequest
  Offered <- ClientRequests
  MaxOverlap = 1
  MaxCrashes = 0
  Faults = {}
  Redelivers = FALSE
CHECK_DEADLOCK FALSE
ACTION_CONSTRAINT ArrivalOrder
PROPERTIES RequestsAreDecided StockReleased CommitsAreAnnounced CallsAreAnswered
