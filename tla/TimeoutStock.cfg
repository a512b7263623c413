SPECIFICATION FairSpec
CONSTANTS
  o1 = o1
  c1 = c1
  c2 = c2
  c3 = c3
  c4 = c4
  c5 = c5
  Orders = {o1}
  Calls = {c1, c2, c3, c4}
  NoRequest = NoRequest
  Offered <- CancelRequests
  MaxOverlap = 1
  MaxCrashes = 0
  Faults = {"timeout"}
CHECK_DEADLOCK FALSE
ACTION_CONSTRAINT ArrivalOrder
PROPERTY StockReleased
