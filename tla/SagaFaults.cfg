SPECIFICATION TimerSagaSpec
CONSTANTS
  o1 = o1
  r1 = r1
  r2 = r2
  r3 = r3
  r4 = r4
  k1 = k1
  k2 = k2
  k3 = k3
  Orders = {o1}
  Calls = {r1, r2, r3, k1, k2}
  Deliveries = {k1, k2}
  NoRequest = NoRequest
  Offered <- ClientRequests
  MaxOverlap = 3
  MaxCrashes = 1
  Faults = {"db", "timeout", "send"}
  Redelivers = TRUE
CHECK_DEADLOCK FALSE
ACTION_CONSTRAINT ArrivalOrder
INVARIANTS TypeOK FulfilledWasReserved FulfilledWasGranted CompensationBacked AnnouncedWasSaved AnswersAreHonest
PROPERTIES SettledIsFinal RpcCallsAreAnswered
