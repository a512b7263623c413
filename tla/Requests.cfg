SPECIFICATION TimedSpec
CONSTANTS
  None = None
  Missing = Missing
  NaN = NaN
  V4Ids = {"p1", "p2"}
  OtherUuids = {"other version"}
  NoUuids = {"no uuid"}
  MaxInteger = 5000
  Configured = {"grpc"}
  MaxDelay = 400000
  MaxRequests = 2
  Instants = {0, 400, 1000, 6000, 30400, 300400}
  Offered <- AllCalls
INVARIANTS RequestsTypeOK AnswersMatchFate NobodyIsBlamed StoredIsReadable ShownAsOrdered
PROPERTIES  RequestsAreAnswered
CHECK_DEADLOCK FALSE
