SPECIFICATION FairConsumerSpec
CONSTANTS
  t1 = t1
  t2 = t2
  m1 = m1
  m2 = m2
  Members = {m1, m2}
  Topics = {t1, t2}
  Length = 2
  Sent <- TwoAndOne
  SendsFail = TRUE
  MaxCrashes = 1
  MaxEvictions = 1
  Nobody = Nobody
  NoMessage = NoMessage
CHECK_DEADLOCK FALSE
ACTION_CONSTRAINT FirstIsM1
INVARIANTS ConsumerTypeOK CommittedIsSettled HandledInOrder
PROPERTIES CommitsNeverGoBack SettledUnlessAllStop
