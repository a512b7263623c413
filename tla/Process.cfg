SPECIFICATION Spec
CONSTANTS
  None = None
  HttpLevel = "verbose"
  DebugLevel = "info"
  Topics = {t1}
  OfferedEnvironments <- SomeEnvironments
  OfferedLevels = {"warn", "verbose"}
  ArgumentLists <- SomeArguments
INVARIANTS ProcessTypeOK EachInItsFile Reconnects
CHECK_DEADLOCK FALSE
