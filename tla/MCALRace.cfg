SPECIFICATION Spec
CONSTANTS
  Requests <- MCFewRequests
  WatchdogCnt = 2
  BadSets <- MCFewBadSets
  UseInterrupt = TRUE
PROPERTY ErrorLatched
