SPECIFICATION Spec
CONSTANTS
  Requests <- MCRequests
  WatchdogCnt = 2
  BadSets <- MCBadSets
  UseInterrupt = FALSE
INVARIANT NoInputsBelowSafeop
