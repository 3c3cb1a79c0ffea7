SPECIFICATION Spec
CONSTANTS
  Requests <- MCFewRequests
  WatchdogCnt = 2
  BadSets <- MCFewBadSets
  UseInterrupt = TRUE
INVARIANTS OutputsOnlyInOp WatchdogBound
PROPERTIES OnlyLegalMoves
