SPECIFICATION FairSpec
CONSTANTS
  Requests <- MCRequests
  WatchdogCnt = 2
  BadSets <- MCLiveBadSets
  UseInterrupt = FALSE
INVARIANTS OpDrivesOutputs MailboxMatchesState
PROPERTIES ErrorLatched ImplementsContract BrokenSMStopsOp SilenceStopsOutputs
