SPECIFICATION FairSlave
CONSTANTS
  N = 3
  Kinds <- MCAllKinds
  ListFrags = 3
  MaxReq = 2
  MaxRetry = 1
  MaxLoss = 2
  MaxRestart = 1
  Worker = FALSE
INVARIANTS SlotsConsistent NoneOvertakes
PROPERTY ALServed
