SPECIFICATION FairSlave
CONSTANTS
  N = 3
  Kinds <- MCSingle
  ListFrags = 3
  MaxReq = 3
  MaxRetry = 0
  MaxLoss = 1
  MaxRestart = 1
  Worker = TRUE
PROPERTY ALServed
