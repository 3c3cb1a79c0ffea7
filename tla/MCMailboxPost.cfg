SPECIFICATION Spec
CONSTANTS
  N = 3
  Kinds <- MCSingle
  ListFrags = 3
  MaxReq = 3
  MaxRetry = 0
  MaxLoss = 1
  MaxRestart = 0
  Worker = FALSE
PROPERTY PostsToFree
