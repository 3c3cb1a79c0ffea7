SPECIFICATION FairReader
CONSTANTS
  N = 3
  Kinds <- MCOrdered
  ListFrags = 3
  MaxReq = 3
  MaxRetry = 1
  MaxLoss = 0
  MaxRestart = 1
  Worker = FALSE
INVARIANTS DeliveredInOrder AnsweredOnce
PROPERTY Answered
