SPECIFICATION Spec
CONSTANTS
  Block = 32
  PartSize = 96
  Sizes <- MCSizes
  Stamped <- MCStamped
  StampSize = 4
  FrameNumbers = 16
  Pool = TRUE
  Params <- MCParams
  Mac = "mac"
  Values = {"a", "b"}
  Stale = "stale"
  Ports = {0, 1, 2}
  StoreResults = {"SUCCESS", "UNSPECIFIED_ERROR"}
  Loads = TRUE
  Buffers = 2
INVARIANTS HandedWhole NoWholeFrameLost ReadBack SuccessMeansSet
