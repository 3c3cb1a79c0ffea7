SPECIFICATION FairSpec
CONSTANTS
  N = 3
  Block = 2
  Room = 5
  Sizes <- MCSizes
  FrameNumbers = 3
  FreeSupplied = TRUE
PROPERTY InboxServed
