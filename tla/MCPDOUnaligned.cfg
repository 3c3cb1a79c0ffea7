SPECIFICATION FairSpec
CONSTANTS
  bit = bit
  byte = byte
  string = string
  rx = rx
  tx = tx
  ty = ty
  ghost = ghost
  Pad = Pad
  Missing = Missing
  PDOs <- MCPDOs
  Ghosts = {ghost}
  Objects <- MCObjects
  BitLength <- MCBitLength
  Entries <- MCUnaligned
  Defaults <- MCDefaults
  Editable <- MCEditable
  EditStates <- MCAnyState
  Counts <- MCCounts
  MaxMappings <- MCMax
  ByteRange = 4
  OffsetRange = 65536
  WordBits = 64
  Room = 128
  UseInterrupt = TRUE
  MaxEdits = 4
INVARIANT DataWhereMapped
