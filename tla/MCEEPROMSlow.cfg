\* FIFOs that are slower than the SPI transfers.
SPECIFICATION Spec
CONSTANTS
  Octets <- MCOctets
  Unset <- MCUnset
  ALEVENT = 0
  EECONTSTAT = 2
  EEDATA = 8
  PRAM = 24
  Top = 39
  MaxLen = 9
  Depth = 2
  UseInterrupt = FALSE
  KeepsUp = FALSE
  EEPROMSize = 12
  Addresses = {0, 3}
  Words <- MCWords
  Accesses <- MCAccesses
  MaxCommands = 1
INVARIANT TransferExact
