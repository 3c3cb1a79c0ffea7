\* Accesses of an interrupt handler between those of the main loop.
SPECIFICATION Spec
CONSTANTS
  Octets <- MCOctets
  Unset <- MCUnset
  ALEVENT = 0
  EECONTSTAT = 2
  EEDATA = 8
  PRAM = 24
  Top = 39
  MaxLen = 9
  Depth = 2
  UseInterrupt = TRUE
  KeepsUp = TRUE
  EEPROMSize = 12
  Addresses = {0, 3}
  Words <- MCWords
  Accesses <- MCOne
  MaxCommands = 1
INVARIANT TransferExact
