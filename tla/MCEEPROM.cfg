SPECIFICATION FairSpec
CONSTANTS
  Octets <- MCOctets
  Unset <- MCUnset
  ALEVENT = 0
  EECONTSTAT = 2
  EEDATA = 8
  PRAM = 24
  Top = 39
  MaxLen = 9
  Depth = 2
  UseInterrupt = FALSE
  KeepsUp = TRUE
  EEPROMSize = 12
  Addresses = {0, 3}
  Words <- MCWords
  Accesses <- MCAccesses
  MaxCommands = 2
INVARIANTS CommandsLegal TransferExact ReadAnswered WritesStored
PROPERTY CommandAnswered
