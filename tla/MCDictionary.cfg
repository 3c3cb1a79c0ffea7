SPECIFICATION GeneratorSpec
CONSTANTS
  Rows <- MCRows
  Blank <- MCBlank
  MaxRows = 4
  Orderly = TRUE
  Fixed <- MCFixed
INVARIANTS MappingFound ListSearchable BuffersHold
CONSTRAINT MCLong
CHECK_DEADLOCK FALSE
