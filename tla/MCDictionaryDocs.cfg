SPECIFICATION GeneratorSpec
CONSTANTS
  Rows <- MCRows
  Blank <- MCBlank
  MaxRows = 4
  Orderly = TRUE
  Fixed <- MCFixed
INVARIANTS DescriptionAgrees ModuleDataMapped
CHECK_DEADLOCK FALSE
