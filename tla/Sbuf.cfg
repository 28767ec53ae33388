SPECIFICATION Spec
CONSTANTS
  Block = 4
  MaxLength = 9
  MaxNext = 12
  AllocFails = TRUE
INVARIANTS WithinBuffer Terminated
PROPERTY GrowsEnough
