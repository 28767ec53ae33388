SPECIFICATION FairSpec
CONSTANTS
  Block = 4
  MaxLength = 5
  MaxNext = 4
  AllocFails = TRUE
PROPERTY FormatReturns
