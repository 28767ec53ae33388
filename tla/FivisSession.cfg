SPECIFICATION Spec
CONSTANTS
  MaxBatch = 4
  MaxValues = 4
  FormatCanFail = TRUE
  NULL = NULL
INVARIANTS NothingLeaked LentIsAlive ResultTruthful OneRecordPerSample EndsAtNull
  PostedWhole ExitTruthful
CHECK_DEADLOCK FALSE
