SPECIFICATION DataSpec
CONSTANTS
  s1 = s1
  s2 = s2
  s3 = s3
  Samples = {s1, s2, s3}
  NULL = NULL
  EmptyMin = 1
  RetrySecs = 5
  CheckSecs = 5
  FormatCanFail = TRUE
  MaxTs = 5
  CpuCount = 2
  TimeCount = 2
  Modulus = 32
  Counters <- MCCounters
SYMMETRY DataSymmetry
INVARIANTS InFlightContiguous StampMatchesReading UsageReported RequestMatchesBatch SchemaFirst CleanShutdown
PROPERTY ImplementsDelivery
CHECK_DEADLOCK FALSE
