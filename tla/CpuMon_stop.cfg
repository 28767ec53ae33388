SPECIFICATION FairSpec
CONSTANTS
  s1 = s1
  s2 = s2
  s3 = s3
  Samples = {s1, s2, s3}
  NULL = NULL
  EmptyMin = 1
  RetrySecs = 10
  CheckSecs = 5
  FormatCanFail = TRUE
PROPERTY ShutdownCompletes
CHECK_DEADLOCK FALSE
