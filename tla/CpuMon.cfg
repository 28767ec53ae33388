SPECIFICATION FairSpec
CONSTANTS
  s1 = s1
  s2 = s2
  s3 = s3
  Samples = {s1, s2, s3}
  NULL = NULL
  EmptyMin = 1
  RetrySecs = 10
  CheckSecs = 5
  FormatCanFail = TRUE
INVARIANTS TypeOK PoolPartition NoLostWakeup
PROPERTIES ListsUnderMutex DropOnlyUnderPressure ImplementsPool WaiterServed SamplesRecycled MonitoringContinues
CHECK_DEADLOCK FALSE
