SPECIFICATION Spec
CONSTANTS
  SampleCount = 17
  EmptyMin = 2
  SamplePeriod = 2
  DumpPeriod = 4
  RetrySecs = 3
  CheckSecs = 1
  MaxPerform = 3
  BackSteps = {3}
INVARIANTS SamplerServed CatchesUp
PROPERTY OutageTolerated
