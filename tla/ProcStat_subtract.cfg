SPECIFICATION Spec
CONSTANTS
  Cpus = 3
  Times = 2
  Summary = Summary
  Nobody = Nobody
INVARIANT SameCpuSubtracted
