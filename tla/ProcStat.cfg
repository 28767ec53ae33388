SPECIFICATION Spec
CONSTANTS
  Cpus = 4
  Times = 2
  Summary = Summary
  Nobody = Nobody
INVARIANTS FreshValues TimesAligned CpusAligned
