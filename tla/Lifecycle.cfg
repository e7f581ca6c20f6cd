CONSTANTS
  nprocs = 4
  max_degree = 2
  BENCHMARKING = TRUE
  max_timestamps = 2
  AliasNumbers = {1}
  MaxFileChanges = 0
  MaxCalls = 0
  Metric <- MCZero
SPECIFICATION FairBootstrapSpec
CHECK_DEADLOCK FALSE
INVARIANTS
  BootstrapTypeOK
  ArrivesWired
  LookupSucceeds
  QuietWhenFinished
  DestroyedIsUnused
PROPERTIES
  OnlyForksPreventEnd
