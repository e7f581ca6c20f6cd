CONSTANTS
  nprocs = 2
  max_degree = 1
  BENCHMARKING = FALSE
  max_timestamps = 2
  AliasNumbers = {1}
  MaxFileChanges = 0
  MaxCalls = 0
  Metric <- MCZero
SPECIFICATION MonitoringSpec
CHECK_DEADLOCK FALSE
INVARIANTS
  FinalizeWaits
