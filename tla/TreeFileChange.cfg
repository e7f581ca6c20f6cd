CONSTANTS
  nprocs = 3
  max_degree = 2
  BENCHMARKING = FALSE
  max_timestamps = 3
  AliasNumbers = {1, 2}
  MaxFileChanges = 1
  Metric <- MCMetric
SPECIFICATION Spec
CHECK_DEADLOCK FALSE
INVARIANTS
  ResultsFit
