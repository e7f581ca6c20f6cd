CONSTANTS
  nprocs = 3
  max_degree = 2
  BENCHMARKING = FALSE
  max_timestamps = 2
  AliasNumbers = {1}
  MaxFileChanges = 0
  Metric <- MCMetric
SPECIFICATION FairSpec
CHECK_DEADLOCK FALSE
PROPERTIES
  RootFinishes
