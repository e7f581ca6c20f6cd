CONSTANTS
  nprocs = 4
  max_degree = 3
  BENCHMARKING = TRUE
  max_timestamps = 2
  AliasNumbers = {1}
  MaxFileChanges = 0
  Metric <- MCMetric
SPECIFICATION FairSpec
CHECK_DEADLOCK FALSE
PROPERTIES
  RootFinishes
