CONSTANTS
  nprocs = 5
  max_degree = 3
  BENCHMARKING = FALSE
  max_timestamps = 2
  AliasNumbers = {1, 2}
  MaxFileChanges = 1
  Metric <- MCMetric
SPECIFICATION Spec
CHECK_DEADLOCK FALSE
INVARIANTS
  DegreeIsOwn
  NothingSkipped
  ResultsExact
