CONSTANTS
  nprocs = 6
  max_degree = 2
  BENCHMARKING = FALSE
  max_timestamps = 3
  AliasNumbers = {1}
  MaxFileChanges = 0
  Metric <- MCMetric
SPECIFICATION Spec
CHECK_DEADLOCK FALSE
INVARIANTS
  TypeOK
  LookupSucceeds
  DegreeIsOwn
  NothingSkipped
  StonesInStep
PROPERTIES
  ImplementsReduction
  PulsesInOrder
