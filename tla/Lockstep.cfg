CONSTANTS
  nprocs = 4
  max_degree = 2
  BENCHMARKING = FALSE
  max_timestamps = 2
  AliasNumbers = {1}
  MaxFileChanges = 1
  Metric <- MCMetric
SPECIFICATION FairLockstepSpec
CHECK_DEADLOCK FALSE
INVARIANTS
  LockstepTypeOK
  NoneBeyondQuit
  WithinOnePulse
PROPERTIES
  FirstLeafStops
  AgreedQuitFinishesRoot
