CONSTANTS
  nprocs = 3
  max_degree = 1
  BENCHMARKING = FALSE
  max_timestamps = 3
  AliasNumbers = {1, 2}
  MaxFileChanges = 2
  MaxCalls = 2
  Metric <- MCZero
SPECIFICATION FairMonitoringSpec
CHECK_DEADLOCK FALSE
INVARIANTS
  MonitoringTypeOK
  ResultsFit
  ReadsFit
  ReturnsUpdated
  QuietWhenFinished
  DestroyedIsUnused
PROPERTIES
  ReturnResultsReturns
  OnlyCallsBlock
