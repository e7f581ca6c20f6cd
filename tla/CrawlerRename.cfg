CONSTANTS
  rank = rank
  uptime = uptime
  PAPI_BR_CN = PAPI_BR_CN
  misspelt = misspelt
  Name <- MCName
  callbacks = {rank, uptime}
  PAPI = {PAPI_BR_CN}
  Files <- MCRenames
  Unnumbered = {}
  Empty = Empty
  Missing = Missing
  NULL = NULL
  Garbage = Garbage
  MaxEdits = 1
  MaxPulses = 3
SPECIFICATION Spec
CHECK_DEADLOCK FALSE
INVARIANTS
  EditsMergeExactly
