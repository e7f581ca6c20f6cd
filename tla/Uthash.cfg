CONSTANTS
  Elem <- MCElem
  Keys = {1, 2, 3, 4, 5}
  key <- MCkey
  HASH_FCN <- MCHASH_FCN
  NULL = NULL
  Garbage <- MCGarbage
  HASH_INITIAL_NUM_BUCKETS = 1
  HASH_BKT_CAPACITY_THRESH = 1
  MaxAdds = 6
SPECIFICATION Spec
CHECK_DEADLOCK FALSE
INVARIANTS
  TypeOK
  Fsck
  FindsExactly
PROPERTIES
  ImplementsDictionary
  IterationEmpties
