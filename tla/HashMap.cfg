CONSTANTS
  b1 = b1
  Readers = {t1}
  Keys = {k1, k2, k3}
  Values = {v1, v2}
  Buckets = {b1}
  BucketOf <- MCBucketOf
  Nodes = {n1, n2, n3}
  Blocks = {x1, x2, x3}
  NULL = NULL
  NONE = NONE
SPECIFICATION Spec
SYMMETRY MCSymmetry
INVARIANTS TypeOK BucketShape StaleCause
PROPERTY ImplementsKeyTable
CHECK_DEADLOCK FALSE
