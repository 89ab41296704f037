\* The rule in the comment of mylist_rotate_node_head against a slot that is
\* emptied between the walk and the rotation.
CONSTANTS
  CacheLen = 2
  Records = {a, b}
  Queries = {q1}
  MCKey1 = {a, q1}
  Key <- MCKey
  MinLife = 0
  MaxLife = 1
  Lifetimes <- MCLifetimes
  MaxClock = 2
  Scanner = Scanner
  Console = Console
  HEAD = HEAD
  NULL = NULL
  WILD = WILD
  NONE = NONE
SPECIFICATION Spec
INVARIANT RotatesMember
CHECK_DEADLOCK FALSE
