\* The comment of cacheFlush against a cache in which a scan has left a hole.
CONSTANTS
  CacheLen = 2
  Records = {a, b}
  Queries = {q1}
  MCKey1 = {a, q1}
  Key <- MCKey
  MinLife = 0
  MaxLife = 1
  Lifetimes <- MCLifetimes
  MaxClock = 2
  Scanner = Scanner
  Console = Console
  HEAD = HEAD
  NULL = NULL
  WILD = WILD
  NONE = NONE
SPECIFICATION Spec
INVARIANT FlushSucceeds
CHECK_DEADLOCK FALSE
