\* Three inserts, two queries with their rotate threads, scans and flushes of a
\* cache of two slots, in every interleaving the lock allows; the timing thread
\* scans for ever.
CONSTANTS
  CacheLen = 2
  Records = {a, b, c}
  Queries = {q1, q2}
  MCKey1 = {a, b, q1, q2}
  Key <- MCKey
  MinLife = 0
  MaxLife = 1
  Lifetimes <- MCLifetimes
  MaxClock = 1
  Scanner = Scanner
  Console = Console
  HEAD = HEAD
  NULL = NULL
  WILD = WILD
  NONE = NONE
SPECIFICATION LiveSpec
INVARIANTS TypeOK Ring StaysInBounds FaultCause QueryExact ScanComplete
PROPERTIES ImplementsLruList Purged
CHECK_DEADLOCK FALSE
