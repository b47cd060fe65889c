SPECIFICATION Spec
CONSTANTS
  kCheapPrepend = 1
  kInitialSize = 2
  ExtraSize = 2
  Chars = {0, 1}
  MaxReadable = 4
  PoolSizes = {108, 144}
  AllocSizes = {21, 150}
  Scanned = 2
  MaxLarge = 3
  MaxSmall = 4
  MaxCleanup = 1
  Loggers = {t1, t2}
  MaxMessages = 3
  MaxDay = 2
  Sides = {2, 3}
  Numbers = {0, 1, 9, 10, 11, 19, 99, 100, 101, 109, 110, 199, 999, 1000}
  K = 2
  MaxCount = 3
  MaxValues = 4
INVARIANTS
  BufferIsFifo
  AllocationsAreDisjoint
  LogInOrder
  ResultsAreRight
\* The programs and the pool end, the buffer and the logger reach their bounds.
CHECK_DEADLOCK FALSE
