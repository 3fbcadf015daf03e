SPECIFICATION FairSpec
CONSTANTS
  l1 = l1
  l2 = l2
  Nobody = Nobody
  Loggers <- MCLoggers
  Sizes <- MCSizes
  BufSize = 4
  LocalSize = 2
  MaxWrite = 3
  MaxBytes = 6
INVARIANTS NothingIsLost WaitedIsWritten FreedLast
PROPERTIES NothingWaits
CHECK_DEADLOCK FALSE
