SPECIFICATION PoolSpec
CONSTANTS
  MaxIds = 3
  Quarantine = 5
  HalfInt = 2
  MaxTime = 6
INVARIANTS Inv
PROPERTIES Implements
CHECK_DEADLOCK FALSE
