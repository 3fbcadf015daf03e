SPECIFICATION FairSpec
CONSTANTS
  aw = aw
  ab = ab
  r1 = r1
  q1 = q1
  q2 = q2
  Queries <- MCQueries
  Kind <- MCKind
  Size = 3
  MaxPending = 2
  Null = Null
INVARIANTS Inv
PROPERTIES StoredStays Implements EveryQueryAnswered ShutdownReturns
CHECK_DEADLOCK FALSE
