SPECIFICATION FairSpec
CONSTANTS
  r1 = r1
  r2 = r2
  None = None
  Requests <- MCRequests
  Files <- MCFiles
  Validated <- MCValidated
  Hashed <- MCHashed
INVARIANTS Inv SeenIsSettled DestinationIsWhole
PROPERTIES WaitReturns
CHECK_DEADLOCK FALSE
