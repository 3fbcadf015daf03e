SPECIFICATION Spec
CONSTANTS
  w1 = w1
  w2 = w2
  Empty = Empty
  Garbled = Garbled
  Worlds <- MCWorlds
  TickSpeed = 2
  InitEvery = 1
  KeepTicks = 2
  MaxCrcErrors = 1
  WholeCuts = {2}
  DeltaCuts = {1, 2}
  OldAcks <- MCOldAcks
  MaxTick = 4
  MaxFlight = 3
  MaxInputs = 2
SYMMETRY Symmetry
INVARIANTS Inv SameSnapshot NoCrcError
PROPERTIES Implements
CHECK_DEADLOCK FALSE
