SPECIFICATION LoginFairSpec
CONSTANTS
  Maps <- MCMaps
  FirstMap = 1
  OnDisk <- MCOnDisk
  NumChunks = 4
  MapWindow = 2
  MaxReloads = 3
  MaxRejoins = 1
INVARIANTS LoginInv MapAgrees
PROPERTIES DownloadEnds ComesOnline
CHECK_DEADLOCK FALSE
