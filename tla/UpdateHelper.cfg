SPECIFICATION FairSpec
CHECK_DEADLOCK FALSE
CONSTANTS
  h1 = h1
  h2 = h2
  MaxVersion = 3
  Good <- MCGood
  Helper = {h1, h2}
  MaxFaults = 3
INVARIANTS
  TypeOK
  BackupIsPrevious
  VerdictMatchesDisk
  UpdaterNotAhead
PROPERTIES
  ServiceComesBack
  NewestIsInstalled
