CONSTANTS
  Image = {1, 2}
  VersionOf <- Distinct
  FirstImage = 1
  MaxTasks = 2
  MaxFaults = 0
  MaxSaveFaults = 0
  StableRounds = 1
SPECIFICATION Spec
CHECK_DEADLOCK FALSE
INVARIANTS
  RecheckAfterRollback
