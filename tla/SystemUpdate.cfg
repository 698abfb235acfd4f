CONSTANTS
  Image = {1, 2, 3}
  VersionOf <- Distinct
  FirstImage = 1
  MaxTasks = 2
  MaxFaults = 3
  MaxSaveFaults = 1
  StableRounds = 2
SPECIFICATION Spec
CHECK_DEADLOCK FALSE
INVARIANTS
  TypeOK
  FailedLeavesOriginal
  SucceededIsCurrent
  RollbackPossible
  OneTaskAtATime
PROPERTY ImplementsUpgrade
