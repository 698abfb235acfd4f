CONSTANTS
  Image = {1, 2}
  VersionOf <- Distinct
  FirstImage = 1
  MaxTasks = 1
  MaxFaults = 1
  MaxSaveFaults = 0
  StableRounds = 1
SPECIFICATION Spec
CHECK_DEADLOCK FALSE
PROPERTIES
  InterruptedBeforeSwitchFails
