CONSTANTS
  Image = {1, 2, 3}
  VersionOf <- Republished
  FirstImage = 1
  MaxTasks = 2
  MaxFaults = 1
  MaxSaveFaults = 0
  StableRounds = 2
SPECIFICATION FairSpec
CHECK_DEADLOCK FALSE
PROPERTY TaskEnds
