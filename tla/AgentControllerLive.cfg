CONSTANTS
  MaxIds = 2
  MaxFaults = 1
  MaxFileFaults = 0
SPECIFICATION FairSpec
PROPERTIES
  StopCompletes
  ApprovedIsEnrolled
