CONSTANTS
  MaxIds = 2
  MaxFaults = 2
  MaxFileFaults = 1
SPECIFICATION Spec
INVARIANTS
  TypeOK
  VerdictIsReal
  LaunchUnderConfig
  SavedIsActive
PROPERTIES
  QuietAfterLaunch
  NewestIdentity
