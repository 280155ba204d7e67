SPECIFICATION FairSpec
CONSTANTS
  Jobs <- BatchOnly
  Loop <- BatchOnlyLoop
  Retention = 1
  DiskFaults = TRUE
  MaxDay = 2
  MaxRuns = 2
INVARIANTS
  TypeOK
  PayloadsBacked
PROPERTIES
  StaleFilesGo
