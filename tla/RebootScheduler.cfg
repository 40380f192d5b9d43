SPECIFICATION Spec
CONSTANTS
  NServers = 2
  NSchedules = 2
  Timings <- OnlyCivil
  Leads = {0}
  LateWindow = 1
  MaxHistory = 1
  MaxActive = 2
  MaxTime = 4
  MaxEdits = 3
  MaxFaults = 1
  Lifecycle = TRUE
  RetargetInScan = FALSE
INVARIANTS
  TypeOK
  OpenIsPending
PROPERTIES
  RecordedOnce
  NoCatchUp
  KeepsPromise
