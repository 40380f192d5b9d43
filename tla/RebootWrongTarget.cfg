SPECIFICATION Spec
CONSTANTS
  NServers = 2
  NSchedules = 1
  Timings <- OnlyCivil
  Leads = {0}
  LateWindow = 1
  MaxHistory = 1
  MaxActive = 1
  MaxTime = 4
  MaxEdits = 2
  MaxFaults = 0
  Lifecycle = FALSE
  RetargetInScan = TRUE
PROPERTIES
  RestartsItsTarget
