SPECIFICATION FairSpec
CONSTANTS
  NServers = 1
  NSchedules = 1
  Timings <- BothTimings
  Leads = {0, 1}
  LateWindow = 1
  MaxHistory = 2
  MaxActive = 2
  MaxTime = 5
  MaxEdits = 2
  MaxFaults = 1
  Lifecycle = TRUE
  RetargetInScan = TRUE
INVARIANTS
  ScheduleShowsAudit
PROPERTIES
  NoStaleWarning
  DueIsHandled
