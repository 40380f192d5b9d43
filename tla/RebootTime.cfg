SPECIFICATION Spec
CONSTANTS
  Day = 6
  Reach = 18
  DailyDays = 6
  CronSlots = 48
  CronSearch = 30
  Zones <- AllZones
  Definitions <- TheDefinitions
  Starts <- TheStarts
  MaxRuns = 3
CHECK_DEADLOCK FALSE
INVARIANTS
  PreviewIsExact
