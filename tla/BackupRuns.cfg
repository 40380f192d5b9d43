SPECIFICATION FairSpec
CONSTANTS
  s1 = s1
  remote = remote
  Local = Local
  Nothing = Nothing
  Schedules = {s1}
  Backends = {Local, remote}
  ByHand <- MCByHand
  Retentions <- MCRetentions
  MaxRuns = 2
  MaxTime = 2
  MaxEdits = 1
  MaxFaults = 2
INVARIANTS
  TypeOK
  SucceededIsKept
  OccurrenceOnce
  RunningIsHeld
  InterruptedHasNothing
PROPERTIES
  DueAdvances
CHECK_DEADLOCK FALSE
