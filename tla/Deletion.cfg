SPECIFICATION FairSpec
CONSTANTS
  Window = 2
  MaxUids = 2
  MaxTime = 5
  MaxRequests = 2
  MaxOutside = 1
  MaxFaults = 1
INVARIANTS
  TypeOK
  OnlyRecordedRemoved
  CompletedIsClean
  Resumable
PROPERTIES
  StopsAtDeadline
  DeletionEnds
