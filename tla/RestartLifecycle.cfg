SPECIFICATION FairSpec
CONSTANTS
  MaxOps = 2
  MaxRuntimes = 2
  RestartTimeout = 1
  MaxFaults = 1
  PressureEnabled = TRUE
  OutsideScaling = TRUE
INVARIANTS
  TypeOK
  CommandOnceAfterDurableClaim
  NoLostOperation
  CompletedMeansServed
PROPERTIES
  KeepsPromise
  RestartResolves
