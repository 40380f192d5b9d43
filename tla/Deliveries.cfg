SPECIFICATION FairSpec
CONSTANTS
  Integrations <- Channels
  Discord <- Channels
  Targets = {"old", "new"}
  Kinds = {"health", "warning", "test"}
  MaxEvents = 1
  MaxAttempts = 2
  MaxSettled = 1
  MaxWait = 2
  MaxEdits = 1
  MaxFaults = 2
INVARIANTS
  TypeOK
  AcceptedOnce
PROPERTIES
  PauseNeverShortened
  KeepsPromise
  EveryDeliverySettles
