SPECIFICATION FairSpec
CONSTANTS
  Settings <- MCSettings
  Capacity = 1
  MaxRetries = 1
  LastBlock = 2
  MaxHeaders = 3
  MaxFaults = 2
  MaxReorgs = 1
INVARIANTS
  TypeOK
  MissedByLagOnly
  FailuresAreAlerted
PROPERTIES
  ImplementsReports
  EveryHeaderIsHandled
  ReportsArrive
