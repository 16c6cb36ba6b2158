SPECIFICATION FairSpec
CONSTANTS
  FirstBlock <- MCFirstBlock
  LastBlock <- MCLastBlock
  MaxConcurrent = 2
  Retries = 1
  Alerting = TRUE
INVARIANTS
  TypeOK
  PermitConservation
  ExitIsExplained
PROPERTIES
  ImplementsPipeline
  FailureStopsDriver
  EveryBlockEnds
