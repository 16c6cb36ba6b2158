SPECIFICATION Spec
CONSTANTS
  FirstBlock <- MCFirstBlock
  LastBlock <- MCLastBlock
  MaxConcurrent = 2
  Retries = 0
  Alerting = TRUE
PROPERTY
  PanicStartsNothing
