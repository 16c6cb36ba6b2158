SPECIFICATION Spec
CONSTANTS
  FirstBlock <- MCFirstBlock
  LastBlock <- MCLastBlock
  MaxConcurrent = 2
  Retries = 1
  Alerting = TRUE
INVARIANT
  RetriesAsDocumented
