SPECIFICATION Spec
CONSTANTS
  Block <- MCBlock
  Addr <- MCAddr
  Value <- MCValue
  Number <- MCNumber
  Parent <- MCParent
  StateOf <- MCStateOf
  Receipts <- MCReceipts
  Reads <- MCReads
  HashReads <- MCHashReads
  Run <- MCRun
  N <- MCN
  Chains <- MCPanicChains
  Zero = 0
  MaxRetries = 1
  MaxReorgs = 2
  MaxFaults = 1
  NoBlock = NoBlock
INVARIANTS
  ExecutionIsRetried
