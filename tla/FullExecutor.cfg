SPECIFICATION Spec
CONSTANTS
  p1 = p1
  p2 = p2
  p3 = p3
  Proc <- MCProc
  Assignments <- MCAssignments
  Chunks = 3
  Nobody = Nobody
INVARIANTS
  TypeOK
  CacheIntegrity
  OpcodeAsAsked
  CacheIsOfTheChain
PROPERTIES
  UndamagedCacheLoads
