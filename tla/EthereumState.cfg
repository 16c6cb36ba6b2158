SPECIFICATION Spec
CONSTANTS
  ShortLeafs <- MCShortLeafs
  Addr <- MCKeys
  Slot <- MCKeys
  Transitions <- MCTransitions
INVARIANTS
  TypeOK
  RootIsRight
  TouchedIsResolved
  LookupIsSound
