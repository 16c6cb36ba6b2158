SPECIFICATION Spec
CONSTANTS
  ShortLeafs <- MCShortLeafs
  Addr <- MCKeys
  Slot <- MCKeys
  Transitions <- MCPayments
INVARIANT
  WitnessIsEnough
