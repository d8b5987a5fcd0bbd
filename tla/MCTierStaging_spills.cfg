SPECIFICATION Spec
CONSTANTS
  Programs <- MCPrograms
  NumBufs = 3
  NumExecs = 3
  NumPairs = 2
  MaxMemrefs = 12
INVARIANTS
  TypeOK
  ReuseRespectsGuard
  ReadsIntact
  UsesCovered
  ComputesInTierZero
  NoNeedlessSpills
  SpillingMakesRoom
PROPERTY Terminates
CHECK_DEADLOCK FALSE
