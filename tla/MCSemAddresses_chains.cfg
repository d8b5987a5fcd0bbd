SPECIFICATION Spec
CONSTANTS
  Programs <- MCPrograms
  NumSems = 4
  MaxChains = 3
  NumPairs = 2
  NumGenerations = 2
INVARIANTS
  TypeOK
  NoLiveOverlap
  ChainTargetsReserved
  TenantsChained
  TagsTellTenantsApart
PROPERTIES
  ImplementsTenancy
  FittingProgramsAreAssigned
CHECK_DEADLOCK FALSE
