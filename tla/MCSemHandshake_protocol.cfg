SPECIFICATION Spec
CONSTANTS
  Programs <- MCPrograms
  Slots = {1, 2, 3, 4}
  CountMod = 4
  NumUnits = 3
  NumGenerations = 4
INVARIANTS
  TypeOK
  CreditsConserved
  InputsIntact
  DependencyNamesItsTenant
PROPERTIES
  EveryCreditComesHome
  ImplementsDataflow
CHECK_DEADLOCK FALSE
