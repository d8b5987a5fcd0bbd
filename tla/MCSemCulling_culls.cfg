SPECIFICATION Spec
CONSTANTS
  Programs <- MCPrograms
  NumTasks = 4
  MaxReads = 4
INVARIANTS
  TypeOK
  OrderPreserved
  NothingImpliedIsKept
  WorkIsCurrent
CHECK_DEADLOCK FALSE
