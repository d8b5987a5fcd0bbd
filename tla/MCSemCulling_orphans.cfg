SPECIFICATION Spec
CONSTANTS
  Programs <- MCPrograms
  NumTasks = 4
  MaxReads = 3
INVARIANT AwaitedSemaphoresComplete
CHECK_DEADLOCK FALSE
