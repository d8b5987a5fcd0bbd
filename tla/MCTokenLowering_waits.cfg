SPECIFICATION Spec
CONSTANT Programs <- MCPrograms
INVARIANT TypeOK
INVARIANT DataArrives
INVARIANT CreditsPairUp
INVARIANT WaitsFollowProgramOrder
INVARIANT MemoryReusedInOrder
INVARIANT SemaphoresInScope
CHECK_DEADLOCK FALSE
