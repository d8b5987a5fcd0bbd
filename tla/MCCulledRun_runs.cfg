SPECIFICATION RunSpec
CONSTANTS
  Programs <- MCPrograms
  NumTasks = 4
  MaxTasks = 4
  MaxReads = 3
PROPERTIES
  RunsInOrder
  RunsEnd
CHECK_DEADLOCK FALSE
