SPECIFICATION ImageSpec
CONSTANTS
  Programs <- MCPrograms
  NumTasks = 4
  MaxEdges = 3
  NumLong = 6
  NumPairs = 2
  NumGenerations = 2
  RiscvSemBase = 16384
INVARIANTS
  ImageTypeOK
  TenantsApart
  StreamNamesTenants
  BuffersAllocated
  KernelsSeeTheirData
  PortsMeetStream
PROPERTY EveryTaskDelivered
CHECK_DEADLOCK FALSE
