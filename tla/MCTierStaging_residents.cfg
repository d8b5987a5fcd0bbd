SPECIFICATION Spec
CONSTANTS
  Programs <- ResidentPrograms
  NumBufs = 4
  NumExecs = 0
  NumPairs = 0
  MaxMemrefs = 14
INVARIANT AddressGap
CHECK_DEADLOCK FALSE
