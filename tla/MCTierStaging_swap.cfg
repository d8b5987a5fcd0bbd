SPECIFICATION Spec
CONSTANTS
  Programs <- TightPrograms
  NumBufs = 2
  NumExecs = 3
  NumPairs = 0
  MaxMemrefs = 14
INVARIANT CopiesReadIntact
CHECK_DEADLOCK FALSE
