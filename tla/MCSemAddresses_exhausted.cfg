SPECIFICATION Spec
CONSTANTS
  Programs <- MCPrograms
  NumSems = 3
  MaxChains = 0
  NumPairs = 2
  NumGenerations = 2
INVARIANT ExhaustionReusesAnAddress
CHECK_DEADLOCK FALSE
