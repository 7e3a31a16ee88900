SPECIFICATION RelayFairSpec
CONSTANTS
  MaxStdin = 1
  MaxResponses = 1
INVARIANTS
  RelayInv
PROPERTIES
  EveryoneLearns
