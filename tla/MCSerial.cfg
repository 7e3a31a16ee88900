SPECIFICATION SerialFairSpec
CONSTANTS
  Scenarios <- MCScenarios
  ReadChunk = 2
  MaxRemainder = 4
  MatchWindow = 2
INVARIANTS
  SerialInv
  MatchesExact
  SentInOrder
PROPERTIES
  EndsInTime
