SPECIFICATION RequestSpec
CONSTANTS
  Setups <- MCSetups
  ParseDuration <- MCParseDuration
  WordBits = 6
  DefaultLock = 8
  LongLock = 12
INVARIANTS
  RequestInv
  AcceptedIsUsable
  ErrorLocated
  ArgsDelivered
  NoMajorMix
  LockAsAsked
PROPERTIES
  DutctlReturns
