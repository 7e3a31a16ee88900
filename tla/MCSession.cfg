SPECIFICATION SessionSpec
CONSTANTS
  Names = {a, b}
  NoName = NoName
  Calls = {"print", "read", "request", "sendFile"}
  MaxCalls = 2
  MaxStdin = 1
  MaxUnsolicited = 1
  EmptyFiles = TRUE
  IgnoredMessages = TRUE
SYMMETRY NameSymmetry
INVARIANTS
  SessionInv
PROPERTIES
  RightFile
