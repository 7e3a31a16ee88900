SPECIFICATION SessionFairSpec
CONSTANTS
  Names = {a}
  NoName = NoName
  Calls = {"print", "read", "request", "sendFile"}
  MaxCalls = 1
  MaxStdin = 1
  MaxUnsolicited = 1
  EmptyFiles = TRUE
  IgnoredMessages = TRUE
PROPERTIES
  SessionTearsDown
