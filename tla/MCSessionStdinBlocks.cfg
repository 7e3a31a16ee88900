SPECIFICATION SessionServedSpec
CONSTANTS
  Names = {a}
  NoName = NoName
  Calls = {"request"}
  MaxCalls = 1
  MaxStdin = 1
  MaxUnsolicited = 0
  EmptyFiles = FALSE
  IgnoredMessages = FALSE
PROPERTIES
  RequestAnswered
