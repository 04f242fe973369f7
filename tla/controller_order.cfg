SPECIFICATION Spec
CONSTANTS
  a = a
  b = b
  Topics = {a, b}
  NoName = NoName
  Gui <- McNothing
  File <- McTwoTools
  All <- McNothing
  MaxTopics = 2
  StartMode = "file"
  MosquittoEnabled = TRUE
  AllowMissing = TRUE
  ValidateTopics = FALSE
  DisableIntrospection = FALSE
  Requests = {"startup", "reload", "stop"}
  Faults = {}
  FaultLimit = 0
  ToolIds = {1, 2, 3, 4, 5}
INVARIANTS AllSinksQuiet
