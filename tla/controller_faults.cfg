SPECIFICATION Spec
CONSTANTS
  a = a
  b = b
  Topics = {a, b}
  NoName = NoName
  Gui <- McNothing
  File <- McTwoTools
  All <- McNothing
  MaxTopics = 2
  StartMode = "file"
  MosquittoEnabled = TRUE
  AllowMissing = TRUE
  ValidateTopics = FALSE
  DisableIntrospection = TRUE
  Requests = {"startup", "reload", "stop"}
  Faults = {"timeout", "crash", "unreachable", "reject"}
  FaultLimit = 2
  ToolIds = {1, 2, 3, 4, 5}
INVARIANTS TypeOK BusyOnlyInside OrderlySwitch SuccessMeansDone ToolsTracked
PROPERTIES SinksKeepContract
