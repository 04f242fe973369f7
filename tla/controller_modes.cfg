SPECIFICATION FairSpec
CONSTANTS
  a = a
  b = b
  NoName = NoName
  Topics = {a, b, NoName}
  Gui <- McGui
  File <- McOneTool
  All <- McAll
  MaxTopics = 1
  StartMode = "gui"
  MosquittoEnabled = TRUE
  AllowMissing = FALSE
  ValidateTopics = TRUE
  DisableIntrospection = FALSE
  Requests = {"apply", "reload", "mode", "param", "stop"}
  Faults = {"timeout", "crash", "unreachable"}
  FaultLimit = 1
  ToolIds = {1, 2, 3, 4, 5}
INVARIANTS SuccessMeansDone
PROPERTIES HandlerReturns RetrySucceeds
