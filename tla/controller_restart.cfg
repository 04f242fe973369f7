SPECIFICATION FairSpec
CONSTANTS
  a = a
  b = b
  Topics = {a, b}
  NoName = NoName
  Gui <- McNothing
  File <- McOneTool
  All <- McNothing
  MaxTopics = 1
  StartMode = "file"
  MosquittoEnabled = FALSE
  AllowMissing = TRUE
  ValidateTopics = FALSE
  DisableIntrospection = FALSE
  Requests = {"reload"}
  Faults = {"timeout"}
  FaultLimit = 1
  ToolIds = {1, 2, 3, 4, 5}
PROPERTIES ChangesWithoutRestart
