SPECIFICATION GisSpec
CONSTANTS
  MaxQueueMessages = 4
  DropModes = {TRUE}
  StrictModes = {TRUE, FALSE}
  ClientQueue = 4
  CreateOutcomes = {TRUE, FALSE}
  SendPhases = {"idle"}
  SendLimit = 7
  r1 = r1
  r2 = r2
  Robots <- Two
  RobotLists <- OneOrTwo
INVARIANTS PingNeverFirst FirstRegistrationsKept
