SPECIFICATION FairSpec
CONSTANTS
  MaxQueueMessages = 2
  DropModes = {TRUE, FALSE}
  StrictModes = {TRUE, FALSE}
  ClientQueue = 2
  CreateOutcomes = {TRUE, FALSE}
  SendPhases = {"idle", "spawning", "joining"}
  SendLimit = 5
INVARIANTS TypeOK Conservation ClientFollowsStatus
PROPERTIES KeepsOutbox StopReturns BufferedLeave
