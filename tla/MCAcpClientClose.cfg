SPECIFICATION FairSpec
CONSTANTS
  Requests = {r1}
  DirectRequests = {}
  LifecycleCalls <- GateHolders
  None = None
  MaxTurns = 1
  MaxConcurrent = 1
  Configured = TRUE
  FrameKinds = {"valid"}
  ReturnedAnswers = {"offered"}
  AgentAsks = "inTurn"
  HostCancels = FALSE
  HostCloses = TRUE
  AgentMalformed = FALSE
PROPERTIES
  CloseCompletes
CHECK_DEADLOCK FALSE
