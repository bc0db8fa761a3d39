SPECIFICATION FairSpec
CONSTANTS
  Requests = {r1}
  DirectRequests = {}
  LifecycleCalls <- GateHolders
  None = None
  MaxTurns = 2
  MaxConcurrent = 1
  Configured = TRUE
  FrameKinds = {"valid"}
  ReturnedAnswers = {"offered"}
  AgentAsks = "late"
  HostCancels = FALSE
  HostCloses = FALSE
  AgentMalformed = FALSE
PROPERTIES
  PromptGivesGateBack
CHECK_DEADLOCK FALSE
