SPECIFICATION CopilotSpec
CONSTANTS
  Requests = {r1}
  DirectRequests = {}
  LifecycleCalls <- GateHolders
  None = None
  MaxTurns = 2
  MaxConcurrent = 1
  Configured = TRUE
  FrameKinds = {"valid"}
  ReturnedAnswers = {"offered"}
  AgentAsks = "anytime"
  HostCancels = TRUE
  HostCloses = TRUE
  AgentMalformed = FALSE
  Transports = {"stdio", "tcp", "dial"}
CONSTRAINT TwoTurnsOrCalls
INVARIANTS
  CopilotInv
  TurnsMatched
  CloseReleases
PROPERTIES
  NothingAfterItsEnd
CHECK_DEADLOCK FALSE
