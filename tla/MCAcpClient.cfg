SPECIFICATION Spec
CONSTANTS
  Requests = {r1}
  DirectRequests = {}
  LifecycleCalls <- GateHolders
  None = None
  MaxTurns = 2
  MaxConcurrent = 1
  Configured = TRUE
  FrameKinds = {"valid","otherSession"}
  ReturnedAnswers = {"offered","empty"}
  AgentAsks = "anytime"
  HostCancels = TRUE
  HostCloses = TRUE
  AgentMalformed = TRUE
CONSTRAINT TwoTurnsOrCalls
INVARIANTS
  ClientInv
  StreamComplete
PROPERTIES
  NoEventAfterTurnEnd
  NoSelectionAfterCancel
CHECK_DEADLOCK FALSE
