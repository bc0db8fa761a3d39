SPECIFICATION PermSpec
CONSTANTS
  Requests = {r1, r2, r3}
  LifecycleCalls = {client}
  DirectRequests = {r3}
  None = None
  MaxTurns = 2
  MaxConcurrent = 1
  Configured = TRUE
  FrameKinds = {"valid","invalid"}
  ReturnedAnswers = {"offered","unoffered","error"}
SYMMETRY RequestSymmetry
CONSTRAINT TwoRequests
INVARIANTS
  PermInv
  EndTurnBarrier
  CapacityHeld
  EndTurnNeverStuck
PROPERTIES
  ImplementsContract
CHECK_DEADLOCK FALSE
