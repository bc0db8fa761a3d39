SPECIFICATION FairSpec
CONSTANTS
  Inputs = {i1, i2}
  Cancels = {c1}
  Children = {"longLived", "perTurn"}
  None = None
  FanoutCap = 1
  MaxOutput = 3
INVARIANTS
  NativeInv
  TurnsBracketed
  SinkInOrder
PROPERTIES
  InterruptNotInvented
  RunReturns
CHECK_DEADLOCK FALSE
