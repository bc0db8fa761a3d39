SPECIFICATION RunSpec
CONSTANTS
  Sessions = {s1}
  None = None
  MaxPrompts = 2
  ChanCap = 6
  WritesFail = TRUE
  AgentExits = TRUE
  HostCancels = TRUE
  ChildFates = {"exit", "disconnect"}
  Diagnostics = {}
  Inputs = {i1}
  EventsCap = 1
  AutoFires = {TRUE, FALSE}
INVARIANTS
  RunInv
  OneExit
  ReturnedMeansQuiet
  RunNeverStuck
CONSTRAINT AutoFireOrStop
CHECK_DEADLOCK FALSE
