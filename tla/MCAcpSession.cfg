SPECIFICATION FairSpec
CONSTANTS
  Sessions = {s1, s2}
  First = s1
  Second = s2
  None = None
  MaxPrompts = 2
  ChanCap = 6
  WritesFail = TRUE
  AgentExits = TRUE
  HostCancels = TRUE
  ChildFates = {"exit", "exitError", "disconnect"}
  Diagnostics = {"malformed", "stderr"}
CONSTRAINT OneExtra
INVARIANTS
  SessionInv
  OneClientPerId
  OutcomeIsCause
PROPERTIES
  SessionEnds
  TurnEndFreesSession
CHECK_DEADLOCK FALSE
