SPECIFICATION OutSpec
CONSTANTS
  TurnIds = {1, 2}
  CallIds = {k1, k2}
  FinishedMemory = 1
  MaxOpenTurns = 1
  MaxBlocks = 2
  MaxTools = 2
  MaxSignals = 3
  MaxEarly = 2
  MaxPending = 1
  MaxDeltas = 3
  MaxCalls = 3
  MaxFacts = 3
  MaxRequests = 2
  MaxUsages = 2
  MaxEnds = 3
  MaxBody = 4
SYMMETRY Interchangeable
CONSTRAINT Sessions
INVARIANTS
  OutInv
  KindMatchesReference
PROPERTIES
  EndsKeptApart
CHECK_DEADLOCK FALSE
