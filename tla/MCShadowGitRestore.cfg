SPECIFICATION SnapSpec
CONSTANTS
  Callers = {c1, c2}
  Paths = {p1, p2}
  Small = {k1}
  Links = {k1}
  Big = {b1}
  MaxCaptures = 2
  MaxCalls = 2
  MaxEdits = 1
  MaxCrashes = 1
SYMMETRY Interchangeable
PROPERTY FailedCaptureRestoresNothing
CHECK_DEADLOCK FALSE
