SPECIFICATION FairSpec
CONSTANTS
  Caller = {c1, c2}
  Up = 2
  Down = 1
  Base = 5
  Cap = 8
  Calls = 3
  Faults = 0
  Svc = Svc
  None = None
CHECK_DEADLOCK FALSE
PROPERTIES
  CallsReturn
