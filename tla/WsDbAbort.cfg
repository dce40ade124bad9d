SPECIFICATION Spec
CONSTANTS
  Conn = {c1, c2}
  Req = {r1}
  None = None
  Unkeyed = Unkeyed
  Mtls = FALSE
INVARIANT SurvivesDisconnect
CHECK_DEADLOCK FALSE
