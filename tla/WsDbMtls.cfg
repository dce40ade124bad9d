SPECIFICATION FairSpec
CONSTANTS
  Conn = {c1, c2}
  Req = {r1}
  None = None
  Unkeyed = Unkeyed
  Mtls = TRUE
INVARIANTS OneOpenSocket
PROPERTY DisconnectReleases
CHECK_DEADLOCK FALSE
