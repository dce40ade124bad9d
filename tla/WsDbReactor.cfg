SPECIFICATION Spec
CONSTANTS
  Conn = {c1, c2, c3}
  Req = {r1, r2}
  None = None
  Unkeyed = Unkeyed
  Mtls = FALSE
SYMMETRY Symm
CONSTRAINT Narrow
INVARIANTS TypeOK NoLostWaiter InSession NoSleepBesideAgent
PROPERTY ImplementsDbCall
CHECK_DEADLOCK FALSE
