SPECIFICATION Spec
CONSTANTS
  Sid = {s1, s2}
  Worker = {w1, w2}
  None = None
  Ttl = 2
  Throttle = 1
  MaxAge = 2
  Capacity = 1
  Delay = 1
  MaxTime = 3
SYMMETRY Symm
INVARIANTS StaleBound CacheConsistent RefreshesApart
CHECK_DEADLOCK FALSE
