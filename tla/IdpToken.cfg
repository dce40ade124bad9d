SPECIFICATION Spec
CONSTANTS
  Flow <- MCFlow
  Account = {a1, a2}
  Worker = {w1, w2}
  Key = {k1, k2}
  Admin = {ad1, ad2}
  None = None
  MaxCodes = 2
  MaxEdits = 2
  MaxFaults = 1
SYMMETRY Symmetric
CHECK_DEADLOCK FALSE
INVARIANTS
  CodeOnce TokenBound SignedByKid
