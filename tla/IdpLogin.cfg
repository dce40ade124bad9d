SPECIFICATION FairSpec
CONSTANTS
  Client = {marvel}
  Account = {a1}
  Browser = {b1}
  Worker = {w1, w2}
  MaxPending = 1
  MaxSessions = 2
  MaxResets = 1
  MaxEdits = 1
  MaxFaults = 1
CHECK_DEADLOCK FALSE
INVARIANTS
  EarlierSessionsGone SurvivorsBounded UsesBounded
PROPERTIES
  RegistryCatchesUp
