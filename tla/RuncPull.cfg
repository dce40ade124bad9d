SPECIFICATION FairSpec
CONSTANTS
  Image <- MCImage
  Leftover <- MCLeftover
  MaxHops = 2
  MaxPulls = 2
  MaxFaults = 1
CHECK_DEADLOCK FALSE
INVARIANTS
  Flattened RootIsTree
PROPERTIES
  PullEnds
