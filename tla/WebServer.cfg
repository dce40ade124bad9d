SPECIFICATION FairSpec
CONSTANTS
  c1 = c1
  c2 = c2
  Client = {c1, c2}
  Fd = {f1, f2}
  Workers = 2
  Chunks = 2
  None = None
  Elsewhere = Elsewhere
  Scripts <- MCScripts
CHECK_DEADLOCK FALSE
INVARIANTS
  TypeOK PoolIsCurrent DescriptorKept Conserved WholeRequests InOrder
PROPERTIES
  OthersKept Served
