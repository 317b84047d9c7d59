SPECIFICATION FairSpec
CONSTANTS
  c1 = c1
  c2 = c2
  c3 = c3
  None = None
  Empty = Empty
  Clients = {c1, c2, c3}
  Keys = {k1}
  Lens = {2}
  MAX_ASYNC_SIZE = 3
  PREALLOCATE_SIZE = 10
  MaxOps <- Ops211
  Sends <- OneEach
  MaxLost = 1
CHECK_DEADLOCK FALSE
INVARIANTS AckedLogged LogReplays
PROPERTIES IsKVStore CallReturns
