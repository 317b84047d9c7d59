SPECIFICATION Spec
CONSTANTS
  c1 = c1
  c2 = c2
  c3 = c3
  None = None
  Empty = Empty
  Clients = {c1}
  Keys = {k1}
  Lens = {1}
  MAX_ASYNC_SIZE = 2
  PREALLOCATE_SIZE = 10
  MaxOps <- Ops3
  Sends <- All
  MaxLost = 0
CHECK_DEADLOCK FALSE
INVARIANT DeletedNotFound
