SPECIFICATION Spec
CONSTANTS
  c1 = c1
  c2 = c2
  k1 = k1
  k2 = k2
  None = None
  Torn = Torn
  Clients = {c1, c2}
  Keys = {k1, k2}
  Chunks = {h1, h2}
  MAX_ASYNC_SIZE = 3
  Lens = {2}
  QueueDepth = 1
  MaxOps <- Ops22
  WriteKeys <- AllKeys
  Deletes = FALSE
  AtomicBatch = TRUE
  WritesFail = FALSE
  DbFails = FALSE
SYMMETRY ChunkSymmetry
CHECK_DEADLOCK FALSE
INVARIANTS GetOwnKey
