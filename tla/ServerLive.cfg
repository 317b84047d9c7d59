SPECIFICATION LiveSpec
CONSTANTS
  c1 = c1
  c2 = c2
  None = None
  Torn = Torn
  Clients = {c1, c2}
  Keys = {k1}
  Chunks = {h1, h2}
  MAX_ASYNC_SIZE = 2
  Lens = {1}
  QueueDepth = 1
  MaxOps <- Ops21
  WriteKeys <- AllKeys
  Deletes = TRUE
  AtomicBatch = TRUE
  WritesFail = TRUE
  DbFails = TRUE
  Threads = {t1, t2, t3}
  N = 3
  kBitsPerBlock = 2
  StaleLoads = TRUE
  Frontends = {"pmr", "pmem", "group"}
  LongReplies = {"pmr", "pmem", "group"}
  Faults = {"open", "modify", "client"}
  QPDepth = 3
  MaxRequests = 3
CHECK_DEADLOCK FALSE
INVARIANTS BitsAreOwned MessageBeforeHeader
PROPERTIES IsChunkPool FindsFreeBit CallReturns Drained Served
