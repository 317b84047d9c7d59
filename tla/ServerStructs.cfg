SPECIFICATION StructsSpec
CONSTANTS
    c1 = c1
    None = None
    Clients = {c1, c2}
    Keys = {k1}
    Lens = {1, 2, 3}
    PMEM_BUFSIZE = 7
    MaxOps <- Ops41
    DbFails = TRUE
    FindsAll = FALSE
    Threads = {"t1", "t2", "t3"}
    TableKeys = {"a", "b", "c", "d"}
    Hash <- MCHash
    Tag <- MCTag
    Slots = 1
    FirstPower = 1
    PathLen = 3
    Ops <- MCOps
    MaxPower = 3
    p1 = p1
    p2 = p2
    Producers <- MCProducers
    Consumers = {q1, q2}
    MaxItems <- MCMaxItems
    MaxOver = 1
    PerBlock = 2
    FirstIndex = 1
    PoolBlocks = {1}
    HeapBlocks = {2, 3, 4}
    u1 = u1
    u2 = u2
    Users = {u1, u2, u3}
    FirstOwner <- MCFirstOwner
    Ids = {1, 2, 3}
    IdHash <- MCIdHash
    FirstSize = 4
    MaxLives = 3
INVARIANTS
    RecentKept
    TableCorrect
    QueueDelivers
    FreeListIntact
    ProducersOwned
SYMMETRY ConsumerSymmetry
CHECK_DEADLOCK FALSE
PROPERTY IsKVStore
