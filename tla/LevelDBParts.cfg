SPECIFICATION Spec
CONSTANTS
    LogBlock = 5
    LogHeader = 2
    LogSizes = {0, 2, 7}
    LogRecords = 3
    LogFaults = 3
    BlockKeys <- MCBlockKeys
    BlockMax = 6
    Interval = 2
    UserKeys <- MCUserKeys
    TopByte = 3
    TopSeq = 3
    TableMax = 5
    BlockSize = 2
    FilterBase = 2
    Hash <- MCHash
    Delta <- MCDelta
    Bits = 7
    Probes = 2
    GroupBits = 2
    NumberBits = 5
    KLevels = 7
    Batches <- MCBatches
    Edits <- MCEdits
    Users = 2
    MaxSeq = 3
    MaxHeight = 3
    Tables = {1, 2, 3}
    HashOf <- MCHashOf
    ChargeOf <- MCChargeOf
    Threads = {t1, t2, t3}
    Handles = {1, 2, 3, 4, 5}
    Capacity = 2
    FirstLength = 1
    ArenaBlock = 24
    Align = 4
    Sizes = {1, 4, 5, 6, 7}
    MaxAllocs = 5
    MaxKey = 2
    Loaded = 3
    IterSeq = 4
    BufferSize = 3
    AppendSizes = {1, 2, 7}
    MaxBytes = 10
    MaxFailures = 2
    Openers = {o1, o2, o3}
    MaxMmaps = 1
    MaxOpenFiles = 1
    MaxOpens = 6
    MaxWork = 4
INVARIANTS
    LogCorrect
    BlockIterCorrect
    TableGetCorrect
    MemTableIntact
    CacheIntact
    IterCorrect
    EnvCorrect
CHECK_DEADLOCK FALSE
