SPECIFICATION Spec
CONSTANTS
    c1 = c1
    c2 = c2
    r1 = r1
    Clients = {c1, c2}
    Readers = {r1}
    Keys <- MCKeys
    Requests <- MCRequests
    ReuseLogs = TRUE
    ManifestLimit = 3
    MemLimit = 2
    Trigger = 1
    Stop = 2
    MaxWrites = 4
    MaxEvents = 3
    MaxSteps = 5
    Power = TRUE
INVARIANTS
    Reopens
    AckedOnDisk
    ReadsSnapshot
    RestartSame
CHECK_DEADLOCK FALSE
PROPERTIES
    WritesReturn
