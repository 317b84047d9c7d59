SPECIFICATION Spec
CONSTANTS
    Clients = {c1}
    Frontends = {"pmr"}
    LongReplies = {}
    Faults = {}
    QPDepth = 3
    MaxRequests = 3
PROPERTY ConnectReturns
CHECK_DEADLOCK FALSE
