SPECIFICATION Spec
CONSTANTS
    Clients = {c1}
    Frontends = {"pmem"}
    LongReplies = {"pmem"}
    Faults = {}
    QPDepth = 3
    MaxRequests = 3
PROPERTY RepliesArrive
CHECK_DEADLOCK FALSE
