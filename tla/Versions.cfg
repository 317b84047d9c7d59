SPECIFICATION Spec
CONSTANTS
    MaxKey = 3
    Ops <- MCOps
    MaxSeq = 4
    MaxSnapshots = 1
    NumLevels = 4
    MaxMemLevel = 2
    L0Trigger = 2
    LevelSize <- MCLevelSize
    MaxFile = 2
    GrandParents = 1
    Expanded = 4
INVARIANTS
    LevelsSorted
    LayersOrdered
PROPERTIES
    GetWithoutSnapshots
    Settles
CHECK_DEADLOCK FALSE
