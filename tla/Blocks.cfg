SPECIFICATION Spec
CONSTANTS
    Nibble = 2
    MinMatch = 4
    LastLiterals = 2
    MatchFindLimit = 5
    MaxDistance = 6
    HashSlots = 2
    LengthSlack = 2
    Width = 3
    BlockHeaderSize = 2
    Quantum = 4
    Workloads <- MCWorkloads
INVARIANTS BytesKept ReserveSuffices CutBlockRefused QueryExact AnomalyMarked
CHECK_DEADLOCK FALSE
