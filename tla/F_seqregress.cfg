SPECIFICATION FairSpec
CONSTANTS
    Published <- EveryKind
    BufferLimit = 2
    HistoryLimit = 3
    MaxEvents = 3
    MaxMessages = 1
    MaxFaults = 1
    Faults <- OnlyDeath
PROPERTY DialogGoesOn
CHECK_DEADLOCK FALSE
