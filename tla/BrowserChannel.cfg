SPECIFICATION FairSpec
CONSTANTS
    Published <- ChatAndTransient
    BufferLimit = 1
    HistoryLimit = 2
    MaxEvents = 3
    MaxMessages = 1
    MaxFaults = 2
    Faults <- AllFaults
INVARIANTS
    TypeOK
    CursorIsSound
    TransientOnce
PROPERTIES
    ChatComplete
    MessageArrives
CHECK_DEADLOCK FALSE
