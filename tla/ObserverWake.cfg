SPECIFICATION FairSpec
CONSTANTS
    RejectionsBeforeDegrade = 2
    TimeoutEscalation = 2
    MaxAttempts = 2
    MaxPerHour = 2
    MaxSeq = 2
    MaxFaults = 1
    Replies <- TwoReplies
INVARIANTS
    TypeOK
    HealHasItsOwner
PROPERTIES
    ReplyIsForItsWake
    NewestIsWoken
    SilentIsReplaced
CHECK_DEADLOCK FALSE
