SPECIFICATION Spec
CONSTANTS
    RejectionsBeforeDegrade = 2
    TimeoutEscalation = 2
    MaxAttempts = 2
    MaxPerHour = 2
    MaxSeq = 1
    MaxFaults = 1
    Replies <- TwoReplies
PROPERTY
    RedeliveryIsNotDeduped
CHECK_DEADLOCK FALSE
