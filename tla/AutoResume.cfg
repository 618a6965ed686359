SPECIFICATION FairSpec
CONSTANTS
    orch = orch
    obs = obs
    now5h = now5h
    weekly = weekly
    Sessions <- Pair
    Observer = obs
    Limits <- TwoLimits
    MaxConsecutiveRehits = 2
    MaxSchedules = 2
    MaxCrashes = 1
    MaxRequests = 2
    Requests <- EveryRequest
INVARIANTS
    TypeOK
    DiskAgrees
    BannerAgrees
    CancelledIsQuiet
    RehitBound
PROPERTIES
    ImplementsOneShot
CHECK_DEADLOCK FALSE
