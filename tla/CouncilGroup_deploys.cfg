SPECIFICATION FairSpec
CONSTANTS
    MaxAutoRelaunches <- OneRelaunch
    Requests <- Deploys
PROPERTIES
    ClaimIsReleased
    OwedRelaunchIsAttempted
    RequestCompletes
CHECK_DEADLOCK FALSE
