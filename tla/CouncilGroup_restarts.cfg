SPECIFICATION FairSpec
CONSTANTS
    MaxAutoRelaunches <- OneRelaunch
    Requests <- Restarts
PROPERTIES
    ImplementsPairLifecycle
CHECK_DEADLOCK FALSE
