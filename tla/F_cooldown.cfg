SPECIFICATION Spec
CONSTANTS
    MaxAutoRelaunches <- OneRelaunch
    Requests <- NoRequests
PROPERTY CrashIsFollowedUp
CHECK_DEADLOCK FALSE
