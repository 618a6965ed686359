SPECIFICATION Spec
CONSTANTS
    MaxAutoRelaunches <- OneRelaunch
    Requests <- Idling
PROPERTY CrashLeavesActive
CHECK_DEADLOCK FALSE
