SPECIFICATION Spec
CONSTANTS
    MaxAutoRelaunches <- OneRelaunch
    Requests <- OneServerLife
INVARIANTS
    TypeOK
    WindowMatchesStatus
    SingleFlight
    TransientMarkIsOwned
    StoppedIsLeftAlone
PROPERTIES
    FlightKeepsItsMark
    RevivalIsEarned
    StopWinsOverGrace
CHECK_DEADLOCK FALSE
