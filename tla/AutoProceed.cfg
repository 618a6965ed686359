SPECIFICATION FairSpec
CONSTANTS
    stopA = stopA
    stopB = stopB
    Findings <- Stops
    MaxIterations = 2
    MaxQueue = 2
INVARIANTS
    TypeOK
    EpisodeWithinCap
    MarkFitsTurn
    IdleIsArmed
PROPERTIES
    HoldIsRespected
    LoopReachesItsCap
