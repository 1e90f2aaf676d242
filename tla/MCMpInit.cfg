CONSTANTS
    a1 = a1
    a2 = a2
    a3 = a3
    b0 = b0
    AP = {a1, a2, a3}
    BSP = b0
    MAX_CPUS = 4
    LapicId <- MCLapicId
    Config <- MCConfig
SPECIFICATION FairSpec
CHECK_DEADLOCK FALSE
INVARIANTS
    DriversOutliveUse
    OkMeansAllReady
    ReplayInTurn
    PollsOwnSlot
PROPERTIES
    BringUpEnds
    OkLeadsToPolling
