SPECIFICATION FairSpec
CONSTANTS
    CPU = {c1, c2}
    NoCpu = NoCpu
    ProbeEvent = ProbeEvent
    RECORDS = 2
    MAX_SEL_ATTEMPTS = 1
    MaxBanks = 2
    MaxEvents = 3
INVARIANTS Accounted
PROPERTIES EveryoneReturns SelSpec ProbeEnds NativeHandoff
CHECK_DEADLOCK FALSE
