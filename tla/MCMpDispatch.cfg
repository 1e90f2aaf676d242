SPECIFICATION FairSpec
CONSTANTS
    num_aps = 2
    MaxCalls = 3
INVARIANTS BorrowEnds ParkedMeansHalted
PROPERTIES ScopeSpec MethodsReturn LateApsHalt
CHECK_DEADLOCK FALSE
