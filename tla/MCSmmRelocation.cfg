CONSTANT num_aps = 2
SPECIFICATION FairSpec
INVARIANTS OwnSmbase StubThere SmiOnlyWhenReady HiddenOnReturn
PROPERTY InstallEnds
CHECK_DEADLOCK FALSE
