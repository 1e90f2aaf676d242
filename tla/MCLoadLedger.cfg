CONSTANTS
    l1 = l1
    l2 = l2
    kernel = kernel
    Address = {1, 2, 3}
    Loader = {l1, l2}
    Image = {kernel}
    Window <- MCWindow
    Destination <- MCDestination
    Policy <- MCPolicy
    MAX_LOADED_WINDOWS = 2
SPECIFICATION FairSpec
INVARIANTS LiveIntact CommitFits
PROPERTY LedgerFreed
