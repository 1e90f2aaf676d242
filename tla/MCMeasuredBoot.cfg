CONSTANTS
    Caps = 3
    MaxLog = 16
SPECIFICATION Spec
INVARIANTS VouchesForAllOrNothing OsFindsTpmLocked
CHECK_DEADLOCK FALSE
