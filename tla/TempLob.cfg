CONSTANTS
    LEN <- MCLEN
    HWM <- MCHWM
SPECIFICATION Spec
INVARIANTS
    BoundComplete
PROPERTIES
    Terminates
CHECK_DEADLOCK FALSE
