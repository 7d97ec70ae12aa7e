CONSTANTS
    NChunks <- MCNChunks
    HWM <- MCHWM
SPECIFICATION Spec
PROPERTIES
    Terminates
CHECK_DEADLOCK FALSE
