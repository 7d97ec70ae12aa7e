\* With the Lob closed automatically at 'finish' (as the LOB documentation
\* states), a failing commit calls destroy() on a closed Lob: no 'error' is
\* emitted, doStream never settles and run() never returns.
CONSTANTS
    NChunks <- MCNChunks
    HWM <- MCHWM
    AutoClose = TRUE
SPECIFICATION Spec
CHECK_DEADLOCK FALSE
PROPERTIES
    Terminates
