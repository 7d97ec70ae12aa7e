CONSTANTS
    NChunks <- MCNChunks
    HWM <- MCHWM
SPECIFICATION Spec
INVARIANTS
    TypeOK
    ErrorMeansNothingCommitted
    CommittedRowComplete
PROPERTIES
    ImplementsDurableInsert
CHECK_DEADLOCK FALSE
