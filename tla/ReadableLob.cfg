CONSTANTS
    LEN <- MCLEN
    PieceSize <- MCPieceSize
    HWM <- MCHWM
    MaxPauses <- MCMaxPauses
SPECIFICATION Spec
INVARIANTS
    TypeOK
    BufferBound
PROPERTIES
    ImplementsLobSequence
    EventuallyReleased
CHECK_DEADLOCK FALSE
