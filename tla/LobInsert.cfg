\* The streaming insert when the Lob stays open after 'finish': safety, and
\* that run() returns under the fairness of the Node.js event loop.  The
\* process exits when nothing is pending, so a state with no step is not an
\* error in itself; one reached before run() returns violates Terminates.
CONSTANTS
    NChunks <- MCNChunks
    HWM <- MCHWM
    AutoClose = FALSE
SPECIFICATION Spec
CHECK_DEADLOCK FALSE
INVARIANTS
    TypeOK
    CommittedRowComplete
    OutcomeReported
PROPERTIES
    NoCloseUnderTransfer
    ImplementsDurableInsert
    Terminates
