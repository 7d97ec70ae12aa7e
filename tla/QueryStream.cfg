CONSTANTS
    RowCounts <- MCRowCounts
SPECIFICATION Spec
INVARIANTS
    ResolvedMeansComplete
PROPERTIES
    NoCloseUnderFetch
    ImplementsLobSequence
    Terminates
