CONSTANTS
    RowCounts <- MCRowCounts
    NumRows <- MCNumRows
SPECIFICATION Spec
INVARIANTS
    RowsFetchedBeforeClose
PROPERTIES
    Terminates
