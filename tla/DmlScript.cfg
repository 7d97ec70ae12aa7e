CONSTANTS
    Scripts <- MCScripts
    OldRows <- MCOldRows
SPECIFICATION Spec
INVARIANTS
    NothingLostOnSuccess
    AllOrNothing
