SPECIFICATION Spec
INVARIANTS
    AllReleaseAttempted
