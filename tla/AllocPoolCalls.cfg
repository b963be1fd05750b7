SPECIFICATION FairPoolSpec
CONSTANTS
    Threads = {a, f, g}
    Allocators = {a}
    mCount = 3
    MaxOwners = 2
    NULL = NULL
    UNINIT = UNINIT
INVARIANTS
    TypeOK
    NoUninitRead
    RefusedOnlyAtLimit
    Exclusive
    Conserved
PROPERTIES
    CallsReturn
