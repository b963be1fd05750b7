SPECIFICATION CacheSpec
CONSTANTS
    Threads = {a, f, g}
    Allocators = {a}
    Printers = {g}
    mCount = 2
    MaxOwners = 1
    NULL = NULL
    UNINIT = UNINIT
    Addrs = {2, 6}
    Infos = {i1}
    ADDR_HASH_OFFSET = 1
    ALLOC_INDEX_SIZE = 2
INVARIANTS
    CacheTypeOK
    MutexOwner
    ChainsSound
PROPERTIES
    ImplementsPool
    ImplementsTable
