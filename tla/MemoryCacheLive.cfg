SPECIFICATION FairCacheSpec
CONSTANTS
    Threads = {a, f}
    Allocators = {a}
    Printers = {f}
    mCount = 2
    MaxOwners = 1
    NULL = NULL
    UNINIT = UNINIT
    Addrs = {2, 6}
    Infos = {i1, i2}
    ADDR_HASH_OFFSET = 1
    ALLOC_INDEX_SIZE = 2
PROPERTIES
    ImplementsTable
    OperationsReturn
