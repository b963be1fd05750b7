SPECIFICATION AppSpec
CONSTANTS
    Threads = {a, b}
    Allocators = {a, b}
    Printers = {}
    mCount = 2
    MaxOwners = 2
    NULL = NULL
    UNINIT = UNINIT
    Addrs = {2, 4, 6}
    Infos = {i1}
    ADDR_HASH_OFFSET = 1
    ALLOC_INDEX_SIZE = 2
INVARIANTS
    ReportExact
