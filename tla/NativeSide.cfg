SPECIFICATION NativeSpec
CONSTANTS
    Libs <- MCLibs
    HookSymbols = {"malloc", "calloc"}
    MaxHooks = 2
    SIZE_BITS = 16
    NULL = NULL
    Hash <- HashValues
    ELF_BITS = 4
    NOTFND = NOTFND
    Symbols <- MCSymbols
    RANGE_B = 1000
    RANGE_C = 200
    RANGE_T = 30
    RANGE_L = 200
    RANGE_A = 800
    PAGE_WORDS = 256
    A64_MAX_BACKUPS = 2
    ROW_WORDS = 50
    FirstRows = {0, 1, 2}
    MaxStarts = 1
    NO_ROW = NO_ROW
    Processes <- MCProcesses
    ApiLevels = {19, 21, 24, 28}
    FileNames <- MCFileNames
    SymNames = {"malloc", "mmap", "je_free"}
    Addresses = {106, 108, 209, 307}
    MaxXdlCalls = 3
    NONE = NONE
    Threads <- MCThreads
    Depths = {2, 4}
    MAX_TRACE_DEPTH = 5
    MIN_PC = 1500
    MIN_R7 = 100
    GARBAGE = GARBAGE
    Functions32 = {"malloc", "free", "mmap"}
    MAX_ITEMS = 3
    MaxCalls32 = 6
    NOTHING = NOTHING
    Images <- MCImages
    LIBDL = "libdl.so"
    SELF = "libraphael.so"
    Preloaded <- MCPreloaded
    Plugins = {"libapp.so", "libdep.so"}
    Imports <- MCImports
    Needs <- MCNeeds
    SameName <- MCSameName
    Unparsable = {"libold.so"}
    Focuses <- MCFocuses
    Levels = {"O", "N", "L"}
    Loaders = {"a", "b"}
    JAVA = "java"
    MaxSoCalls = 4
    NOBODY = NOBODY
INVARIANTS
    LookupExact
    MemoryExact
    OldIsOriginal
    RelocatedSame
    HookedHasOrigin
    HeapReleased
    
    TraceIsCallChain
    
    OriginMapped
    TableExact
    
    OriginSaved

    
CHECK_DEADLOCK FALSE
