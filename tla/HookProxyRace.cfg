SPECIFICATION ProxySpec
CONSTANTS
    Threads = {t, u}
    Addrs = {a, b}
    Sizes = {1, 2}
    limit = 2
    UintRange = 4
    NULL = NULL
SYMMETRY Symmetry
INVARIANTS
    TotalsExactAlways
