SPECIFICATION LifeSpec
CONSTANTS
    Callers = {c, d}
    Apps = {a}
    MaxStarts = 2
    NULL = NULL
INVARIANTS
    PrintSafe
