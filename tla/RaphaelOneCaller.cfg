SPECIFICATION LifeSpec
CONSTANTS
    Callers = {c}
    Apps = {a, b}
    MaxStarts = 3
    NULL = NULL
INVARIANTS
    SessionReady
    PrintSafe
    StopReleases
    GuardReleased
