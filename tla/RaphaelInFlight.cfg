SPECIFICATION LifeSpec
CONSTANTS
    Callers = {c}
    Apps = {a}
    MaxStarts = 2
    NULL = NULL
INVARIANTS
    StopMeansStopped
