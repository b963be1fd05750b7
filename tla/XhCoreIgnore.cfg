SPECIFICATION XhSpec
CONSTANTS
    Callers = {c}
    Worker = w
    Paths = {"a"}
    Bases = {1, 2}
    HookChoices <- Hooks
    IgnoreChoices <- Ignores
    MaxHooks = 2
    MaxIgnores = 1
    ALL = ALL
    NULL = NULL
INVARIANTS
    IgnorePerSymbol
