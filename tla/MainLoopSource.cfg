SPECIFICATION Spec
CONSTANTS
    Modes = {"plain", "deleteOnDestroy", "threadSafe"}
    DeletesInCallback = TRUE
    MaxSources = 5
INVARIANTS SourceInv NoStrays DestroyedOnce
CHECK_DEADLOCK FALSE
