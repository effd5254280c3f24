SPECIFICATION Spec
CONSTANTS
    Main = Main
    other = other
    f1 = f1
    f2 = f2
    p1 = p1
    p2 = p2
    None = None
    Timer = Timer
    Threads = {Main, other}
    Functions = {f1, f2}
    Callers = {p1, p2}
    MaxSources = 2
    MaxLoops = 3
INVARIANTS ClosingSparesTheProcess NoLostWakeup
PROPERTIES PerformWorkReturns ImplementsTaskQueue
CHECK_DEADLOCK FALSE
