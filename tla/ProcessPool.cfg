SPECIFICATION Spec
CONSTANTS
    p1 = p1
    p2 = p2
    Page = {p1, p2}
    Shared = FALSE
    ProcessCountLimit = 2
    Requests = {"crash", "invalid", "warm", "related", "terminate", "termination", "open"}
    MaxProcesses = 3
    MaxLoads = 1
INVARIANTS PoolInv ValidPageHasProcess
CHECK_DEADLOCK FALSE
