SPECIFICATION FairSpec
CONSTANTS
    p1 = p1
    p2 = p2
    Page = {p1, p2}
    Shared = TRUE
    ProcessCountLimit = 2
    Requests = {"crash", "warm", "invalid", "open"}
    MaxProcesses = 2
    MaxLoads = 2
INVARIANTS PoolAssertions TerminationBalanced
PROPERTIES MessagesFindTheirTarget LoadsEnd
CHECK_DEADLOCK FALSE
