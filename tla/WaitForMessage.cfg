SPECIFICATION Spec
CONSTANTS
    MaxArrivals = 3
    MaxWaits = 2
INVARIANTS QueueIsScheduled OthersInOrder
PROPERTIES WaitReturns
CHECK_DEADLOCK FALSE
