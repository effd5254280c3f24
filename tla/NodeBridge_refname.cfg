SPECIFICATION Spec
CONSTANTS
    MaxOps = 3
    MaxRegs = 2
    MaxPages = 1
INVARIANT ProxyContainsItsObject
CHECK_DEADLOCK FALSE
