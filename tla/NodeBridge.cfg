SPECIFICATION Spec
CONSTANTS
    MaxOps = 3
    MaxRegs = 2
    MaxPages = 2
INVARIANTS BridgeInv ProxyNamesItsValue SlotIsFilled CallbackNeverStale
PROPERTIES ResultsAreFinal
CHECK_DEADLOCK FALSE
