SPECIFICATION FairSpec
CONSTANTS
    KeyType = {"RawKeyDown", "Char"}
    TouchType = {"TouchStart", "TouchMove"}
    Position = {1, 2}
    WheelEventQueueSizeThreshold = 3
    Nested = TRUE
    MaxEvents = 4
INVARIANTS WheelsAreServed ProxyKnowsWhatIsInFlight AnswersPass
PROPERTIES KeysAreAnswered AlarmIsTakenBack
CHECK_DEADLOCK FALSE
