SPECIFICATION Spec
CONSTANTS
    MaxAlarm = 1
    MaxConn = 1
    OtherEngine = TRUE
INVARIANTS
    StoppedWhenStopReturns
CHECK_DEADLOCK FALSE
