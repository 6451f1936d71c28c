SPECIFICATION FairSpec
CONSTANTS
    MaxAlarm = 3
    MaxConn = 2
    OtherEngine = TRUE
INVARIANTS
    AtMostOnce
    OwnAnswer
    NoneForgotten
PROPERTIES
    NotUsedAfterDestroyed
    EveryAlarmTried
    DestructorReturns
    ImplementsChannel
CHECK_DEADLOCK FALSE
