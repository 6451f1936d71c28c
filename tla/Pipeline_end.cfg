SPECIFICATION FairSpec
CONSTANTS
    MaxPacket = 3
    QueueSize = 1
    BatchSize = 2
PROPERTIES
    EndIsTold
CHECK_DEADLOCK FALSE
