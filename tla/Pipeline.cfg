SPECIFICATION FairSpec
CONSTANTS
    MaxPacket = 6
    QueueSize = 2
    BatchSize = 2
INVARIANTS
    FramesInOrder
    
PROPERTIES
    EveryPacketSettles
CHECK_DEADLOCK FALSE
