SPECIFICATION ProductSpec
CONSTANTS
    Sched = {s1, s2}
    Camera = {c1, c2}
    MaxTask = 2
    MaxSave = 2
    MaxRestart = 1
    Conn = {x1, x2}
    Trusted = {x1}
    HasPasswd = {TRUE, FALSE}
    MaxIdle = 1
    MaxCall = 3
    Half = 2
    SampleP = 2
    SampleN = 2
    MaxHits = 2
    MaxFrame = 7
    TimeStamp = 2
    Much = 2
    MaxPerson = 2
    MaxChange = 1
    Line = {l1, l2}
    TrailFrames = 5
    AloneFrames = 4
    JointPersons = 1
INVARIANTS
    
    
    CrossingIsFilmed
    
    
    ConnNumIsRight
SYMMETRY Symmetry
CHECK_DEADLOCK FALSE
