SPECIFICATION Spec
CONSTANTS
    Callers = {a, b}
    Logger = Logger
    None = None
    MaxBuffer = 2
    HalfCap = 1
    MaxFile = 1
    MaxNum = 2
    MaxLines = 4
    MaxFaults = 1
INVARIANTS
    
    DropsAreMarked
PROPERTIES
    LinesAreWritten
CHECK_DEADLOCK FALSE
