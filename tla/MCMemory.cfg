SPECIFICATION Spec
CONSTANTS
    Values = {1, 2}
    Names = {"a"}
    FirstCap = 2
    MaxBlocks = 4
    MaxSize = 3
    MaxDone = 5
    Strs = {1, 2, 3}
    Header = 2
    MaxChars = 2
    Streams = {1, 2}
    Texts = {1}
    Room = 1
    MaxBytes = 2
    MaxBuffers = 3
    Writers = {1, 2}
    Paths = {px, py}
    Caps = {1}
    Sizes = {1, 2}
    Word = 2
    MaxWritten = 3
    MaxOpens = 2
    Maps = {1, 2}
    Keys = {1, 2, 3, 4}
    Vals = {1}
INVARIANTS
    
    BuffersAreRight
    
PROPERTY LruIsRecency
SYMMETRY Symmetry
CHECK_DEADLOCK FALSE
