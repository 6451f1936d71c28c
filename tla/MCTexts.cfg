SPECIFICATION Spec
CONSTANTS
    Order <- MCOrder
    Typed <- MCTyped
    Wide = 8
    Narrow = 4
    Shift <- MCShift
    GroupDigits = 2
    Block = 4
    LowBits = 3
    MaxDepth = 2
    MaxDigits = 2
    GAP = 1
    SEP = 2
    Sixty = 3
INVARIANTS
    TextsAreRight
    FlagsAreRight
    
    GeometryIsRight
CHECK_DEADLOCK FALSE
