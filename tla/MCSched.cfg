SPECIFICATION MCSpec
CONSTANTS
    Thread = {t1, t2, t3}
    MaxTask = 2
    FirstValue = {FALSE}
    Co = {c1, c2}
    Signallers = {t1}
    Program = {{"timed", "read"}, {"wait", "read"}}
    MaxOp = 2
    MaxSignal = 2
    MaxInput = 2
    Fed = {c1}
INVARIANTS
    NoLostWakeup
    PipeNeverFills
    NoneStranded
    TimersAreRight
PROPERTIES
    LoopServes
    FalseMeansTimeout
    SignalWakesAll
CHECK_DEADLOCK FALSE
