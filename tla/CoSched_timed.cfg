SPECIFICATION Spec
CONSTANTS
    Co = {c1}
    Signallers = {t1}
    Program = {{"timed"}}
    MaxOp = 2
    MaxSignal = 2
    MaxInput = 0
INVARIANT SignalFromAnywhere
CHECK_DEADLOCK FALSE
