SPECIFICATION Spec
CONSTANTS
    Listener = {l1}
    Conn = {c1}
    Threshold = 1
    MaxInterrupts = 1
    MaxStarts = 1
INVARIANTS
    LoggersInitialized
CHECK_DEADLOCK FALSE
