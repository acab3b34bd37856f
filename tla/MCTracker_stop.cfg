SPECIFICATION Spec
CONSTANTS
    Listener = {l1, l2}
    Conn = {c1, c2}
    Threshold = 2
    MaxInterrupts = 1
    MaxStarts = 1
SYMMETRY Symmetry
INVARIANTS
    StopBlocks
CHECK_DEADLOCK FALSE
