SPECIFICATION FairSpec
CONSTANTS
    Listener = {l1}
    Conn = {c1, c2, c3}
    Threshold = 2
    MaxInterrupts = 2
    MaxStarts = 2
INVARIANTS
    TypeOK
    ThrottleHolds
    SlotsAccounted
    RunningMethodsHaveDB
    CertificateLasts
PROPERTIES
    OnlyKeyWriteLocksOut
    InterruptEndsProcess
CHECK_DEADLOCK FALSE
