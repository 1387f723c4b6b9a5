SPECIFICATION Spec
CONSTANTS
    b1 = b1  b2 = b2  b3 = b3
    MaxId = 2
    Bufs = {b1, b2}
    Timeouts = {"connect", "idle", "send"}
SYMMETRY BufSymmetry
INVARIANTS
    Ownership
    NoDanglingCallback
    BufferFate
    TimerMatches
PROPERTIES
    GoneForGood
    GracefulCloseWaits
