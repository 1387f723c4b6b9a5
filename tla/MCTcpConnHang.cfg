SPECIFICATION FairSpec
CONSTANTS
    b1 = b1  b2 = b2  b3 = b3
    MaxId = 1
    Bufs = {b1}
    Timeouts = {"connect", "idle", "send"}
PROPERTIES
    ExitFinishes
