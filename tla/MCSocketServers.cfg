SPECIFICATION FairSpec
CONSTANTS
    b1 = b1  b2 = b2
    MaxId = 2
    Requests <- MCRequests
    Bufs = {b1, b2}
INVARIANTS
    TypeOK
    DatagramFate
PROPERTIES
    CallbackProtocol
    Settles
