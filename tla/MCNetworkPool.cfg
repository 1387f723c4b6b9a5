SPECIFICATION FairSpec
CONSTANTS
    c1 = c1
    bindReq = bindReq  connectReq = connectReq  sendReq = sendReq  closeReq = closeReq
    Clients = {c1}
    Requests = {bindReq, connectReq, sendReq, closeReq}
    KindOf <- MCKindOf
    InitMayFail = TRUE
    MaxId = 1
    Timeouts = {"send"}
    SocketOf <- MCSocketOf
INVARIANTS
    DataFate
PROPERTIES
    DestructorReturns
    Reclaimed
