SPECIFICATION Spec
CONSTANTS
    c1 = c1  c2 = c2
    bindReq = bindReq  send1 = send1  send2 = send2
    closeReq = closeReq
    Clients = {c1, c2}
    Requests = {bindReq, send1}
    KindOf <- MCKindOf
    InitMayFail = TRUE
INVARIANTS
    FailureIsThrown
