SPECIFICATION FairSpec
CONSTANTS
    c1 = c1  c2 = c2
    bindReq = bindReq  send1 = send1  send2 = send2
    closeReq = closeReq
    Clients = {c1, c2}
    Requests = {bindReq, send1, send2, closeReq}
    KindOf <- MCKindOf
    InitMayFail = TRUE
INVARIANTS
    TypeOK
    NoLostWakeup
    WakeupAlive
    OnePlace
PROPERTIES
    Answered
    MailboxImplemented
