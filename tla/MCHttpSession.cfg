SPECIFICATION FairSpec
\* The connection has ended and its tasks have been run.
CHECK_DEADLOCK FALSE
CONSTANTS
    w1 = w1  w2 = w2
    Workers = {w1, w2}
    Packets <- MCPackets
    MaxPackets = 3
    InitialBufferSize = 4
    MaxBufferSize = 26
    SizeRange = 32
INVARIANTS
    InBounds
    AnswersInOrder
    NothingForgotten
PROPERTIES
    RequestAnswered
