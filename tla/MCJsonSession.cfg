SPECIFICATION FairSpec
\* The connection has ended and its tasks have been run.
CHECK_DEADLOCK FALSE
CONSTANTS
    w1 = w1  w2 = w2
    Workers = {w1, w2}
    Packets <- MCPackets
    MaxPackets = 3
    InitialBufferSize = 2
    MaxBufferSize = 7
INVARIANTS
    InBounds
    MessagesInOrder
    NothingForgotten
PROPERTIES
    MessageHandled
