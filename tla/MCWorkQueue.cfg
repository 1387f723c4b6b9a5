SPECIFICATION FairSpec
\* The queue may be gone, its constructor may have thrown, the process may be over.
CHECK_DEADLOCK FALSE
CONSTANTS
    w1 = w1  w2 = w2  w3 = w3
    t1 = t1  t2 = t2  t3 = t3  t4 = t4  t5 = t5
    Workers = {w1, w2, w3}
    Tasks = {t1, t2, t3, t4, t5}
    Nulls = {t3, t4, t5}
INVARIANTS
    TypeOK
    NoLostNotify
    TakenInOrder
    NeverDeserted
PROPERTIES
    EveryTaskTaken
    OwnerReturns
