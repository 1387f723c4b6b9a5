SPECIFICATION Spec
CONSTANTS
    t1 = t1  t2 = t2
    m1 = m1  m2 = m2  m3 = m3
    Threads = {t1, t2}
    Blocks = {m1, m2, m3}
    Sizes <- MCSizes
    SlotLimit = 4
    HeaderSize = 8
    InitialMax <- MCInitialMax
    CacheNumbers = {1, 2}
SYMMETRY BlockSymmetry
INVARIANTS
    TypeOK
    OneHolder
    RightSize
    ListsBounded
    UsageExact
