CONSTANTS
    t1 = t1  t2 = t2  t3 = t3
    k1 = k1  k2 = k2
    i1 = i1  i2 = i2  i3 = i3
    NoId = NoId
    Threads <- MCThreads
    Keys <- MCKeys
    Ids <- MCIds

SPECIFICATION Spec
INVARIANT TypeOK
INVARIANT HolderCoherent
INVARIANT ZombieHasPendingPurge
PROPERTY EntryStable
