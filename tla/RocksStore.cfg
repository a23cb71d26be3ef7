SPECIFICATION StoreSpec
CONSTANTS
    t1 = t1
    t2 = t2
    Threads = {t1, t2}
    Interval = 2
    MaxInode = 3
    MaxRestarts = 1
    Base = 2
    Width = 3
    Names <- TwoNames
    MaxSeq = 2
    MaxPushes = 3
    Mixes <- TreesAndDeltas
SYMMETRY ThreadSymmetry
INVARIANTS
    StoreTypeOK
    UniqueInRun
    ScansExact
    SeqsFresh
PROPERTIES
    ImplementsMap
CHECK_DEADLOCK FALSE
