SPECIFICATION Spec
CONSTANTS
    d1 = d1
    Threads = {t1, t2}
    Dirs = {d1, d2}
    Root = d1
    Loop = loop
    Flushers = {}
    NoDir = nodir
    Threshold = 2
    MaxDeltas = 2
    MaxStops = 1
    MaxFails = 2
    Left = {d1}
    EarlyStop = FALSE
INVARIANTS
    NoLostWakeup
    PendingTracked
    FoldedOnce
SYMMETRY LoopSymmetry
CHECK_DEADLOCK FALSE
