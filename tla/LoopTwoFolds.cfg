SPECIFICATION FairSpec
CONSTANTS
    d1 = d1
    Threads = {t1}
    Dirs = {d1}
    Root = d1
    Loop = loop
    Flushers = {f1}
    NoDir = nodir
    Threshold = 1
    MaxDeltas = 2
    MaxStops = 0
    MaxFails = 0
    Left = {}
    EarlyStop = FALSE
INVARIANTS
    FoldedOnce
CHECK_DEADLOCK FALSE
