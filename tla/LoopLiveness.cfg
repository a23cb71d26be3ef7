SPECIFICATION FairSpec
CONSTANTS
    d1 = d1
    Threads = {t1, t2}
    Dirs = {d1, d2}
    Root = d1
    Loop = loop
    Flushers = {}
    NoDir = nodir
    Threshold = 2
    MaxDeltas = 2
    MaxStops = 1
    MaxFails = 1
    Left = {d1, d2}
    EarlyStop = FALSE
PROPERTIES
    CatchesUp
    StopEnds
CHECK_DEADLOCK FALSE
