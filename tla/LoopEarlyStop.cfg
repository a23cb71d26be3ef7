SPECIFICATION FairSpec
CONSTANTS
    d1 = d1
    Threads = {t1}
    Dirs = {d1}
    Root = d1
    Loop = loop
    Flushers = {}
    NoDir = nodir
    Threshold = 2
    MaxDeltas = 1
    MaxStops = 1
    MaxFails = 0
    Left = {}
    EarlyStop = TRUE
PROPERTIES
    StopEnds
CHECK_DEADLOCK FALSE
