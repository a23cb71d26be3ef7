SPECIFICATION Spec
CONSTANTS
    t1 = t1
    Threads = {t1}
    Files = {1}
    MaxFileSize = 2
    SizeBound = 2
    Calls = {"write", "open_trunc", "release"}
    Alone = {}
    Faults = {}
    MaxOps = 2
INVARIANTS
    TailZero
CHECK_DEADLOCK FALSE
