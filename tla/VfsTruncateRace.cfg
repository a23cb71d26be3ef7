SPECIFICATION Spec
CONSTANTS
    t1 = t1
    t2 = t2
    Threads = {t1, t2}
    Files = {1}
    MaxFileSize = 2
    SizeBound = 2
    Calls = {"write", "setattr"}
    Alone = {}
    Faults = {}
    MaxOps = 3
SYMMETRY ThreadSymmetry
INVARIANTS
    Linearizable
CHECK_DEADLOCK FALSE
