SPECIFICATION Spec
CONSTANTS
    t1 = t1
    t2 = t2
    Threads = {t1, t2}
    Files = {1}
    MaxFileSize = 2
    SizeBound = 3
    Calls = {"write", "setattr", "fallocate", "flush", "fsync"}
    Alone = {"setattr", "fallocate", "flush"}
    Faults = {}
    MaxOps = 4
SYMMETRY ThreadSymmetry
INVARIANTS
    TailZero
    Linearizable
    FlushDurable
CHECK_DEADLOCK FALSE
