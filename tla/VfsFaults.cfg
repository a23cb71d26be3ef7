SPECIFICATION Spec
CONSTANTS
    t1 = t1
    t2 = t2
    Threads = {t1, t2}
    Files = {1, 2}
    MaxFileSize = 2
    SizeBound = 2
    Calls = {"write", "setattr", "fallocate", "open", "open_trunc", "flush", "fsync", "release"}
    Alone = {}
    Faults = {"report", "short", "sync"}
    MaxOps = 2
SYMMETRY ThreadSymmetry
INVARIANTS
    TypeOK
    Isolated
CHECK_DEADLOCK FALSE
