SPECIFICATION Spec
CONSTANTS
    t1 = t1
    t2 = t2
    Threads = {t1, t2}
    Names = {"a", "b"}
    MaxInode = 4
    Interval = 3
    Tree0 <- DirAndFile
    Requests = {"rename"}
    MaxOps = 2
    MaxCrashes = 0
SYMMETRY ThreadSymmetry
INVARIANTS
    NoLockCycle
CHECK_DEADLOCK FALSE
