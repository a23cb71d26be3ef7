SPECIFICATION Spec
CONSTANTS
    t1 = t1
    t2 = t2
    Threads = {t1, t2}
    Names = {"a", "b"}
    MaxInode = 4
    Interval = 3
    Tree0 <- OneFile
    Requests = {"open", "release", "unlink", "link"}
    MaxOps = 4
    MaxCrashes = 0
SYMMETRY ThreadSymmetry
INVARIANTS
    PushesUnblocked
CHECK_DEADLOCK FALSE
