SPECIFICATION Spec
CONSTANTS
    t1 = t1
    t2 = t2
    Threads = {t1, t2}
    Names = {"a", "b"}
    MaxInode = 4
    Interval = 3
    Tree0 <- OneFile
    Requests = {"open", "unlink", "release"}
    MaxOps = 3
    MaxCrashes = 0
SYMMETRY ThreadSymmetry
INVARIANTS
    DeferredDeleted
CHECK_DEADLOCK FALSE
