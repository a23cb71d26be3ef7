SPECIFICATION Spec
CONSTANTS
    t1 = t1
    Threads = {t1}
    Names = {"a", "b"}
    MaxInode = 4
    Interval = 3
    Tree0 <- OneFile
    Requests = {"open", "unlink"}
    MaxOps = 2
    MaxCrashes = 1
INVARIANTS
    DeferredDeleted
CHECK_DEADLOCK FALSE
