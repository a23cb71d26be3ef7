SPECIFICATION Spec
CONSTANTS
    t1 = t1
    Threads = {t1}
    Names = {"a", "b"}
    MaxInode = 4
    Interval = 2
    Tree0 <- OneFile
    Requests = {"create_and_open", "open", "release", "unlink"}
    MaxOps = 6
    MaxCrashes = 0
INVARIANTS
    HandlesKeepRow
    DeferredDeleted
CHECK_DEADLOCK FALSE
