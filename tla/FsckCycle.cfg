SPECIFICATION Spec
CONSTANTS
    t1 = t1
    Threads = {t1}
    Names = {"a", "b"}
    MaxInode = 4
    Interval = 3
    Tree0 <- Nested
    Requests = {"rename"}
    MaxOps = 1
    MaxCrashes = 0
INVARIANTS
    FsckExact
CHECK_DEADLOCK FALSE
