SPECIFICATION Spec
CONSTANTS
    t1 = t1
    Threads = {t1}
    Names = {"a", "b"}
    MaxInode = 4
    Interval = 3
    Tree0 <- OneFile
    Requests = {"open", "unlink", "link", "release"}
    MaxOps = 4
    MaxCrashes = 0
INVARIANTS
    EntriesLive
CHECK_DEADLOCK FALSE
