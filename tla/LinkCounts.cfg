SPECIFICATION FairSpec
CONSTANTS
    t1 = t1
    t2 = t2
    Threads = {t1, t2}
    Names = {"a", "b"}
    MaxInode = 6
    Interval = 3
    Tree0 <- Nested
    Requests = {"create", "mkdir", "unlink", "rmdir", "link"}
    MaxOps = 3
    MaxCrashes = 1
INVARIANTS
    FileNlinkExact
    NoOrphanRows
    FsckExact
PROPERTIES
    RequestsReturn
CHECK_DEADLOCK FALSE
