SPECIFICATION Spec
CONSTANTS
    t1 = t1
    t2 = t2
    Threads = {t1, t2}
    Names = {"a", "b"}
    MaxInode = 6
    Interval = 3
    Tree0 <- Nested
    Requests = {"create", "symlink", "mkdir", "unlink", "rmdir", "rename", "link"}
    MaxOps = 3
    MaxCrashes = 0
SYMMETRY ThreadSymmetry
INVARIANTS
    TypeOK
    EntriesLive
    NlinkCovers
    DirsSingleParent
    DirNlink
    PushesUnblocked
CHECK_DEADLOCK FALSE
