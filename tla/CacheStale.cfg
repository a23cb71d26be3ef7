SPECIFICATION Spec
CONSTANTS
    Threads = {t1}
    Worker = worker
    NoOwner = noowner
    Requests = {"mkdir","rmdir","touch","load"}
    Compacting = FALSE
    Failing = TRUE
    Threshold = 2
    MaxTxns = 5
    MaxCrashes = 1
INVARIANT CacheCoherent
CHECK_DEADLOCK FALSE
