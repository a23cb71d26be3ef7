SPECIFICATION Spec
CONSTANTS
    Threads = {t1, t2}
    Worker = worker
    NoOwner = noowner
    Requests = {"mkdir","load"}
    Compacting = FALSE
    Failing = FALSE
    Threshold = 2
    MaxTxns = 2
    MaxCrashes = 0
INVARIANT CacheCoherent
CHECK_DEADLOCK FALSE
