SPECIFICATION Spec
CONSTANTS
    Threads = {t1, t2}
    Worker = worker
    NoOwner = noowner
    Requests = {"mkdir","rmdir","touch","setattr","load","flush"}
    Compacting = TRUE
    Failing = TRUE
    Threshold = 2
    MaxTxns = 3
    MaxCrashes = 1
SYMMETRY ThreadSymmetry
INVARIANT TypeOK
INVARIANT NlinkExact
INVARIANT ExactlyOnce
INVARIANT LedgerInv
PROPERTY ImplementsCounter
CHECK_DEADLOCK FALSE
