SPECIFICATION Spec
CONSTANTS
    t1 = t1
    Threads = {t1}
    Interval = 4
    MaxInode = 5
    MaxRestarts = 1
INVARIANTS
    NeverReused
CHECK_DEADLOCK FALSE
