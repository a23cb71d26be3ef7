SPECIFICATION Spec
CONSTANTS
    MaxInode = 4
    Names = {1, 2}
    LongNames = {9}
    Threads = {t1, t2}
    Slots = {r1, r2}
    Mixes <- TheMixes
    Overlap <- Overlapping
    Sizes = {0, 1, 2, 3}
    MaxFileSize = 2
    PageSize = 1
    LateRpcs <- EveryRpc
    MaxCalls = 3
    MaxFaults = 1
SYMMETRY MountSymmetry
INVARIANTS
    TypeOK
    DefiniteOutcome
    HandlesCovered
    Kept
    Settled
    ListingExact
CHECK_DEADLOCK FALSE
