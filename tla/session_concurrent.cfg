SPECIFICATION Spec
CONSTANTS
    Requests = {r1, r2}
    NoRequest = NoRequest
    AdminOps = {"cancel", "delete", "archive", "unarchive"}
    MaxCrashes = 1
SYMMETRY RequestSymmetry
INVARIANTS
    TypeOK
    BusyHasOwner
    IdleNamesNobody
    NothingLeaks
    QueuedOnce
    HistoryWellFormed
CHECK_DEADLOCK FALSE
