SPECIFICATION FairSpec
CONSTANTS
    Requests = {r1, r2}
    NoRequest = NoRequest
    AdminOps = {}
    MaxCrashes = 0
PROPERTIES
    RequestsEnd
    BusyIsCleared
CHECK_DEADLOCK FALSE
