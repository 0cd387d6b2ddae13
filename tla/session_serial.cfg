SPECIFICATION SerialSpec
CONSTANTS
    Requests = {r1, r2, r3}
    NoRequest = NoRequest
    AdminOps = {"cancel"}
    MaxCrashes = 1
SYMMETRY RequestSymmetry
INVARIANTS
    Protected
    NeverQueues
    ConversationInTurns
CHECK_DEADLOCK FALSE
