SPECIFICATION Spec
CONSTANTS
    Sessions = {s1, s2}
    Ops = {o1, o2, o3}
    Kinds = {"save", "update", "setting", "insert", "memory", "delete", "replace"}
    Crashes = TRUE
SYMMETRY MCSymmetry
INVARIANTS AcknowledgedIsStored ConnectionFreed CountsRight
CHECK_DEADLOCK FALSE
