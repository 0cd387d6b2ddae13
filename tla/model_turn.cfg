SPECIFICATION Spec
CONSTANTS
    MaxCalls = 2
    Pieces = 2
    MaxText = 1
    Tools = {exec, mcp}
    Exec = exec
    Unknown = ghost
    Commands = {x, y}
    Denied = {y}
    Outside = {x}
    Restricted = FALSE
    Histories <- MCHistories
    MaxRounds = 2
INVARIANTS CallsAssembled PairsKept ProcessGone CacheFresh
CHECK_DEADLOCK FALSE
